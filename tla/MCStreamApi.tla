---------------------------- MODULE MCStreamApi -----------------------------
(***************************************************************************)
(* Model checking of StreamApi, with the claims of documents and comments  *)
(* about retries and pauses that the routes do not meet.                   *)
(***************************************************************************)
EXTENDS StreamApi

BothOrders == {<<1, 2>>, <<2, 1>>}
NoGroup == <<>>
InOrder == <<1, 2>>

(* docs/api/idempotency-scoping.md: "A retry with the same key must not    *)
(* settle or withdraw twice".                                              *)
WrappedOnce == \A token \in appliedTwice : token[1] \notin WrappedOps

(* docs/errors.md lists SETTLEMENT_FAILED as retryable.  A settle request  *)
(* for a stream that was ended by settling is answered 200 only if it has  *)
(* been settled.                                                           *)
SettledMeansOnChain ==
    \A i \in DOMAIN requests :
        /\ requests[i].op = "settle" /\ requests[i].answer = "ok"
        /\ stream[Target(i)].tx
        => Target(i) \in settledOnChain

(* docs/STATE_MACHINE.md: on resume "the service adds now - pausedAt" to   *)
(* the paused time.  Resuming does not change what has vested.             *)
ResumeEarnsNothing ==
    [][ \A id \in Streams :
          stream[id].status = "paused" /\ stream'[id].status = "active" =>
            Vested(stream[id], now) = Vested(stream'[id], now) ]_vars
=============================================================================
