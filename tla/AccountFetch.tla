---------------------------- MODULE AccountFetch ----------------------------
(***************************************************************************)
(* lib/accountFetchCoordinator.ts and one useAccountFetch hook on top of   *)
(* it (app/hooks/useAccountFetch.ts): fetches bound to the account that    *)
(* was active when they began, shared under a key, retried, timed out and  *)
(* aborted, while the user switches accounts.                              *)
(*                                                                         *)
(* JavaScript runs one task at a time: an action is a user event, a timer  *)
(* or the answer of a fetch, with the promise reactions it sets off.  The  *)
(* Set of controllers of an account is an object with an identity, kept in *)
(* the heap sets: a request keeps hold of the Set it was added to.         *)
(*                                                                         *)
(* A definition named Mutant... is a faulty form of the one it precedes.   *)
(***************************************************************************)
EXTENDS Integers, Sequences, FiniteSets

CONSTANTS
    Accounts,
    None,           \* disconnected; no key; no data
    Keys,           \* deduplication keys that other callers use; may have None
    HookKey,        \* the hook's deduplication key, or None
    Retries,        \* retries of every request
    MaxCalls,       \* bound: requests started
    MaxEpoch        \* bound: account switches

ASSUME FetchAssumption ==
    /\ None \notin Accounts /\ HookKey \in Keys \cup {None}
    /\ Retries \in Nat /\ MaxCalls \in Nat /\ MaxEpoch \in Nat

VARIABLES
    active,         \* activeAccountId
    epoch,
    sets,           \* heap: the Sets of controllers created so far
    setOf,          \* inFlightControllers: account -> index in sets, or 0
    dedup,          \* deduplicationMap: <<account, key>> -> call, or 0
    calls,          \* requests started, each with its own controller
    hook,           \* the hook's refs and state
    waiting,        \* executeFetch of the hook awaiting a call
    cut             \* history: a call was cut off by a timeout, abortAll, or
                    \*   the hook asked for an account it had aborted

coordinator == <<active, epoch, sets, setOf, dedup>>
fetchVars == <<coordinator, calls, hook, waiting, cut>>

CallIds == DOMAIN calls
Composite == Accounts \X Keys

FetchInit ==
    /\ active = None /\ epoch = 0
    /\ sets = <<>>
    /\ setOf = [a \in Accounts |-> 0]
    /\ dedup = [k \in Composite |-> 0]
    /\ calls = <<>>
    /\ hook = [account |-> None, data |-> None, from |-> 0, loading |-> FALSE]
    /\ waiting = {}
    /\ cut = FALSE

-----------------------------------------------------------------------------
(* The coordinator, as changes to a record of its state *)

State == [ active |-> active, epoch |-> epoch, sets |-> sets, setOf |-> setOf,
           dedup |-> dedup, calls |-> calls, waiting |-> waiting, hook |-> hook ]

Becomes(s) ==
    /\ active' = s.active /\ epoch' = s.epoch /\ sets' = s.sets
    /\ setOf' = s.setOf /\ dedup' = s.dedup /\ calls' = s.calls
    /\ waiting' = s.waiting /\ hook' = s.hook

(* cleanup of every call in ids: the entry of a key goes whoever owns it by *)
(* now, and so does the account's Set when the Set the call was added to is *)
(* empty.                                                                   *)
Cleaned(s, ids) ==
    LET left == [i \in DOMAIN s.sets |-> s.sets[i] \ ids]
    IN  [s EXCEPT !.sets = left,
                  !.setOf = [a \in Accounts |->
                      IF \E c \in ids : s.calls[c].account = a /\ left[s.calls[c].set] = {}
                      THEN 0 ELSE @[a]],
                  !.dedup = [k \in Composite |->
                      IF \E c \in ids : <<s.calls[c].account, s.calls[c].key>> = k
                      THEN 0 ELSE @[k]]]

(* The hook's continuation: only the latest of its requests may write.      *)
IsLatest(s, w) == s.hook.account = w.account /\ w.latest

MutantContinued(s, c, outcome) ==
    IF outcome # "ok" \/ ~\E w \in s.waiting : w.call = c /\ IsLatest(s, w) THEN s
    ELSE [s EXCEPT !.hook.data = s.calls[c].account, !.hook.from = c, !.hook.loading = FALSE]
(* A switched call leaves the hook as it is, its loading flag too.          *)
Continued(s, c, outcome) ==
    IF outcome = "switched" \/ ~\E w \in s.waiting : w.call = c /\ IsLatest(s, w) THEN s
    ELSE IF outcome = "ok"
    THEN [s EXCEPT !.hook.data = s.calls[c].account, !.hook.from = c, !.hook.loading = FALSE]
    ELSE [s EXCEPT !.hook.loading = FALSE]

(* Of a call that is over only its account and epoch are kept. *)
Over(call) == [call EXCEPT !.pc = "over", !.key = None, !.set = 0,
                           !.attempt = 0, !.aborted = FALSE]

(* The promises of ids settle: cleanup, then whoever awaits them.           *)
Rejected(s, ids) ==
    LET over == Cleaned(s, ids)
    IN  [over EXCEPT !.calls = [c \in DOMAIN @ |->
                                  IF c \in ids THEN Over(@[c]) ELSE @[c]],
                     !.waiting = {w \in @ : w.call \notin ids}]
Settled(s, c, outcome) == Rejected(Continued(s, c, outcome), {c})

Mark(s, ids) == [s EXCEPT !.calls = [c \in DOMAIN @ |->
                    IF c \in ids THEN [@[c] EXCEPT !.aborted = TRUE] ELSE @[c]]]

(* A call that sleeps when it is first aborted is rejected as soon as the   *)
(* code that aborted it has returned; one that fetches waits for its fetch. *)
Struck(before, after) ==
    {c \in DOMAIN before.calls : /\ after.calls[c].pc = "sleeping"
                                 /\ ~before.calls[c].aborted /\ after.calls[c].aborted}
Returns(before, after) == Becomes(Rejected(after, Struck(before, after)))

Switched(s, a) ==
    IF s.active = a THEN s
    ELSE LET inSet == IF s.active = None \/ s.setOf[s.active] = 0 THEN {}
                      ELSE s.sets[s.setOf[s.active]]
             keyed == {s.dedup[k] : k \in Composite} \ {0}
         IN  [Mark(s, inSet \cup keyed) EXCEPT
                 !.active = a, !.epoch = @ + 1,
                 !.setOf = [b \in Accounts |-> IF b = s.active THEN 0 ELSE @[b]],
                 !.dedup = [k \in Composite |-> 0]]

(* execute, for an account that is active: the call it returns and the state. *)
MayShare(s, a, key) ==
    /\ key # None /\ s.dedup[<<a, key>>] # 0
    /\ LET c == s.calls[s.dedup[<<a, key>>]]
       IN  c.account = a /\ c.epoch = s.epoch /\ ~c.aborted

Started(s, a, key) ==
    LET c   == Len(s.calls) + 1
        set == IF s.setOf[a] = 0 THEN Len(s.sets) + 1 ELSE s.setOf[a]
        new == [ account |-> a, key |-> key, set |-> set, epoch |-> s.epoch,
                 pc |-> "fetching", attempt |-> 0, aborted |-> FALSE ]
    IN  [s EXCEPT !.calls = Append(@, new),
                  !.sets = IF set > Len(@) THEN Append(@, {c}) ELSE [@ EXCEPT ![set] = @ \cup {c}],
                  !.setOf[a] = set,
                  !.dedup = [k \in Composite |-> IF k = <<a, key>> THEN c ELSE @[k]]]

Executed(s, a, key) == IF MayShare(s, a, key) THEN s ELSE Started(s, a, key)
CallOf(s, a, key) == IF MayShare(s, a, key) THEN s.dedup[<<a, key>>] ELSE Len(s.calls) + 1

(* requestSequenceRef.current++: no request made so far is the latest.      *)
Outdated(s) == [s EXCEPT !.waiting = {[w EXCEPT !.latest = FALSE] : w \in @}]

(* executeFetch: an account that is not active is refused at once, and the  *)
(* refusal is an AccountSwitchedError.                                      *)
Fetched(s, a) ==
    LET begun == [Outdated(s) EXCEPT !.hook.loading = TRUE]
    IN  IF a # s.active THEN begun
        ELSE [Executed(begun, a, HookKey) EXCEPT
                 !.waiting = @ \cup {[ account |-> a, latest |-> TRUE,
                                       call |-> CallOf(s, a, HookKey) ]}]

-----------------------------------------------------------------------------
(* The user, the page and the timers *)

Room == Len(calls) < MaxCalls

(* The effect of the hook when its accountId changes: the old effect's      *)
(* cleanup, switchAccount, then a fetch for the new account.                *)
MutantShown(s, a) == [s EXCEPT !.hook.account = a]
Shown(s, a) == [s EXCEPT !.hook.account = a, !.hook.data = None, !.hook.from = 0]

AccountChanges(a) ==
    /\ a # hook.account /\ epoch < MaxEpoch /\ Room
    /\ LET now == Shown(Switched(Outdated(State), a), a)
       IN  Returns(State, IF a = None THEN [now EXCEPT !.hook.loading = FALSE]
                          ELSE Fetched(now, a))
    /\ UNCHANGED cut

Refetch ==
    /\ Room /\ hook.account # None
    /\ Returns(State, Fetched(State, hook.account))
    /\ cut' = (cut \/ hook.account # active)

HookAbort ==
    /\ hook.account # None /\ epoch < MaxEpoch
    /\ LET s == Switched(State, None)
       IN  Returns(State, [s EXCEPT !.hook.loading = FALSE])
    /\ UNCHANGED cut

(* Another caller of the coordinator, with a key of its own or the hook's.  *)
OtherExecutes(key) ==
    /\ active # None /\ Room
    /\ Becomes(Executed(State, active, key))
    /\ UNCHANGED cut

AbortAll ==
    /\ LET inSets == UNION {sets[setOf[a]] : a \in {b \in Accounts : setOf[b] # 0}}
       IN  /\ inSets # {}
           /\ Returns(State, [Mark(State, inSets) EXCEPT
                                 !.setOf = [a \in Accounts |-> 0],
                                 !.dedup = [k \in Composite |-> 0]])
    /\ cut' = TRUE

Timeout(c) ==
    /\ calls[c].pc # "over" /\ ~calls[c].aborted
    /\ Returns(State, Mark(State, {c}))
    /\ cut' = TRUE

-----------------------------------------------------------------------------
(* The requests *)

SameGeneration(c) == active = calls[c].account /\ epoch = calls[c].epoch

Answers(c) ==
    /\ calls[c].pc = "fetching"
    /\ Becomes(Settled(State, c, IF SameGeneration(c) /\ ~calls[c].aborted THEN "ok" ELSE "switched"))
    /\ UNCHANGED cut

(* An aborted fetch may reject with AbortError, or with the reason of the   *)
(* abort, or fail on its own.                                               *)
Fails(c) ==
    /\ calls[c].pc = "fetching"
    /\ \/ calls[c].aborted /\ Becomes(Settled(State, c, "switched"))
       \/ calls[c].attempt = Retries /\ Becomes(Settled(State, c, "error"))
       \/ /\ calls[c].attempt < Retries
          /\ Becomes([State EXCEPT !.calls[c].pc = "sleeping"])
    /\ UNCHANGED cut

Wakes(c) ==
    /\ calls[c].pc = "sleeping"
    /\ IF SameGeneration(c) /\ ~calls[c].aborted
       THEN Becomes([State EXCEPT !.calls[c].pc = "fetching", !.calls[c].attempt = @ + 1])
       ELSE Becomes(Settled(State, c, "switched"))
    /\ UNCHANGED cut

Done ==
    /\ \A c \in CallIds : calls[c].pc = "over"
    /\ UNCHANGED fetchVars

FetchNext ==
    \/ \E a \in Accounts \cup {None} : AccountChanges(a)
    \/ Refetch \/ HookAbort \/ AbortAll
    \/ \E key \in Keys : OtherExecutes(key)
    \/ \E c \in CallIds : Timeout(c) \/ Answers(c) \/ Fails(c) \/ Wakes(c)
    \/ Done

(* A fetch ends at last and a timer fires; nothing is asked of the user.    *)
FetchFairness == \A c \in 1 .. MaxCalls : WF_fetchVars(c \in CallIds /\ (Answers(c) \/ Fails(c) \/ Wakes(c)))
FetchSpec == FetchInit /\ [][FetchNext]_fetchVars /\ FetchFairness

-----------------------------------------------------------------------------
FetchTypeOK ==
    /\ active \in Accounts \cup {None} /\ epoch \in 0 .. MaxEpoch
    /\ \A i \in DOMAIN sets : sets[i] \subseteq CallIds
    /\ \A a \in Accounts : setOf[a] \in 0 .. Len(sets)
    /\ \A k \in Composite : dedup[k] \in CallIds \cup {0}
    /\ \A c \in CallIds : /\ calls[c].account \in Accounts
                          /\ calls[c].pc \in {"fetching", "sleeping", "over"}
                          /\ calls[c].attempt \in 0 .. Retries
    /\ hook.account \in Accounts \cup {None} /\ hook.loading \in BOOLEAN
    /\ \A w \in waiting : w.call \in CallIds

(* What the hook shows was fetched for the account it is on, in the stay on *)
(* it that still lasts: not by a request of another account, nor of an      *)
(* earlier stay on this one (setData under the two checks).                 *)
DataIsCurrent ==
    hook.data # None =>
        /\ hook.data = hook.account /\ calls[hook.from].account = hook.account
        /\ active = hook.account => calls[hook.from].epoch = epoch

(* Identical requests of one stay on an account share one fetch while it    *)
(* runs (deduplicationMap).                                                 *)
IdenticalRequestsShare ==
    \A c, d \in CallIds :
        /\ c # d /\ calls[c].key = calls[d].key /\ calls[c].key # None
        /\ calls[c].pc # "over" /\ calls[d].pc # "over"
        /\ ~calls[c].aborted /\ ~calls[d].aborted
        => calls[c].epoch # calls[d].epoch

(* The page does not load for ever: the hook's loading flag falls, unless   *)
(* a request was cut off, which the hook takes for an account switch.       *)
LoadingEnds == hook.loading ~> (~hook.loading \/ cut)
=============================================================================
