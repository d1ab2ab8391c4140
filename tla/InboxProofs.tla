----------------------------- MODULE InboxProofs -----------------------------
(***************************************************************************)
(* Both stores keep the contract of the trait, for every number of callers *)
(* and keys, with claims that are released, calls that fail, lose their    *)
(* answer or are executed late, and callers that die at any await, except  *)
(* for one step: the bucket answers Claimed when the get after a create    *)
(* that failed finds nothing.  The Redis store has no such step.           *)
(***************************************************************************)
EXTENDS Inbox, TLAPS

EndOps == {"mark_done", "release"}

OwnerLabels == {"owner"} \union EndOps

\* The entry of an owned key is pending ...
OwnedIsPending ==
    \A c \in Callers : pc[c] \in OwnerLabels => store[key[c]] = "pending"

\* ... and so is that of a key whose claim has an end under way, which nobody
\* owns and for which no other end is under way: nobody could claim it since.
StaleEndIsLast ==
    \A r \in stale : r.op \in EndOps =>
        /\ store[r.key] = "pending"
        /\ \A c \in Callers : pc[c] \in OwnerLabels => key[c] # r.key
        /\ \A s \in stale : s.op \in EndOps /\ s.key = r.key => s = r

OwnersApart ==
    \A b, c \in Callers :
        pc[b] \in OwnerLabels /\ pc[c] \in OwnerLabels /\ key[b] = key[c] => b = c

Inv == TypeOK /\ OwnedIsPending /\ StaleEndIsLast /\ OwnersApart

LEMMA InitInv == Init => Inv
BY DEF Init, Inv, TypeOK, Entries, OwnedIsPending, StaleEndIsLast, OwnersApart, OwnerLabels, EndOps

\* The effect of each request on an entry, by cases.
LEMMA AfterFacts ==
    ASSUME NEW value \in Entries
    PROVE  /\ After("claim", value) = IF value \in Absent THEN "pending" ELSE value
           /\ After("get", value) = value
           /\ After("mark_done", value) = "done"
           /\ After("release", value) \in Absent
           /\ \A op \in Ops : After(op, value) \in Entries
BY DEF After, Absent, Released, Entries, Ops

\* Where a caller is after an answer or an error.
LEMMA AnswerFacts ==
    ASSUME NEW value
    PROVE  /\ value \in Absent => Answer("claim", value) = "owner"
           /\ value \notin Absent => Answer("claim", value) \in {"idle", "get"}
           /\ value \in Absent => Answer("get", value) = "owner"
           /\ value \notin Absent => Answer("get", value) = "idle"
           /\ Answer("mark_done", value) = "idle"
           /\ Answer("release", value) = "idle"
           /\ AfterError("claim") \in {"idle", "get"}
           /\ \A op : op # "claim" => AfterError(op) = "idle"
BY DEF Answer, AfterClaim, AfterGet, AfterError

\* The get that follows a conflict finds an entry, where the gap is left out.
LEMMA GetFinds ==
    ASSUME TypeOK, NEW c \in Callers, pc[c] = "get", Answered(c), ~ClaimedWithoutEntry
    PROVE  /\ store[key[c]] \notin Absent
           /\ store' = store
           /\ pc' = [pc EXCEPT ![c] = "idle"]
<1>0. /\ key[c] \in Ids /\ store[key[c]] \in Entries
      /\ store' = [store EXCEPT ![key[c]] = After("get", store[key[c]])]
      /\ pc' = [pc EXCEPT ![c] = Answer("get", store[key[c]])]
  BY DEF TypeOK, Answered, Execute, Goto
<1>1. store' = store
  <2>1. After("get", store[key[c]]) = store[key[c]]
    BY <1>0, AfterFacts
  <2> QED
    BY <1>0, <2>1 DEF TypeOK
<1>2. store[key[c]] \notin Absent
  <2> SUFFICES ASSUME store[key[c]] \in Absent PROVE FALSE
    OBVIOUS
  <2>1. pc'[c] = "owner"
    BY <1>0, AnswerFacts DEF TypeOK
  <2> QED
    BY <2>1 DEF ClaimedWithoutEntry
<1> QED
  BY <1>0, <1>1, <1>2, AnswerFacts

\* With either backend every call is at a request and every entry has a value.
THEOREM InboxTypes == Spec => []TypeOK
<1>1. Init => TypeOK
  BY DEF Init, TypeOK, Entries
<1>a. \A op \in Ops, value \in Entries : After(op, value) \in Entries
  BY BackendAssumption DEF After, Absent, Released, Entries, Ops
<1>b. \A op \in Ops, value \in Entries :
         Answer(op, value) \in {"idle", "owner"} \union Ops /\ AfterError(op) \in {"idle", "owner"} \union Ops
  BY BackendAssumption DEF Answer, AfterClaim, AfterGet, AfterError, Absent, Entries, Ops
<1>2. TypeOK /\ [Next]_vars => TypeOK'
  <2> SUFFICES ASSUME TypeOK, [Next]_vars
               PROVE  TypeOK'
    OBVIOUS
  <2> USE DEF TypeOK, Goto, Requests
  <2>1. ASSUME NEW c \in Callers, NEW k \in Ids, TryClaim(c, k) PROVE TypeOK'
    BY <2>1 DEF TryClaim, Ops
  <2>2. ASSUME NEW c \in Callers, EndClaim(c) PROVE TypeOK'
    BY <2>2 DEF EndClaim, Ops
  <2>3. ASSUME NEW c \in Callers, Answered(c) PROVE TypeOK'
    BY <1>a, <1>b, <2>3 DEF Answered, Execute
  <2>4. ASSUME NEW c \in Callers, Failed(c) PROVE TypeOK'
    <3>1. pc' = [pc EXCEPT ![c] = AfterError(pc[c])] /\ key' = key /\ pc[c] \in Ops
      BY <2>4 DEF Failed
    <3>2. store' \in [Ids -> Entries]
      BY <1>a, <2>4 DEF Failed, Execute
    <3>3. stale' \subseteq Requests
      BY <2>4 DEF Failed
    <3>4. AfterError(pc[c]) \in {"idle", "owner"} \union Ops
      BY <1>b, <3>1 DEF Entries
    <3> QED
      BY <3>1, <3>2, <3>3, <3>4
  <2>5. ASSUME NEW c \in Callers, Die(c) PROVE TypeOK'
    BY <2>5 DEF Die
  <2>6. ASSUME NEW r \in stale, Late(r) PROVE TypeOK'
    BY <1>a, <2>6 DEF Late, Execute
  <2>7. CASE UNCHANGED vars
    BY <2>7 DEF vars
  <2> QED
    BY <2>1, <2>2, <2>3, <2>4, <2>5, <2>6, <2>7 DEF Next
<1> QED
  BY <1>1, <1>2, PTL DEF Spec

LEMMA NextInv == ASSUME Inv, [GapFreeNext]_vars PROVE Inv'
<1> USE DEF Inv, TypeOK, OwnedIsPending, StaleEndIsLast, OwnersApart, OwnerLabels, EndOps,
            Ops, Requests, Goto
<1>a. \A k \in Ids :
         /\ After("claim", store[k]) = IF store[k] \in Absent THEN "pending" ELSE store[k]
         /\ After("get", store[k]) = store[k]
         /\ After("mark_done", store[k]) = "done"
         /\ After("release", store[k]) \in Absent
         /\ \A op \in Ops : After(op, store[k]) \in Entries
  BY AfterFacts
<1>1. ASSUME NEW c \in Callers, NEW k \in Ids, TryClaim(c, k) PROVE Inv'
  BY <1>1 DEF TryClaim
<1>2. ASSUME NEW c \in Callers, EndClaim(c) PROVE Inv'
  BY <1>2 DEF EndClaim
<1>3. ASSUME NEW c \in Callers, Answered(c), ~ClaimedWithoutEntry PROVE Inv'
  <2>1. CASE pc[c] = "claim"
    BY <1>3, <1>a, <2>1, AnswerFacts DEF Answered, Execute, Absent
  <2>2. CASE pc[c] \in EndOps
    BY <1>3, <1>a, <2>2, AnswerFacts DEF Answered, Execute
  <2>3. CASE pc[c] = "get"
    <3>1. store' = store /\ pc' = [pc EXCEPT ![c] = "idle"] /\ key' = key /\ stale' = stale
      BY <1>3, <2>3, GetFinds DEF Answered
    <3> QED
      BY <3>1
  <2> QED
    BY <1>3, <2>1, <2>2, <2>3 DEF Answered
<1>4. ASSUME NEW c \in Callers, Failed(c) PROVE Inv'
  <2>1. /\ pc[c] \in Ops /\ key' = key
        /\ pc' = [pc EXCEPT ![c] = AfterError(pc[c])]
        /\ AfterError(pc[c]) \in {"idle", "get"}
    BY <1>4, AnswerFacts DEF Failed
  <2>2. CASE UNCHANGED <<store, stale>>
    BY <2>1, <2>2
  <2>3. CASE Execute(pc[c], key[c]) /\ UNCHANGED stale
    <3>1. CASE pc[c] = "claim"
      BY <1>a, <2>1, <2>3, <3>1 DEF Execute, Absent
    <3>2. CASE pc[c] \in EndOps
      BY <1>a, <2>1, <2>3, <3>2 DEF Execute
    <3>3. CASE pc[c] = "get"
      <4>1. store' = store
        BY <1>a, <2>3, <3>3 DEF Execute
      <4> QED
        BY <2>1, <2>3, <4>1
    <3> QED
      BY <2>1, <3>1, <3>2, <3>3
  <2>4. CASE stale' = stale \union {[op |-> pc[c], key |-> key[c]]} /\ UNCHANGED store
    BY <2>1, <2>4
  <2> QED
    BY <1>4, <2>2, <2>3, <2>4 DEF Failed
<1>5. ASSUME NEW c \in Callers, Die(c) PROVE Inv'
  BY <1>5 DEF Die
<1>6. ASSUME NEW r \in stale, Late(r) PROVE Inv'
  <2>1. r.key \in Ids /\ r.op \in Ops
    OBVIOUS
  <2>2. CASE r.op = "claim"
    BY <1>6, <1>a, <2>1, <2>2 DEF Late, Execute, Absent
  <2>3. CASE r.op \in EndOps
    BY <1>6, <1>a, <2>1, <2>3 DEF Late, Execute
  <2>4. CASE r.op = "get"
    <3>1. store' = store
      BY <1>6, <1>a, <2>1, <2>4 DEF Late, Execute
    <3> QED
      BY <1>6, <3>1 DEF Late
  <2> QED
    BY <2>1, <2>2, <2>3, <2>4
<1>7. CASE UNCHANGED vars
  BY <1>7 DEF vars
<1> QED
  BY <1>1, <1>2, <1>3, <1>4, <1>5, <1>6, <1>7 DEF Next, GapFreeNext

THEOREM InboxInvariant == GapFreeSpec => []Inv
<1>1. Inv /\ [GapFreeNext]_vars => Inv'
  BY NextInv
<1> QED
  BY <1>1, InitInv, PTL DEF GapFreeSpec

\* Two callers never own the claim of one key, with either store, unless one of them
\* was told Claimed by the get of the bucket that found nothing: released claims,
\* failed calls, late requests and dead callers do not lead there.
THEOREM GapFreeOneOwner == GapFreeSpec => []OneOwner
<1>1. Inv => OneOwner
  BY DEF Inv, OwnersApart, OneOwner, OwnsClaim, OwnerLabels, EndOps
<1> QED
  BY <1>1, InboxInvariant, PTL

\* Nor does anything else reopen a key that was marked done: no late release, create
\* or second mark_done undoes it.
THEOREM GapFreeDoneIsFinal == GapFreeSpec => DoneIsFinal
<1>1. ASSUME Inv, [GapFreeNext]_vars, NEW k \in Ids, store[k] = "done"
      PROVE  store'[k] = "done"
  <2> USE DEF Inv, TypeOK, OwnedIsPending, StaleEndIsLast, OwnerLabels, EndOps, Ops, Requests
  <2>a. After("claim", "done") = "done" /\ After("get", "done") = "done"
    BY AfterFacts DEF Entries, Absent
  <2>1. ASSUME NEW c \in Callers, Answered(c) PROVE store'[k] = "done"
    BY <1>1, <2>1, <2>a DEF Answered, Execute
  <2>2. ASSUME NEW c \in Callers, Failed(c) PROVE store'[k] = "done"
    BY <1>1, <2>2, <2>a DEF Failed, Execute
  <2>3. ASSUME NEW r \in stale, Late(r) PROVE store'[k] = "done"
    BY <1>1, <2>3, <2>a DEF Late, Execute
  <2>4. CASE UNCHANGED store
    BY <1>1, <2>4
  <2> QED
    BY <1>1, <2>1, <2>2, <2>3, <2>4 DEF GapFreeNext, Next, TryClaim, EndClaim, Die, vars
<1>2. Inv /\ [GapFreeNext]_vars => [\A k \in Ids : store[k] = "done" => store'[k] = "done"]_vars
  BY <1>1
<1> QED
  BY <1>2, InboxInvariant, PTL DEF GapFreeSpec, DoneIsFinal

-----------------------------------------------------------------------------
(* The stores implement the contract *)

LEMMA InitContract == Init => Contract!Init
BY DEF Init, Contract!Init, Entry, Owners, OwnsClaim, Absent

\* The two halves of the mapping, when one key and one caller change.
LEMMA EntryChanges ==
    ASSUME TypeOK, NEW k \in Ids, NEW value, store' = [store EXCEPT ![k] = value]
    PROVE  Entry' = [Entry EXCEPT ![k] = IF value \in Absent THEN "absent" ELSE value]
BY DEF TypeOK, Entry

LEMMA SameOwners ==
    ASSUME TypeOK, key' = key, NEW c \in Callers,
           NEW label, label \notin OwnerLabels, pc' = [pc EXCEPT ![c] = label],
           pc[c] \notin OwnerLabels
    PROVE  Owners' = Owners
BY DEF TypeOK, Owners, OwnsClaim, OwnerLabels, EndOps

LEMMA OwnerLeaves ==
    ASSUME TypeOK, key' = key, NEW c \in Callers, pc' = [pc EXCEPT ![c] = "idle"],
           pc[c] \in OwnerLabels
    PROVE  /\ <<c, key[c]>> \in Owners
           /\ Owners' = Owners \ {<<c, key[c]>>}
BY DEF TypeOK, Owners, OwnsClaim, OwnerLabels, EndOps

LEMMA OwnerEnters ==
    ASSUME TypeOK, key' = key, NEW c \in Callers, pc' = [pc EXCEPT ![c] = "owner"]
    PROVE  Owners' = Owners \union {<<c, key[c]>>}
BY DEF TypeOK, Owners, OwnsClaim

LEMMA AbsentIsUnowned ==
    ASSUME OwnedIsPending, NEW k \in Ids, store[k] # "pending"
    PROVE  Contract!Unowned(k)
BY DEF OwnedIsPending, Contract!Unowned, Owners, OwnsClaim, OwnerLabels, EndOps

\* What an end writes, as the contract sees it.
LEMMA EndWrites ==
    ASSUME TypeOK, NEW op \in EndOps, NEW k \in Ids,
           store' = [store EXCEPT ![k] = After(op, store[k])]
    PROVE  \E state \in {"done", "absent"} : Entry' = [Entry EXCEPT ![k] = state]
<1>0. store[k] \in Entries
  BY DEF TypeOK
<1>1. CASE op = "mark_done"
  <2>1. After(op, store[k]) = "done"
    BY <1>0, <1>1, AfterFacts
  <2> QED
    BY <2>1, EntryChanges DEF Absent
<1>2. CASE op = "release"
  <2>1. After(op, store[k]) \in Absent
    BY <1>0, <1>2, AfterFacts
  <2> QED
    BY <2>1, EntryChanges
<1> QED
  BY <1>1, <1>2 DEF EndOps

\* A request for which no owner waits, executed on the server.
LEMMA UnseenExecution ==
    ASSUME Inv, NEW op \in Ops, NEW k \in Ids, Execute(op, k), Owners' = Owners,
           op \in EndOps => store[k] = "pending" /\ Contract!Unowned(k)
    PROVE  Contract!Next \/ UNCHANGED (Contract!vars)
<1> USE DEF Inv
<1>0. store[k] \in Entries /\ store' = [store EXCEPT ![k] = After(op, store[k])]
  BY DEF TypeOK, Execute
<1>1. CASE op = "claim" /\ store[k] \in Absent
  <2>0. Entry[k] = "absent"
    BY <1>1 DEF Entry
  <2>1. Entry' = [Entry EXCEPT ![k] = "pending"]
    <3>1. After(op, store[k]) = "pending"
      BY <1>0, <1>1, AfterFacts
    <3> QED
      BY <1>0, <3>1, EntryChanges DEF Absent
  <2>2. Contract!ClaimUnseen(k)
    BY <1>1, <2>0, <2>1, AbsentIsUnowned DEF Contract!ClaimUnseen, Absent
  <2> QED
    BY <2>2 DEF Contract!Next
<1>2. CASE op = "claim" /\ store[k] \notin Absent
  <2>1. store' = store
    BY <1>0, <1>2, AfterFacts DEF TypeOK
  <2> QED
    BY <2>1 DEF Contract!vars, Entry
<1>4. CASE op = "get"
  <2>1. store' = store
    BY <1>0, <1>4, AfterFacts DEF TypeOK
  <2> QED
    BY <2>1 DEF Contract!vars, Entry
<1>3. CASE op \in EndOps
  <2>1. Entry[k] = "pending"
    BY <1>3 DEF Entry, Absent
  <2>2. PICK state \in {"done", "absent"} : Entry' = [Entry EXCEPT ![k] = state]
    BY <1>0, <1>3, EndWrites
  <2>3. Contract!EndLate(k, state)
    BY <1>3, <2>1, <2>2 DEF Contract!EndLate
  <2> QED
    BY <2>3 DEF Contract!Next
<1> QED
  BY <1>1, <1>2, <1>3, <1>4 DEF Ops, EndOps

\* The end of a claim, executed while its owner waits.
LEMMA OwnerEnds ==
    ASSUME Inv, NEW c \in Callers, pc[c] \in EndOps, Execute(pc[c], key[c]),
           pc' = [pc EXCEPT ![c] = "idle"], key' = key
    PROVE  Contract!Next
<1> USE DEF Inv
<1>0. /\ key[c] \in Ids
      /\ store[key[c]] \in Entries
      /\ store' = [store EXCEPT ![key[c]] = After(pc[c], store[key[c]])]
  BY DEF TypeOK, Execute
<1>1. PICK state \in {"done", "absent"} : Entry' = [Entry EXCEPT ![key[c]] = state]
  BY <1>0, EndWrites
<1>2. Contract!End(c, key[c], state)
  BY <1>1, OwnerLeaves DEF Contract!End, OwnerLabels
<1> QED
  BY <1>0, <1>1, <1>2 DEF Contract!Next

\* An owner that is gone without having ended its claim.
LEMMA OwnerAbandons ==
    ASSUME Inv, NEW c \in Callers, pc[c] \in OwnerLabels, pc' = [pc EXCEPT ![c] = "idle"],
           key' = key, store' = store
    PROVE  Contract!Next
<1>1. Contract!Abandon(c, key[c])
  BY OwnerLeaves DEF Inv, Contract!Abandon, Entry
<1> QED
  BY <1>1 DEF Inv, TypeOK, Contract!Next

LEMMA NextContract == ASSUME Inv, [GapFreeNext]_vars PROVE [Contract!Next]_(Contract!vars)
<1>t. TypeOK
  BY DEF Inv
<1>e. store' = store => Entry' = Entry
  BY DEF Entry
<1>1. ASSUME NEW c \in Callers, NEW k \in Ids, TryClaim(c, k) PROVE UNCHANGED (Contract!vars)
  <2>1. Owners' = Owners
    BY <1>1, <1>t DEF TryClaim, TypeOK, Owners, OwnsClaim
  <2> QED
    BY <1>1, <1>e, <2>1 DEF TryClaim, Contract!vars
<1>2. ASSUME NEW c \in Callers, EndClaim(c) PROVE UNCHANGED (Contract!vars)
  <2>1. Owners' = Owners
    BY <1>2, <1>t DEF EndClaim, Goto, TypeOK, Owners, OwnsClaim
  <2> QED
    BY <1>2, <1>e, <2>1 DEF EndClaim, Contract!vars
<1>3. ASSUME NEW c \in Callers, Answered(c), ~ClaimedWithoutEntry
      PROVE  Contract!Next \/ UNCHANGED (Contract!vars)
  <2>0. pc[c] \in Ops /\ key[c] \in Ids /\ key' = key
    BY <1>3, <1>t DEF Answered, Goto, TypeOK
  <2>1. CASE pc[c] = "claim" /\ store[key[c]] \in Absent
    <3>1. pc' = [pc EXCEPT ![c] = "owner"]
      BY <1>3, <2>1, AnswerFacts DEF Answered, Goto
    <3>2. store' = [store EXCEPT ![key[c]] = "pending"]
      <4>1. After("claim", store[key[c]]) = "pending"
        BY <1>t, <2>0, <2>1, AfterFacts DEF TypeOK
      <4>2. store' = [store EXCEPT ![key[c]] = After("claim", store[key[c]])]
        BY <1>3, <2>1 DEF Answered, Execute
      <4> QED
        BY <4>1, <4>2, Zenon
    <3>3. Entry[key[c]] = "absent" /\ Entry' = [Entry EXCEPT ![key[c]] = "pending"]
      BY <1>t, <2>0, <2>1, <3>2, EntryChanges DEF Entry, Absent
    <3>4. Contract!Claim(c, key[c])
      BY <1>t, <2>0, <2>1, <3>1, <3>3, OwnerEnters, AbsentIsUnowned
         DEF Contract!Claim, Absent, Inv
    <3> QED
      BY <2>0, <3>4 DEF Contract!Next
  <2>2. CASE pc[c] = "claim" /\ store[key[c]] \notin Absent
    <3>1. PICK label \in {"idle", "get"} : pc' = [pc EXCEPT ![c] = label]
      BY <1>3, <2>2, AnswerFacts DEF Answered, Goto
    <3>2. Owners' = Owners
      BY <1>t, <2>0, <2>2, <3>1, SameOwners DEF OwnerLabels, EndOps
    <3>3. Execute("claim", key[c])
      BY <1>3, <2>2 DEF Answered
    <3> QED
      BY <2>0, <3>2, <3>3, UnseenExecution DEF Ops, EndOps
  <2>3. CASE pc[c] \in EndOps
    <3>0. Answer(pc[c], store[key[c]]) = "idle"
      BY <2>3, AnswerFacts DEF EndOps
    <3>1. pc' = [pc EXCEPT ![c] = "idle"]
      BY <1>3, <3>0, Zenon DEF Answered, Goto
    <3>2. Execute(pc[c], key[c])
      BY <1>3 DEF Answered
    <3> QED
      BY <2>0, <2>3, <3>1, <3>2, OwnerEnds
  <2>4. CASE pc[c] = "get"
    <3>1. store' = store /\ pc' = [pc EXCEPT ![c] = "idle"]
      BY <1>3, <1>t, <2>4, GetFinds
    <3>2. Owners' = Owners
      BY <1>t, <2>0, <2>4, <3>1, SameOwners DEF OwnerLabels, EndOps
    <3> QED
      BY <1>e, <3>1, <3>2 DEF Contract!vars
  <2> QED
    BY <2>0, <2>1, <2>2, <2>3, <2>4 DEF Ops, EndOps
<1>4. ASSUME NEW c \in Callers, Failed(c)
      PROVE  Contract!Next \/ UNCHANGED (Contract!vars)
  <2>0. /\ pc[c] \in Ops /\ key[c] \in Ids /\ key' = key
        /\ pc' = [pc EXCEPT ![c] = AfterError(pc[c])]
    BY <1>4, <1>t DEF Failed, Goto, TypeOK
  <2>1. CASE pc[c] \in EndOps
    <3>1. pc' = [pc EXCEPT ![c] = "idle"]
      BY <2>0, <2>1, AnswerFacts DEF EndOps
    <3>2. CASE store' = store
      BY <2>0, <2>1, <3>1, <3>2, OwnerAbandons DEF OwnerLabels
    <3>3. CASE Execute(pc[c], key[c])
      BY <2>0, <2>1, <3>1, <3>3, OwnerEnds
    <3> QED
      BY <1>4, <3>2, <3>3 DEF Failed
  <2>2. CASE pc[c] \in {"claim", "get"}
    <3>1. AfterError(pc[c]) \notin OwnerLabels
      BY <2>2, AnswerFacts DEF OwnerLabels, EndOps
    <3>2. Owners' = Owners
      BY <1>t, <2>0, <2>2, <3>1, SameOwners DEF OwnerLabels, EndOps
    <3>3. CASE store' = store
      BY <1>e, <3>2, <3>3 DEF Contract!vars
    <3>4. CASE Execute(pc[c], key[c])
      BY <2>0, <2>2, <3>2, <3>4, UnseenExecution DEF EndOps
    <3> QED
      BY <1>4, <3>3, <3>4 DEF Failed
  <2> QED
    BY <2>0, <2>1, <2>2 DEF Ops, EndOps
<1>5. ASSUME NEW c \in Callers, Die(c) PROVE Contract!Next \/ UNCHANGED (Contract!vars)
  <2>0. pc' = [pc EXCEPT ![c] = "idle"] /\ key' = key /\ store' = store
    BY <1>5 DEF Die, Goto
  <2>1. CASE pc[c] \in OwnerLabels
    BY <2>0, <2>1, OwnerAbandons
  <2>2. CASE pc[c] \notin OwnerLabels
    <3>1. "idle" \notin OwnerLabels
      BY DEF OwnerLabels, EndOps
    <3>2. Owners' = Owners
      BY <1>t, <2>0, <2>2, <3>1, SameOwners
    <3> QED
      BY <1>e, <2>0, <3>2 DEF Contract!vars
  <2> QED
    BY <2>1, <2>2
<1>6. ASSUME NEW r \in stale, Late(r) PROVE Contract!Next \/ UNCHANGED (Contract!vars)
  <2>1. r.op \in Ops /\ r.key \in Ids
    BY <1>t DEF TypeOK, Requests
  <2>2. Owners' = Owners
    BY <1>6 DEF Late, Owners, OwnsClaim
  <2>3. r.op \in EndOps => store[r.key] = "pending" /\ Contract!Unowned(r.key)
    BY <2>1 DEF Inv, StaleEndIsLast, Contract!Unowned, Owners, OwnsClaim, OwnerLabels, EndOps
  <2> QED
    BY <1>6, <2>1, <2>2, <2>3, UnseenExecution DEF Late
<1>7. CASE UNCHANGED vars
  BY <1>7 DEF vars, Contract!vars, Entry, Owners, OwnsClaim
<1> QED
  BY <1>1, <1>2, <1>3, <1>4, <1>5, <1>6, <1>7 DEF Next, GapFreeNext

\* But for that one answer, the requests of either store amount to the atomic calls of
\* the contract, which the subscriber's proofs rest on: the create and the get of a
\* claim in the bucket as well as the script of Redis.
THEOREM GapFreeContract == GapFreeSpec => ImplementsContract
<1>1. Inv /\ [GapFreeNext]_vars => [Contract!Next]_(Contract!vars)
  BY NextContract
<1> QED
  BY <1>1, InitContract, InboxInvariant, PTL DEF GapFreeSpec, ImplementsContract, Contract!Spec

-----------------------------------------------------------------------------
(* Redis *)

Redis == Backend = "redis"

\* The script needs no second request.
NoGet == \A c \in Callers : pc[c] # "get"

LEMMA NextNoGet == ASSUME Redis, TypeOK, NoGet, [Next]_vars PROVE NoGet'
<1> USE DEF TypeOK, NoGet, Goto
<1>1. \A op, value : Answer(op, value) # "get" /\ AfterError(op) # "get"
  BY DEF Redis, Answer, AfterClaim, AfterGet, AfterError
<1> QED
  BY <1>1 DEF Next, TryClaim, EndClaim, Answered, Failed, Die, Late, vars

\* With Redis, whatever is released, fails or comes late, the gap does not exist.
THEOREM RedisHasNoGap == ASSUME Redis PROVE Spec => GapFreeSpec
<1>1. Init => NoGet
  BY DEF Init, NoGet
<1>2. TypeOK /\ NoGet /\ [Next]_vars => NoGet'
  BY NextNoGet, Redis
<1>3. NoGet /\ [Next]_vars => [GapFreeNext]_vars
  BY DEF NoGet, GapFreeNext, ClaimedWithoutEntry
<1> QED
  BY <1>1, <1>2, <1>3, InboxTypes, PTL DEF Spec, GapFreeSpec

\* So two callers never own the claim of one key ...
THEOREM RedisOneOwner == ASSUME Redis PROVE Spec => []OneOwner
BY RedisHasNoGap, GapFreeOneOwner, Redis, PTL

\* ... a key that was marked done stays done ...
THEOREM RedisDoneIsFinal == ASSUME Redis PROVE Spec => DoneIsFinal
BY RedisHasNoGap, GapFreeDoneIsFinal, Redis, PTL

\* ... and the store implements the contract of the trait.
THEOREM RedisImplementsContract == ASSUME Redis PROVE Spec => ImplementsContract
BY RedisHasNoGap, GapFreeContract, Redis, PTL

-----------------------------------------------------------------------------
(* What the contract is worth *)

ContractInv ==
    /\ Entry \in [Ids -> {"absent", "pending", "done"}]
    /\ Owners \subseteq Callers \X Ids
    /\ \A c \in Callers, k \in Ids : <<c, k>> \in Owners => Entry[k] = "pending"
    /\ \A b, c \in Callers, k \in Ids : <<b, k>> \in Owners /\ <<c, k>> \in Owners => b = c

DoneForGood == \A k \in Ids : Entry[k] = "done" => Entry'[k] = "done"

\* A store that keeps the contract gives a key one owner, keeps it pending while it is
\* owned, and never reopens it once it is done, although an end may be executed late.
THEOREM ContractPromises == Contract!Spec => []ContractInv /\ [][DoneForGood]_(Contract!vars)
<1>1. Contract!Init => ContractInv
  BY DEF Contract!Init, ContractInv
<1>2. ASSUME ContractInv, Contract!Next PROVE ContractInv' /\ DoneForGood
  <2> USE DEF ContractInv, DoneForGood, Contract!Unowned
  <2>1. ASSUME NEW c \in Callers, NEW k \in Ids, Contract!Claim(c, k)
        PROVE  ContractInv' /\ DoneForGood
    BY <1>2, <2>1 DEF Contract!Claim
  <2>2. ASSUME NEW c \in Callers, NEW k \in Ids, Contract!Abandon(c, k)
        PROVE  ContractInv' /\ DoneForGood
    BY <1>2, <2>2 DEF Contract!Abandon
  <2>3. ASSUME NEW c \in Callers, NEW k \in Ids, NEW state \in {"done", "absent"},
               Contract!End(c, k, state)
        PROVE  ContractInv' /\ DoneForGood
    BY <1>2, <2>3 DEF Contract!End
  <2>4. ASSUME NEW k \in Ids, Contract!ClaimUnseen(k) PROVE ContractInv' /\ DoneForGood
    BY <1>2, <2>4 DEF Contract!ClaimUnseen
  <2>5. ASSUME NEW k \in Ids, NEW state \in {"done", "absent"}, Contract!EndLate(k, state)
        PROVE  ContractInv' /\ DoneForGood
    BY <1>2, <2>5 DEF Contract!EndLate
  <2> QED
    BY <1>2, <2>1, <2>2, <2>3, <2>4, <2>5 DEF Contract!Next
<1>3. ContractInv /\ UNCHANGED (Contract!vars) => ContractInv'
  BY DEF ContractInv, Contract!vars
<1>4. ContractInv /\ [Contract!Next]_(Contract!vars)
        => ContractInv' /\ [DoneForGood]_(Contract!vars)
  BY <1>2, <1>3
<1> QED
  BY <1>1, <1>4, PTL DEF Contract!Spec

=============================================================================
