------------------------- MODULE PayoutRequestsProofs -------------------------
(***************************************************************************)
(* Theorems about PayoutRequests for every set of calls, keys and bodies,  *)
(* every capacity and any number of faults.                                *)
(***************************************************************************)
EXTENDS PayoutRequests, FiniteSetTheorems, TLAPS

\* A call that has begun has an input.
Inputs == \A c \in Calls : pc[c] # "new" => input[c] \in [key: Keys, body: Bodies]

\* A valid endorsement is of a key the ledger does not have yet,
Endorsed == \A c \in current : pc[c] # "new" /\ ledger[Key(c)] = None

\* a call that records is the one the ledger has accepted,
Committed == \A c \in Calls : pc[c] = "recording" => ledger[Key(c)] = c

\* and the table follows the ledger.
LedgerFirst == \A k \in Keys : book[k] # None => ledger[k] = book[k]

\* A call at work owns the request of its key; a lost COMMIT has completed it.
Owned ==
  \A c \in Calls : pc[c] \in Working =>
    /\ requests[Key(c)].hash = input[c].body
    /\ \/ requests[Key(c)].status = "PROCESSING"
       \/ pc[c] = "failing" /\ requests[Key(c)].status = "COMPLETED"

\* A stored response is the recorded payout, created from the same body.
Stored ==
  \A k \in Keys :
    /\ requests[k].status = "COMPLETED" => requests[k].response # None
    /\ requests[k].response # None =>
         /\ book[k] = requests[k].response
         /\ pc[book[k]] # "new"
         /\ input[book[k]].body = requests[k].hash

\* The same of an answer, which a call gets at its end.
Answered ==
  \A c \in Calls :
    /\ answer[c] # "none" => pc[c] = "done"
    /\ answer[c] \in Calls =>
         /\ book[Key(c)] = answer[c]
         /\ pc[answer[c]] # "new"
         /\ input[answer[c]].body = input[c].body

\* The inductive invariant.
IInv ==
  /\ TypeOK /\ Inputs
  /\ Endorsed /\ Committed /\ LedgerFirst
  /\ Owned /\ OneCallPerKey
  /\ Stored /\ Answered

LEMMA InitInv == Init => IInv
<1> SUFFICES ASSUME Init PROVE IInv
  OBVIOUS
<1> USE DEF Init
<1>1. TypeOK
  BY BoundsAssumption DEF TypeOK, Request, NoRequest, Holding
<1>2. Inputs /\ Endorsed /\ Committed /\ LedgerFirst /\ Owned /\ OneCallPerKey
  BY DEF Inputs, Endorsed, Committed, LedgerFirst, Owned, OneCallPerKey, Working, Holding
<1>3. Stored /\ Answered
  BY IdsAssumption DEF Stored, Answered, NoRequest
<1> QED
  BY <1>1, <1>2, <1>3 DEF IInv

LEMMA StepInv == IInv /\ [Next]_vars => IInv'
<1> SUFFICES ASSUME IInv, [Next]_vars PROVE IInv'
  OBVIOUS
<1> USE DEF IInv, database, fabric, control
<1>1. ASSUME NEW c \in Calls, NEW k \in Keys, NEW body \in Bodies, Reserve(c, k, body) PROVE IInv'
  <2> DEFINE taken == Taken(requests[k], body)
  <2>a. \/ requests' = requests /\ pc' = [pc EXCEPT ![c] = "refused"] /\ answer' = answer
        \/ /\ Reservable(requests[k], body)
           /\ requests' = [requests EXCEPT ![k] = taken]
           /\ \/ pc' = [pc EXCEPT ![c] = "reserved"] /\ answer' = answer
              \/ /\ pc' = [pc EXCEPT ![c] = "done"]
                 /\ answer' = [answer EXCEPT ![c] = "error"]
    BY <1>1 DEF Reserve, Answer, Goto
  <2>b. Reservable(requests[k], body) => \A d \in Calls : pc[d] \in Working => Key(d) # k
    BY DEF Reservable, NoRequest, Owned
  <2>c. taken \in Request /\ taken.status = "PROCESSING" /\ taken.hash = body
        /\ taken.response = requests[k].response
    <3> requests[k] \in Request /\ body \in Bodies
      BY DEF TypeOK
    <3> QED
      BY DEF Request, Taken
  <2>d. /\ pc[c] = "new"
        /\ input' = [input EXCEPT ![c] = [key |-> k, body |-> body]]
        /\ UNCHANGED <<book, reserved, ledger, current>>
    BY <1>1 DEF Reserve
  <2>1. TypeOK'
    <3>1. faults' \in 0..MaxFaults
      BY <1>1, BoundsAssumption DEF Reserve, Fault, NoFault, TypeOK
    <3> HIDE DEF taken
    <3> QED
      BY <2>a, <2>c, <2>d, <3>1 DEF TypeOK
  <2>2. Inputs'
    BY <2>a, <2>d DEF Inputs, TypeOK
  <2>3. Endorsed' /\ Committed' /\ LedgerFirst'
    BY <2>a, <2>d DEF Endorsed, Committed, LedgerFirst, TypeOK, Key
  <2>4. Owned'
    <3> HIDE DEF taken
    <3> SUFFICES ASSUME NEW d \in Calls, pc'[d] \in Working
                 PROVE  /\ requests'[input'[d].key].hash = input'[d].body
                        /\ \/ requests'[input'[d].key].status = "PROCESSING"
                           \/ pc'[d] = "failing" /\ requests'[input'[d].key].status = "COMPLETED"
      BY DEF Owned, Key
    <3>1. CASE d = c
      BY <2>a, <2>c, <2>d, <3>1 DEF TypeOK, Working, Holding
    <3>2. CASE d # c
      <4>1. pc[d] \in Working /\ input'[d] = input[d] /\ pc'[d] = pc[d] /\ Key(d) \in Keys
        BY <2>a, <2>d, <3>2 DEF TypeOK, Inputs, Working, Holding, Key
      <4>2. requests'[Key(d)] = requests[Key(d)]
        BY <2>a, <2>b, <4>1 DEF TypeOK
      <4> QED
        BY <4>1, <4>2 DEF Owned, Key
    <3> QED
      BY <3>1, <3>2
  <2>5. OneCallPerKey'
    BY <2>a, <2>d DEF Reservable, NoRequest, Owned, OneCallPerKey, Working, TypeOK, Key, Holding
  <2>6. Stored'
    <3> HIDE DEF taken
    <3> SUFFICES ASSUME NEW j \in Keys
                 PROVE  /\ requests'[j].status = "COMPLETED" => requests'[j].response # None
                        /\ requests'[j].response # None =>
                             /\ book'[j] = requests'[j].response
                             /\ pc'[book'[j]] # "new"
                             /\ input'[book'[j]].body = requests'[j].hash
      BY DEF Stored
    <3>1. /\ requests'[j].response = requests[j].response
          /\ requests[j].response # None => requests'[j].hash = requests[j].hash
          /\ requests'[j].status = "COMPLETED" => requests[j].status = "COMPLETED"
      BY <2>a, <2>c DEF TypeOK, Reservable, NoRequest
    <3>2. requests[j].response # None =>
            /\ book[j] = requests[j].response /\ book[j] \in Calls \ {c}
            /\ pc[book[j]] # "new" /\ input[book[j]].body = requests[j].hash
      BY <2>d DEF Stored, TypeOK
    <3>3. \A d \in Calls \ {c} : pc'[d] = pc[d] /\ input'[d] = input[d]
      BY <2>a, <2>d DEF TypeOK
    <3> QED
      BY <2>d, <3>1, <3>2, <3>3 DEF Stored
  <2>7. Answered'
    BY <2>a, <2>d, IdsAssumption DEF Answered, TypeOK, Key
  <2> QED
    BY <2>1, <2>2, <2>3, <2>4, <2>5, <2>6, <2>7
<1>2. ASSUME NEW c \in Calls, ReadExisting(c) PROVE IInv'
  <2>1. TypeOK'
    BY <1>2 DEF ReadExisting, Reply, Answer, Goto, NoFault, TypeOK, Inputs, Key, Stored
  <2>2. Inputs'
    BY <1>2 DEF ReadExisting, Answer, Goto, Inputs
  <2>3. Endorsed' /\ Committed' /\ LedgerFirst'
    BY <1>2 DEF ReadExisting, Answer, Goto, Endorsed, Committed, LedgerFirst, Key
  <2>4. Owned'
    BY <1>2 DEF ReadExisting, Answer, Goto, Owned, Working, Key, Holding
  <2>5. OneCallPerKey'
    BY <1>2 DEF ReadExisting, Answer, Goto, OneCallPerKey, Working, Key, Holding
  <2>6. Stored'
    BY <1>2 DEF ReadExisting, Answer, Goto, Stored
  <2>7. Answered'
    BY <1>2, IdsAssumption DEF ReadExisting, SameRequest, Reply, Answer, Goto, Answered, Stored, TypeOK, Inputs, Key
  <2> QED
    BY <2>1, <2>2, <2>3, <2>4, <2>5, <2>6, <2>7
<1>3. ASSUME NEW c \in Calls, LockAllocation(c) PROVE IInv'
  <2>1. TypeOK'
    BY <1>3 DEF LockAllocation, Abort, Goto, NoFault, TypeOK, Holding
  <2>2. Inputs'
    BY <1>3 DEF LockAllocation, Abort, Goto, Inputs, TypeOK
  <2>3. Endorsed' /\ Committed' /\ LedgerFirst'
    BY <1>3 DEF LockAllocation, Abort, Goto, Endorsed, Committed, LedgerFirst, TypeOK, Key
  <2>4. Owned'
    BY <1>3 DEF LockAllocation, Abort, Goto, Owned, Working, TypeOK, Key
  <2>5. OneCallPerKey'
    BY <1>3 DEF LockAllocation, Abort, Goto, OneCallPerKey, Working, Holding, TypeOK, Key
  <2>6. Stored'
    BY <1>3 DEF LockAllocation, Abort, Goto, Stored, TypeOK
  <2>7. Answered'
    BY <1>3 DEF LockAllocation, Abort, Goto, Answered, TypeOK, Key
  <2> QED
    BY <2>1, <2>2, <2>3, <2>4, <2>5, <2>6, <2>7
<1>4. ASSUME NEW c \in Calls, Endorse(c) PROVE IInv'
  <2>1. TypeOK'
    BY <1>4 DEF Endorse, Abort, Goto, NoFault, TypeOK, Holding
  <2>2. Inputs'
    BY <1>4 DEF Endorse, Abort, Goto, Inputs, TypeOK
  <2>3. Endorsed' /\ Committed' /\ LedgerFirst'
    BY <1>4 DEF Endorse, Abort, Goto, Endorsed, Committed, LedgerFirst, TypeOK, Key
  <2>4. Owned'
    BY <1>4 DEF Endorse, Abort, Goto, Owned, Working, TypeOK, Key
  <2>5. OneCallPerKey'
    BY <1>4 DEF Endorse, Abort, Goto, OneCallPerKey, Working, Holding, TypeOK, Key
  <2>6. Stored'
    BY <1>4 DEF Endorse, Abort, Goto, Stored, TypeOK
  <2>7. Answered'
    BY <1>4 DEF Endorse, Abort, Goto, Answered, TypeOK, Key
  <2> QED
    BY <2>1, <2>2, <2>3, <2>4, <2>5, <2>6, <2>7
<1>5. ASSUME NEW c \in Calls, CommitOnLedger(c) PROVE IInv'
  <2>1. TypeOK'
    <3>1. ledger' \in [Keys -> Calls \cup {None}] /\ current' \subseteq Calls
      BY <1>5 DEF CommitOnLedger, Commit, TypeOK
    <3>2. pc' \in [Calls -> {"new", "reserved", "refused", "failing", "done"} \cup Holding]
      BY <1>5 DEF CommitOnLedger, Abort, Goto, TypeOK, Holding
    <3> QED
      BY <1>5, <3>1, <3>2 DEF CommitOnLedger, Abort, NoFault, TypeOK
  <2>2. Inputs'
    BY <1>5 DEF CommitOnLedger, Abort, Goto, Inputs, TypeOK
  <2>3. Endorsed' /\ Committed' /\ LedgerFirst'
    BY <1>5, IdsAssumption DEF CommitOnLedger, Commit, Abort, Goto, Endorsed, Committed, LedgerFirst, TypeOK, Inputs, Key
  <2>4. Owned'
    BY <1>5 DEF CommitOnLedger, Abort, Goto, Owned, Working, TypeOK, Key
  <2>5. OneCallPerKey'
    BY <1>5 DEF CommitOnLedger, Abort, Goto, OneCallPerKey, Working, Holding, TypeOK, Key
  <2>6. Stored'
    BY <1>5 DEF CommitOnLedger, Abort, Goto, Stored, TypeOK
  <2>7. Answered'
    BY <1>5 DEF CommitOnLedger, Abort, Goto, Answered, TypeOK, Key
  <2> QED
    BY <2>1, <2>2, <2>3, <2>4, <2>5, <2>6, <2>7
<1>6. ASSUME NEW c \in Calls, Record(c) PROVE IInv'
  <2> DEFINE completed == Completed(requests[Key(c)], c)
  <2>a. /\ pc[c] = "recording" /\ book[Key(c)] = None
        /\ book' = [book EXCEPT ![Key(c)] = c] /\ reserved' = reserved + 1
        /\ requests' = [requests EXCEPT ![Key(c)] = completed]
        /\ UNCHANGED <<ledger, current, input>>
        /\ \/ /\ pc' = [pc EXCEPT ![c] = "done"]
              /\ answer' = [answer EXCEPT ![c] = c]
           \/ /\ pc' = [pc EXCEPT ![c] = "failing"]
              /\ answer' = answer
    BY <1>6 DEF Record, Answer, Abort, Goto
  <2>b. /\ Key(c) \in Keys /\ requests[Key(c)] \in Request
        /\ requests[Key(c)].hash = input[c].body
        /\ ledger[Key(c)] = c /\ c # None
    BY <2>a, IdsAssumption DEF TypeOK, Inputs, Owned, Working, Holding, Committed, Key
  <2>c. /\ completed \in Request /\ completed.status = "COMPLETED"
        /\ completed.hash = input[c].body /\ completed.response = c
    BY <2>b DEF Request, Completed
  <2>d. \A d \in Calls \ {c} : pc[d] \in Working => Key(d) # Key(c)
    BY <2>a DEF OneCallPerKey, Working, Holding
  <2> HIDE DEF completed
  <2>1. TypeOK'
    <3>1. faults' \in 0..MaxFaults
      BY <1>6, BoundsAssumption DEF Record, Fault, NoFault, TypeOK
    <3> QED
      BY <2>a, <2>b, <2>c, <3>1 DEF TypeOK
  <2>2. Inputs'
    BY <2>a DEF Inputs, TypeOK
  <2>3. Endorsed' /\ Committed' /\ LedgerFirst'
    BY <2>a, <2>b DEF Endorsed, Committed, LedgerFirst, TypeOK, Key
  <2>4. Owned'
    <3> SUFFICES ASSUME NEW d \in Calls, pc'[d] \in Working
                 PROVE  /\ requests'[Key(d)].hash = input[d].body
                        /\ \/ requests'[Key(d)].status = "PROCESSING"
                           \/ pc'[d] = "failing" /\ requests'[Key(d)].status = "COMPLETED"
      BY <2>a DEF Owned, Key
    <3>1. CASE d = c
      BY <2>a, <2>b, <2>c, <3>1 DEF TypeOK, Working, Holding
    <3>2. CASE d # c
      <4>1. pc[d] \in Working /\ pc'[d] = pc[d] /\ Key(d) \in Keys
        BY <2>a, <3>2 DEF TypeOK, Inputs, Working, Holding, Key
      <4>2. requests'[Key(d)] = requests[Key(d)]
        BY <2>a, <2>d, <3>2, <4>1 DEF TypeOK
      <4> QED
        BY <4>1, <4>2 DEF Owned
    <3> QED
      BY <3>1, <3>2
  <2>5. OneCallPerKey'
    BY <2>a DEF OneCallPerKey, Working, TypeOK, Key, Holding
  <2>6. Stored'
    <3> SUFFICES ASSUME NEW j \in Keys
                 PROVE  /\ requests'[j].status = "COMPLETED" => requests'[j].response # None
                        /\ requests'[j].response # None =>
                             /\ book'[j] = requests'[j].response
                             /\ pc'[book'[j]] # "new"
                             /\ input'[book'[j]].body = requests'[j].hash
      BY DEF Stored
    <3>1. CASE j = Key(c)
      BY <2>a, <2>b, <2>c, <3>1 DEF TypeOK
    <3>2. CASE j # Key(c)
      <4>1. requests'[j] = requests[j] /\ book'[j] = book[j]
        BY <2>a, <2>b, <3>2 DEF TypeOK
      <4>2. \A d \in Calls : pc[d] # "new" => pc'[d] # "new"
        BY <2>a DEF TypeOK
      <4>3. requests[j].response # None => book[j] \in Calls
        BY DEF Stored, TypeOK
      <4> QED
        BY <2>a, <4>1, <4>2, <4>3 DEF Stored
    <3> QED
      BY <3>1, <3>2
  <2>7. Answered'
    <3> SUFFICES ASSUME NEW d \in Calls
                 PROVE  /\ answer'[d] # "none" => pc'[d] = "done"
                        /\ answer'[d] \in Calls =>
                             /\ book'[Key(d)] = answer'[d]
                             /\ pc'[answer'[d]] # "new"
                             /\ input[answer'[d]].body = input[d].body
      BY <2>a DEF Answered, Key
    <3>1. CASE d = c
      <4>1. answer[c] = "none"
        BY <2>a DEF Answered
      <4> QED
        BY <2>a, <2>b, <3>1, <4>1, IdsAssumption DEF TypeOK
    <3>2. CASE d # c
      <4>1. answer'[d] = answer[d] /\ pc'[d] = pc[d]
        BY <2>a, <3>2 DEF TypeOK
      <4>2. answer[d] \in Calls => Key(d) # Key(c)
        BY <2>a, IdsAssumption DEF Answered
      <4>3. answer[d] \in Calls => book'[Key(d)] = answer[d]
        BY <2>a, <4>2 DEF Answered, TypeOK
      <4>4. \A e \in Calls : pc[e] # "new" => pc'[e] # "new"
        BY <2>a DEF TypeOK
      <4> QED
        BY <4>1, <4>3, <4>4 DEF Answered
    <3> QED
      BY <3>1, <3>2
  <2> QED
    BY <2>1, <2>2, <2>3, <2>4, <2>5, <2>6, <2>7
<1>7. ASSUME NEW c \in Calls, Fail(c) PROVE IInv'
  <2> DEFINE failed == Failed(requests[Key(c)])
  <2>a. /\ pc[c] = "failing"
        /\ requests' = [requests EXCEPT ![Key(c)] = failed]
        /\ pc' = [pc EXCEPT ![c] = "done"]
        /\ answer' = [answer EXCEPT ![c] = "error"]
        /\ UNCHANGED <<book, reserved, ledger, current, input, faults>>
    BY <1>7 DEF Fail, Answer, Goto, NoFault
  <2>b. Key(c) \in Keys /\ requests[Key(c)] \in Request
    BY <2>a DEF TypeOK, Inputs, Key
  <2>c. /\ failed \in Request /\ failed.status = "FAILED"
        /\ failed.hash = requests[Key(c)].hash
        /\ failed.response = requests[Key(c)].response
    BY <2>b DEF Request, Failed
  <2> HIDE DEF failed
  <2>1. TypeOK'
    BY <2>a, <2>b, <2>c DEF TypeOK
  <2>2. Inputs'
    BY <2>a DEF Inputs, TypeOK
  <2>3. Endorsed' /\ Committed' /\ LedgerFirst'
    BY <2>a DEF Endorsed, Committed, LedgerFirst, TypeOK, Key
  <2>4. Owned'
    <3> SUFFICES ASSUME NEW d \in Calls, pc'[d] \in Working
                 PROVE  /\ requests'[Key(d)].hash = input[d].body
                        /\ \/ requests'[Key(d)].status = "PROCESSING"
                           \/ pc'[d] = "failing" /\ requests'[Key(d)].status = "COMPLETED"
      BY <2>a DEF Owned, Key
    <3>1. d # c /\ pc[d] \in Working /\ pc'[d] = pc[d] /\ Key(d) \in Keys
      BY <2>a DEF TypeOK, Inputs, Working, Holding, Key
    <3>2. Key(d) # Key(c)
      BY <2>a, <3>1 DEF OneCallPerKey, Holding, Working
    <3>3. requests'[Key(d)] = requests[Key(d)]
      BY <2>a, <3>1, <3>2 DEF TypeOK
    <3> QED
      BY <3>1, <3>3 DEF Owned
  <2>5. OneCallPerKey'
    BY <2>a DEF OneCallPerKey, Working, TypeOK, Key, Holding
  <2>6. Stored'
    <3> SUFFICES ASSUME NEW j \in Keys
                 PROVE  /\ requests'[j].status = "COMPLETED" => requests'[j].response # None
                        /\ requests'[j].response # None =>
                             /\ book'[j] = requests'[j].response
                             /\ pc'[book'[j]] # "new"
                             /\ input'[book'[j]].body = requests'[j].hash
      BY DEF Stored
    <3>1. /\ requests'[j].response = requests[j].response
          /\ requests'[j].hash = requests[j].hash
          /\ requests'[j].status = "COMPLETED" => requests[j].status = "COMPLETED"
      BY <2>a, <2>b, <2>c DEF TypeOK
    <3>2. \A d \in Calls : pc[d] # "new" => pc'[d] # "new"
      BY <2>a DEF TypeOK
    <3>3. requests[j].response # None => book[j] \in Calls
      BY DEF Stored, TypeOK
    <3> QED
      BY <2>a, <3>1, <3>2, <3>3 DEF Stored
  <2>7. Answered'
    BY <2>a, IdsAssumption DEF Answered, TypeOK, Key
  <2> QED
    BY <2>1, <2>2, <2>3, <2>4, <2>5, <2>6, <2>7
<1>8. ASSUME NEW c \in Calls, CommitStatusLost(c) PROVE IInv'
  <2>1. TypeOK'
    BY <1>8, BoundsAssumption DEF CommitStatusLost, Abort, Goto, Fault, TypeOK
  <2>2. Inputs'
    BY <1>8 DEF CommitStatusLost, Abort, Goto, Inputs
  <2>3. Endorsed' /\ Committed' /\ LedgerFirst'
    BY <1>8 DEF CommitStatusLost, Abort, Goto, Endorsed, Committed, LedgerFirst, Key
  <2>4. Owned'
    BY <1>8 DEF CommitStatusLost, Abort, Goto, Owned, Working, Key, Holding
  <2>5. OneCallPerKey'
    BY <1>8 DEF CommitStatusLost, Abort, Goto, OneCallPerKey, Working, Key, Holding
  <2>6. Stored'
    BY <1>8 DEF CommitStatusLost, Abort, Goto, Stored
  <2>7. Answered'
    BY <1>8 DEF CommitStatusLost, Abort, Goto, Answered, Key
  <2> QED
    BY <2>1, <2>2, <2>3, <2>4, <2>5, <2>6, <2>7
<1>9. ASSUME NEW c \in Calls, RollBack(c) PROVE IInv'
  <2>1. TypeOK'
    BY <1>9, BoundsAssumption DEF RollBack, Abort, Goto, Fault, TypeOK
  <2>2. Inputs'
    BY <1>9 DEF RollBack, Abort, Goto, Inputs, Holding
  <2>3. Endorsed' /\ Committed' /\ LedgerFirst'
    BY <1>9 DEF RollBack, Abort, Goto, Endorsed, Committed, LedgerFirst, Key
  <2>4. Owned'
    BY <1>9 DEF RollBack, Abort, Goto, Owned, Working, Key
  <2>5. OneCallPerKey'
    BY <1>9 DEF RollBack, Abort, Goto, OneCallPerKey, Working, Holding, Key
  <2>6. Stored'
    BY <1>9 DEF RollBack, Abort, Goto, Stored
  <2>7. Answered'
    BY <1>9 DEF RollBack, Abort, Goto, Answered, Key, Holding
  <2> QED
    BY <2>1, <2>2, <2>3, <2>4, <2>5, <2>6, <2>7
<1>10. ASSUME NEW c \in Calls, FailLost(c) PROVE IInv'
  <2>1. TypeOK'
    BY <1>10, BoundsAssumption DEF FailLost, Answer, Goto, Fault, TypeOK
  <2>2. Inputs'
    BY <1>10 DEF FailLost, Answer, Goto, Inputs
  <2>3. Endorsed' /\ Committed' /\ LedgerFirst'
    BY <1>10 DEF FailLost, Answer, Goto, Endorsed, Committed, LedgerFirst, Key
  <2>4. Owned'
    BY <1>10 DEF FailLost, Answer, Goto, Owned, Working, Key, Holding
  <2>5. OneCallPerKey'
    BY <1>10 DEF FailLost, Answer, Goto, OneCallPerKey, Working, Holding, Key
  <2>6. Stored'
    BY <1>10 DEF FailLost, Answer, Goto, Stored
  <2>7. Answered'
    BY <1>10, IdsAssumption DEF FailLost, Answer, Goto, Answered, TypeOK, Key
  <2> QED
    BY <2>1, <2>2, <2>3, <2>4, <2>5, <2>6, <2>7
<1>11. ASSUME NEW c \in Calls, OrphanCommits(c) PROVE IInv'
  <2>1. TypeOK'
    BY <1>11 DEF OrphanCommits, Commit, NoFault, TypeOK
  <2>2. Inputs'
    BY <1>11 DEF OrphanCommits, Inputs
  <2>3. Endorsed' /\ Committed' /\ LedgerFirst'
    BY <1>11, IdsAssumption DEF OrphanCommits, Commit, Endorsed, Committed, LedgerFirst, Key
  <2>4. Owned'
    BY <1>11 DEF OrphanCommits, Owned, Key
  <2>5. OneCallPerKey'
    BY <1>11 DEF OrphanCommits, OneCallPerKey, Working, Holding, Key
  <2>6. Stored'
    BY <1>11 DEF OrphanCommits, Stored
  <2>7. Answered'
    BY <1>11 DEF OrphanCommits, Answered, Key
  <2> QED
    BY <2>1, <2>2, <2>3, <2>4, <2>5, <2>6, <2>7
<1>12. ASSUME NEW calls \in SUBSET Calls, Crash(calls) PROVE IInv'
  <2>1. TypeOK'
    BY <1>12, BoundsAssumption DEF Crash, Fault, TypeOK
  <2>2. Inputs'
    BY <1>12 DEF Crash, InFlight, Inputs
  <2>3. Endorsed' /\ Committed' /\ LedgerFirst'
    BY <1>12 DEF Crash, Endorsed, Committed, LedgerFirst, TypeOK, Key
  <2>4. Owned'
    BY <1>12 DEF Crash, Owned, Working, Key, Holding
  <2>5. OneCallPerKey'
    BY <1>12 DEF Crash, OneCallPerKey, Working, Key, Holding
  <2>6. Stored'
    BY <1>12 DEF Crash, Stored, TypeOK
  <2>7. Answered'
    BY <1>12, IdsAssumption DEF Crash, Answered, Key
  <2> QED
    BY <2>1, <2>2, <2>3, <2>4, <2>5, <2>6, <2>7
<1>13. CASE UNCHANGED vars
  BY <1>13 DEF vars, TypeOK, Inputs, Endorsed, Committed, LedgerFirst, Owned, OneCallPerKey, Working, Holding, Stored, Answered, Key
<1> QED
  BY <1>1, <1>2, <1>3, <1>4, <1>5, <1>6, <1>7, <1>8, <1>9, <1>10, <1>11, <1>12, <1>13 DEF Next, CallStep, CallFault

\* IInv is an invariant; the theorems below are its parts.
THEOREM Invariant == Spec => []IInv
  BY InitInv, StepInv, PTL DEF Spec

(***************************************************************************)
(* The theorems.                                                           *)
(***************************************************************************)
\* Requests, books and calls keep their shape; in particular no caller is ever
\* answered with a response that has not been stored.
THEOREM TypeCorrect == Spec => []TypeOK
<1>1. IInv => TypeOK
  BY DEF IInv
<1> QED
  BY <1>1, Invariant, PTL

\* However many calls repeat a key, and however they fail, the upsert of
\* initiate admits one at a time.
THEOREM OneAtATime == Spec => []OneCallPerKey
<1>1. IInv => OneCallPerKey
  BY DEF IInv
<1> QED
  BY <1>1, Invariant, PTL

\* A repeated call that is answered gets the payout its key has, and asked for
\* the same one.
THEOREM AnswersAgree == Spec => []AnswersMatchBook
<1>1. IInv => AnswersMatchBook
  BY DEF IInv, Answered, AnswersMatchBook
<1> QED
  BY <1>1, Invariant, PTL

(***************************************************************************)
(* Each step of initiate is a step of PayoutIntake or leaves the books.    *)
(***************************************************************************)
LEMMA CommitIntake ==
  ASSUME IInv, NEW c \in current, Commit(c), UNCHANGED book
  PROVE  Intake!IntakeNext
<1>1. c \in Calls /\ Key(c) \in Keys /\ ledger[Key(c)] = None
  BY DEF IInv, TypeOK, Inputs, Endorsed, Key
<1>2. Intake!Initiate(Key(c), c)
  BY <1>1 DEF Commit, Intake!Initiate
<1> QED
  BY <1>1, <1>2 DEF Intake!IntakeNext

LEMMA StepIntake == IInv /\ [Next]_vars => [Intake!IntakeNext]_<<ledger, book>>
<1> SUFFICES ASSUME IInv, [Next]_vars, ~UNCHANGED <<ledger, book>>
             PROVE  Intake!IntakeNext
  OBVIOUS
<1>1. PICK c \in Calls : CommitOnLedger(c) \/ Record(c) \/ OrphanCommits(c)
  BY DEF Next, vars, CallStep, CallFault, database, fabric, Reserve, ReadExisting,
         LockAllocation, Endorse, CommitStatusLost, RollBack, Fail, FailLost, Crash
<1>2. CASE CommitOnLedger(c) \/ OrphanCommits(c)
  <2>1. c \in current /\ Commit(c) /\ UNCHANGED book
    BY <1>2 DEF CommitOnLedger, OrphanCommits, database, fabric
  <2> QED
    BY <2>1, CommitIntake
<1>3. CASE Record(c)
  <2>1. Key(c) \in Keys /\ ledger[Key(c)] = c /\ c # None
    BY <1>3, IdsAssumption DEF Record, IInv, TypeOK, Inputs, Committed, Key
  <2>2. Intake!Record(Key(c))
    BY <1>3, <2>1 DEF Record, Intake!Record, fabric
  <2> QED
    BY <2>1, <2>2 DEF Intake!IntakeNext
<1> QED
  BY <1>1, <1>2, <1>3

\* One payout per key, in both books and forever, and none that the ledger did
\* not accept: initiate implements the promise.
THEOREM ImplementsPromise == Spec => ImplementsIntake
<1>1. Init => Intake!IntakeInit
  BY DEF Init, Intake!IntakeInit
<1> QED
  BY <1>1, Invariant, StepIntake, PTL DEF Spec, ImplementsIntake, Intake!IntakeSpec

\* What callers rely on when they repeat a key: the payout that a key has, it has
\* for good, and the table never has another one under it than the ledger.
KeyKept(k) ==
  /\ ledger[k] # None => ledger'[k] = ledger[k]
  /\ book[k] # None => book'[k] = book[k]

THEOREM KeysStandForOne ==
  Spec => /\ [][\A k \in Keys : KeyKept(k)]_<<ledger, book>>
          /\ [](\A k \in Keys : book[k] # None => book[k] = ledger[k])
<1> DEFINE Types == ledger \in [Keys -> Calls \cup {None}] /\ book \in [Keys -> Calls \cup {None}]
<1> DEFINE Follows == \A k \in Keys : book[k] # None => book[k] = ledger[k]
<1>1. IInv => Types
  BY DEF IInv, TypeOK
<1>2. Intake!IntakeInit => Follows
  BY DEF Intake!IntakeInit
<1>3. Types /\ Follows /\ [Intake!IntakeNext]_<<ledger, book>>
        => Follows' /\ [\A k \in Keys : KeyKept(k)]_<<ledger, book>>
  <2> SUFFICES ASSUME Types, Follows, Intake!IntakeNext PROVE Follows' /\ \A k \in Keys : KeyKept(k)
    OBVIOUS
  <2>1. PICK k \in Keys : Intake!Record(k) \/ \E payout \in Calls : Intake!Initiate(k, payout)
    BY DEF Intake!IntakeNext
  <2>2. CASE Intake!Record(k)
    BY <2>2 DEF Intake!Record, KeyKept
  <2>3. CASE \E payout \in Calls : Intake!Initiate(k, payout)
    BY <2>3 DEF Intake!Initiate, KeyKept
  <2> QED BY <2>1, <2>2, <2>3
<1> HIDE DEF Types, Follows
<1>4. Spec => [](Follows) /\ [][\A k \in Keys : KeyKept(k)]_<<ledger, book>>
  BY <1>1, <1>2, <1>3, Invariant, ImplementsPromise, PTL DEF ImplementsIntake, Intake!IntakeSpec
<1> QED BY <1>4 DEF Follows

(***************************************************************************)
(* The balances.                                                           *)
(***************************************************************************)
\* A payout under a new key is one more payout.
LEMMA OneMore ==
  ASSUME NEW payouts \in [Keys -> Calls \cup {None}], NEW k \in Keys, NEW c \in Calls,
         payouts[k] = None
  PROVE  /\ Cardinality({j \in Keys : payouts[j] # None}) \in Nat
         /\ Cardinality({j \in Keys : [payouts EXCEPT ![k] = c][j] # None})
              = Cardinality({j \in Keys : payouts[j] # None}) + 1
<1> DEFINE Having == {j \in Keys : payouts[j] # None}
<1>1. IsFiniteSet(Having)
  BY IdsAssumption, FS_Subset
<1>2. {j \in Keys : [payouts EXCEPT ![k] = c][j] # None} = Having \cup {k}
  BY IdsAssumption
<1>3. k \notin Having
  OBVIOUS
<1> QED
  BY <1>1, <1>2, <1>3, FS_AddElement, FS_CardinalityType

\* One transaction at a time holds the allocation and has checked its balance;
\* an endorsement that is still valid has checked the ledger's.
Accounts ==
  /\ ReservationsMatch
  /\ \A c, d \in Calls : pc[c] \in Holding /\ pc[d] \in Holding => c = d
  /\ \A c \in Calls : pc[c] \in Holding => reserved + 1 <= Capacity
  /\ current # {} => OnLedger + 1 <= Capacity

LEMMA InitAccounts == Init => Accounts
<1> SUFFICES ASSUME Init PROVE Accounts
  OBVIOUS
<1>1. {k \in Keys : book[k] # None} = {} /\ {k \in Keys : ledger[k] # None} = {}
  BY DEF Init
<1> QED
  BY <1>1, FS_EmptySet, BoundsAssumption DEF Init, Accounts, ReservationsMatch, OnLedger, Holding

LEMMA StepAccounts == IInv /\ Accounts /\ [Next]_vars => Accounts'
<1> SUFFICES ASSUME IInv, Accounts, [Next]_vars PROVE Accounts'
  OBVIOUS
<1> USE DEF Accounts
<1>1. ASSUME NEW c \in current, Commit(c) PROVE OnLedger' = OnLedger + 1 /\ OnLedger' <= Capacity
  <2>1. c \in Calls /\ Key(c) \in Keys /\ ledger[Key(c)] = None
    BY DEF IInv, TypeOK, Inputs, Endorsed, Key
  <2>2. OnLedger' = OnLedger + 1
    BY <1>1, <2>1, OneMore DEF Commit, OnLedger, IInv, TypeOK
  <2> QED
    BY <1>1, <2>2
<1>2. ASSUME NEW c \in Calls, Record(c) PROVE Accounts'
  <2>1. Key(c) \in Keys /\ book[Key(c)] = None /\ pc[c] \in Holding
    BY <1>2 DEF Record, IInv, TypeOK, Inputs, Key, Holding
  <2>2. reserved' = Cardinality({k \in Keys : book'[k] # None})
    BY <1>2, <2>1, OneMore DEF Record, ReservationsMatch, IInv, TypeOK
  <2>3. \A d \in Calls : pc'[d] \notin Holding
    BY <1>2, <2>1 DEF Record, Answer, Abort, Goto, IInv, TypeOK, Holding
  <2>4. UNCHANGED <<ledger, current>> /\ reserved' <= Capacity
    BY <1>2, <2>1 DEF Record, fabric
  <2> QED
    BY <2>2, <2>3, <2>4 DEF ReservationsMatch, OnLedger
<1>3. ASSUME NEW c \in Calls, LockAllocation(c) PROVE Accounts'
  <2>1. UNCHANGED <<book, reserved, ledger, current>>
    BY <1>3 DEF LockAllocation, database, fabric
  <2>2. \/ Goto(c, "failing")
        \/ /\ Goto(c, "endorsing")
           /\ \A d \in Calls : pc[d] \notin Holding
           /\ reserved + 1 <= Capacity
    BY <1>3, BoundsAssumption DEF LockAllocation, AllocationLocked, Abort, IInv, TypeOK
  <2>3. /\ \A d, e \in Calls : pc'[d] \in Holding /\ pc'[e] \in Holding => d = e
        /\ \A d \in Calls : pc'[d] \in Holding => reserved + 1 <= Capacity
    BY <2>2 DEF Goto, IInv, TypeOK, Holding
  <2> QED
    BY <2>1, <2>3 DEF ReservationsMatch, OnLedger
<1>4. ASSUME NEW c \in Calls, Endorse(c) PROVE Accounts'
  BY <1>4 DEF Endorse, Covered, Abort, Goto, ReservationsMatch, OnLedger, IInv, TypeOK, Holding, database
<1>5. ASSUME NEW c \in Calls, CommitOnLedger(c) \/ OrphanCommits(c) PROVE Accounts'
  <2>1. /\ UNCHANGED <<book, reserved>>
        /\ \A d \in Calls : pc'[d] \in Holding => pc[d] \in Holding
    BY <1>5 DEF CommitOnLedger, OrphanCommits, Abort, Goto, IInv, TypeOK, Holding, database, control
  <2>2. \/ UNCHANGED <<ledger, current>>
        \/ c \in current /\ Commit(c)
    BY <1>5 DEF CommitOnLedger, OrphanCommits, fabric
  <2>3. OnLedger' <= Capacity /\ (current' # {} => OnLedger' + 1 <= Capacity)
    BY <1>1, <2>2 DEF Commit, ReservationsMatch, OnLedger
  <2> QED
    BY <2>1, <2>3 DEF ReservationsMatch
<1>6. CASE /\ UNCHANGED <<book, reserved, ledger, current>>
           /\ \A d \in Calls : pc'[d] \in Holding => pc[d] \in Holding
  BY <1>6 DEF ReservationsMatch, OnLedger
<1>7. ASSUME NEW c \in Calls,
             \/ \E k \in Keys, body \in Bodies : Reserve(c, k, body)
             \/ ReadExisting(c) \/ Fail(c) \/ CallFault(c)
      PROVE  /\ UNCHANGED <<book, reserved, ledger, current>>
             /\ \A d \in Calls : pc'[d] \in Holding => pc[d] \in Holding
  <2>1. \E place \in {"reserved", "refused", "failing", "done"} : Goto(c, place)
    BY <1>7 DEF Reserve, ReadExisting, Fail, CallFault, CommitStatusLost, RollBack, FailLost,
       Answer, Abort
  <2>2. UNCHANGED <<book, reserved, ledger, current>>
    BY <1>7 DEF Reserve, ReadExisting, Fail, CallFault, CommitStatusLost, RollBack, FailLost,
       database, fabric
  <2> QED
    BY <2>1, <2>2 DEF Goto, IInv, TypeOK, Holding
<1>8. ASSUME NEW calls \in SUBSET Calls, Crash(calls)
      PROVE  /\ UNCHANGED <<book, reserved, ledger, current>>
             /\ \A d \in Calls : pc'[d] \in Holding => pc[d] \in Holding
  BY <1>8 DEF Crash, IInv, TypeOK, Holding, database, fabric
<1>9. CASE UNCHANGED vars
  BY <1>6, <1>9 DEF vars, database, fabric, control
<1> QED
  BY <1>2, <1>3, <1>4, <1>5, <1>6, <1>7, <1>8, <1>9 DEF Next, CallStep

\* reserved_paise counts each recorded payout once, and no interleaving of calls
\* and lost answers lets either book promise more than the allocation has.
THEOREM NeverOverReserved == Spec => []ReservationsMatch
<1>1. Accounts => ReservationsMatch
  BY DEF Accounts
<1> QED
  BY <1>1, InitAccounts, StepAccounts, Invariant, PTL DEF Spec

(***************************************************************************)
(* What leaves a key PROCESSING for good.                                  *)
(***************************************************************************)
\* A call that moves on while it works, or stops where it did not.
Same(d) == (pc[d] \in Working <=> pc'[d] \in Working) /\ Key(d)' = Key(d)

\* The calls that still work are as before, and some may have ended.
LEMMA FewerWork ==
  ASSUME UNCHANGED requests,
         \A d \in Calls : pc'[d] \in Working => pc[d] \in Working /\ Key(d)' = Key(d)
  PROVE  Stranded \subseteq Stranded'
BY DEF Stranded

LEMMA AsManyWork ==
  ASSUME UNCHANGED requests, \A d \in Calls : Same(d)
  PROVE  Stranded' = Stranded
BY DEF Stranded, Same

\* A call that settles the request of its key strands no key.
LEMMA Settled ==
  ASSUME IInv, NEW c \in Calls, pc[c] \in Working, NEW r, r.status # "PROCESSING",
         requests' = [requests EXCEPT ![Key(c)] = r],
         \A d \in Calls \ {c} : Same(d), UNCHANGED input
  PROVE  Stranded' = Stranded
<1>1. Key(c) \in Keys
  BY DEF IInv, Inputs, Key, Working, Holding
<1>2. ASSUME NEW k \in Keys PROVE k \in Stranded' <=> k \in Stranded
  <2>1. CASE k = Key(c)
    BY <1>1, <2>1 DEF Stranded, IInv, TypeOK
  <2>2. CASE k # Key(c)
    <3>1. requests'[k] = requests[k]
      BY <1>1, <2>2 DEF IInv, TypeOK
    <3>2. Key(c)' # k
      BY <2>2 DEF Key
    <3> QED BY <2>2, <3>1, <3>2 DEF Stranded, Same
  <2> QED BY <2>1, <2>2
<1> QED BY <1>2 DEF Stranded

LEMMA StepStrands ==
  ASSUME IInv, [Next]_vars
  PROVE  Stranded \subseteq Stranded' /\ (Stranded' = Stranded \/ faults' > faults)
<1>1. Fault => faults' > faults
  BY DEF Fault, IInv, TypeOK
<1>2. ASSUME NEW c \in Calls, NEW k \in Keys, NEW body \in Bodies, Reserve(c, k, body)
      PROVE  Stranded \subseteq Stranded' /\ (Stranded' = Stranded \/ faults' > faults)
  <2> DEFINE Refused == UNCHANGED requests /\ pc'[c] = "refused"
  <2> DEFINE Admitted ==
        /\ Reservable(requests[k], body) /\ Key(c)' = k
        /\ requests' = [requests EXCEPT ![k] = Taken(requests[k], body)]
        /\ pc'[c] = "reserved" \/ (pc'[c] = "done" /\ Fault)
  <2>1. /\ pc[c] = "new" /\ pc[c] \notin Working
        /\ \A d \in Calls \ {c} : Same(d) /\ Key(d)' = Key(d)
        /\ Refused \/ Admitted
    BY <1>2 DEF Reserve, Answer, Goto, Same, Key, Working, Holding, IInv, TypeOK
  <2>2. CASE Refused
    <3>1. pc'[c] \notin Working
      BY <2>2 DEF Working, Holding
    <3> QED BY <2>1, <2>2, <3>1 DEF Stranded, Same
  <2>3. CASE Admitted
    <3>1. k \notin Stranded
      BY <2>3 DEF Stranded, Reservable, NoRequest
    <3>2. ASSUME NEW j \in Keys \ {k} PROVE j \in Stranded' <=> j \in Stranded
      <4>1. requests'[j] = requests[j]
        BY <2>3 DEF IInv, TypeOK
      <4> QED BY <2>1, <2>3, <4>1 DEF Stranded, Same
    <3>3. pc'[c] = "reserved" => k \notin Stranded'
      BY <2>3 DEF Stranded, Working
    <3>4. Stranded \subseteq Keys /\ Stranded' \subseteq Keys
      BY DEF Stranded
    <3>5. Stranded \subseteq Stranded'
      BY <3>1, <3>2, <3>4
    <3>6. pc'[c] = "reserved" => Stranded' = Stranded
      BY <3>1, <3>2, <3>3, <3>4
    <3> QED BY <1>1, <2>3, <3>5, <3>6
  <2> HIDE DEF Refused, Admitted
  <2> QED BY <2>1, <2>2, <2>3
<1>3. ASSUME NEW c \in Calls, ReadExisting(c) PROVE Stranded' = Stranded
  <2>1. UNCHANGED requests /\ \A d \in Calls : Same(d)
    BY <1>3 DEF ReadExisting, Answer, Goto, Same, Key, Working, Holding, IInv, TypeOK, database
  <2> QED BY <2>1, AsManyWork
<1>4. ASSUME NEW c \in Calls, LockAllocation(c) \/ Endorse(c) \/ CommitOnLedger(c)
      PROVE  Stranded' = Stranded
  <2>1. UNCHANGED requests /\ \A d \in Calls : Same(d)
    BY <1>4 DEF LockAllocation, Endorse, CommitOnLedger, Abort, Goto, Same, Key, Working, Holding,
       IInv, TypeOK, database
  <2> QED BY <2>1, AsManyWork
<1>5. ASSUME NEW c \in Calls, CommitStatusLost(c) \/ RollBack(c) PROVE Stranded' = Stranded
  <2>1. UNCHANGED requests /\ \A d \in Calls : Same(d)
    BY <1>5 DEF CommitStatusLost, RollBack, Abort, Goto, Same, Key, Working, Holding,
       IInv, TypeOK, database
  <2> QED BY <2>1, AsManyWork
<1>6. ASSUME NEW c \in Calls, Record(c) \/ Fail(c) PROVE Stranded' = Stranded
  <2>1. PICK r : r.status # "PROCESSING" /\ requests' = [requests EXCEPT ![Key(c)] = r]
    BY <1>6 DEF Record, Fail, Completed, Failed
  <2>2. pc[c] \in Working /\ UNCHANGED input /\ \A d \in Calls \ {c} : Same(d)
    BY <1>6 DEF Record, Fail, Answer, Abort, Goto, Same, Key, Working, Holding, IInv, TypeOK
  <2> QED BY <2>1, <2>2, Settled
<1>7. ASSUME NEW c \in Calls, FailLost(c)
      PROVE  Stranded \subseteq Stranded' /\ faults' > faults
  <2>1. UNCHANGED requests /\ Fault
        /\ \A d \in Calls : pc'[d] \in Working => pc[d] \in Working /\ Key(d)' = Key(d)
    BY <1>7 DEF FailLost, Answer, Goto, Key, Working, Holding, IInv, TypeOK, database
  <2> QED BY <1>1, <2>1, FewerWork
<1>8. ASSUME NEW calls \in SUBSET Calls, Crash(calls)
      PROVE  Stranded \subseteq Stranded' /\ faults' > faults
  <2>1. UNCHANGED requests /\ Fault
        /\ \A d \in Calls : pc'[d] \in Working => pc[d] \in Working /\ Key(d)' = Key(d)
    BY <1>8 DEF Crash, Key, Working, Holding, database
  <2> QED BY <1>1, <2>1, FewerWork
<1>9. ASSUME NEW c \in Calls, OrphanCommits(c) PROVE Stranded' = Stranded
  BY <1>9 DEF OrphanCommits, database, control, Stranded, Key
<1>10. CASE UNCHANGED vars
  BY <1>10 DEF vars, database, control, Stranded, Key
<1> QED BY <1>2, <1>3, <1>4, <1>5, <1>6, <1>7, <1>8, <1>9, <1>10 DEF Next, CallStep, CallFault

\* initiate leaves a key PROCESSING with nobody at work on it only by a fault,
\* however many calls share the key, and a key that is left so is lost: no call
\* and no later fault makes it usable again.
THEOREM StrandedByFaultsAlone == Spec => OnlyFaultsStrand
<1>1. IInv /\ [Next]_vars =>
        [Stranded \subseteq Stranded' /\ (Stranded' = Stranded \/ faults' > faults)]_vars
  BY StepStrands
<1> QED BY <1>1, Invariant, PTL DEF Spec, OnlyFaultsStrand

(***************************************************************************)
(* No call is stuck.                                                       *)
(***************************************************************************)
\* What a call at work needs for its next step: the row of the allocation, and
\* for the INSERT that no row has its key.
CanGo(c) ==
  \/ pc[c] \in {"refused", "endorsing", "ordering", "failing"}
  \/ pc[c] = "reserved" /\ ~AllocationLocked
  \/ pc[c] = "recording" /\ book[Key(c)] = None

NobodyStuck ==
  \A c \in Calls : InFlight(c) =>
    \/ CanGo(c)
    \/ pc[c] = "reserved" /\ \E d \in Calls : pc[d] \in Holding /\ CanGo(d)

\* A payout is in the table only once its call has left the transaction.
RecordedOnce == \A k \in Keys : book[k] # None => pc[book[k]] \in {"failing", "done"}

LEMMA StepRecorded == IInv /\ RecordedOnce /\ [Next]_vars => RecordedOnce'
<1> SUFFICES ASSUME IInv, RecordedOnce, [Next]_vars, NEW k \in Keys, book'[k] # None
             PROVE  pc'[book'[k]] \in {"failing", "done"}
  BY DEF RecordedOnce
<1>1. ASSUME NEW c \in Calls, Record(c)
      PROVE  pc'[book'[k]] \in {"failing", "done"}
  <2>1. /\ pc'[c] \in {"failing", "done"} /\ \A d \in Calls \ {c} : pc'[d] = pc[d]
        /\ book'[k] = c \/ book'[k] = book[k]
    BY <1>1 DEF Record, Answer, Abort, Goto, IInv, TypeOK, Inputs, Key
  <2> QED BY <2>1 DEF RecordedOnce, IInv, TypeOK
<1>2. ASSUME UNCHANGED book,
             \A c \in Calls : pc[c] \in {"failing", "done"} => pc'[c] \in {"failing", "done"}
      PROVE  pc'[book'[k]] \in {"failing", "done"}
  BY <1>2 DEF RecordedOnce, IInv, TypeOK
<1>3. ASSUME NEW c \in Calls,
             \/ \E j \in Keys, body \in Bodies : Reserve(c, j, body)
             \/ ReadExisting(c) \/ LockAllocation(c) \/ Endorse(c) \/ CommitOnLedger(c)
             \/ Fail(c) \/ CallFault(c)
      PROVE  UNCHANGED book /\ pc[c] # "done" /\
             \E place \in {"reserved", "refused", "endorsing", "ordering", "recording", "failing", "done"} :
               Goto(c, place) /\ (pc[c] = "failing" => place = "done")
  BY <1>3 DEF Reserve, ReadExisting, LockAllocation, Endorse, CommitOnLedger, Fail, CallFault,
     CommitStatusLost, RollBack, FailLost, Answer, Abort, database, Holding
<1>4. ASSUME NEW c \in Calls, OrphanCommits(c)
      PROVE  UNCHANGED book /\ UNCHANGED pc
  BY <1>4 DEF OrphanCommits, database, control
<1>5. ASSUME NEW calls \in SUBSET Calls, Crash(calls)
      PROVE  UNCHANGED book /\
             \A c \in Calls : pc[c] \in {"failing", "done"} => pc'[c] \in {"failing", "done"}
  BY <1>5 DEF Crash, database
<1>6. CASE UNCHANGED vars
  BY <1>2, <1>6 DEF vars, database, control
<1> QED BY <1>1, <1>2, <1>3, <1>4, <1>5, <1>6 DEF Next, CallStep, Goto, IInv, TypeOK

\* The INSERT of a payout never meets a row with its key, so a transaction that
\* the ledger has accepted can always be recorded, and calls that wait for the
\* allocation wait for one that can go on.
THEOREM NoCallStuck == Spec => []NobodyStuck
<1>1. Init => RecordedOnce
  BY DEF Init, RecordedOnce
<1>2. IInv /\ RecordedOnce => NobodyStuck
  <2> SUFFICES ASSUME IInv, RecordedOnce, NEW c \in Calls, InFlight(c)
               PROVE  CanGo(c) \/ (pc[c] = "reserved" /\ \E d \in Calls : pc[d] \in Holding /\ CanGo(d))
    BY DEF NobodyStuck
  <2>1. ASSUME NEW d \in Calls, pc[d] \in Holding PROVE CanGo(d)
    BY <2>1 DEF CanGo, Holding, RecordedOnce, IInv, Committed, LedgerFirst, Inputs, TypeOK, Key
  <2>2. pc[c] \in Holding \cup {"refused", "failing", "reserved"}
    BY DEF InFlight, IInv, TypeOK
  <2>3. CASE pc[c] = "reserved"
    BY <2>1, <2>3 DEF CanGo, AllocationLocked
  <2> QED BY <2>1, <2>2, <2>3 DEF CanGo, Holding
<1> QED BY <1>1, <1>2, StepRecorded, Invariant, PTL DEF Spec
===============================================================================
