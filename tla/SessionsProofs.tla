---------------------------- MODULE SessionsProofs ----------------------------
(***************************************************************************)
(* Theorems about Sessions for every set of calls, tokens, staff users and *)
(* phones, every limit and any number of codes and faults.                 *)
(***************************************************************************)
EXTENDS Sessions, SequenceTheorems, TLAPS

(***************************************************************************)
(* Types.                                                                  *)
(***************************************************************************)
ControlOK ==
  /\ pc \in [Calls -> Places \cup {"new"}]
  /\ input \in [Calls -> Requests \cup {None}]
  /\ \A c \in Calls : pc[c] # "new" => input[c] \in Requests
  /\ answer \in [Calls -> Answers \cup {None}]

TablesOK ==
  /\ sessions \in [Tokens -> SessionRows]
  /\ revocations \subseteq Tokens
  /\ codes \in Seq(CodeRows) /\ Len(codes) <= MaxCodes
  /\ recent \subseteq Phones
  /\ buckets \in [Limited -> Nat] /\ passed \in [Limited -> Nat]
  /\ found \in [Calls -> 0..MaxCodes]
  /\ faults \in 0..MaxFaults

\* The rows that the steps write.
LEMMA CodeTypes ==
  ASSUME NEW code \in CodeRows
  PROVE  /\ Counted(code) \in CodeRows /\ Consumed(code) \in CodeRows
         /\ [code EXCEPT !.expired = TRUE] \in CodeRows
<1>1. /\ code.phone \in Phones /\ code.attempts \in Nat /\ code.attempts + 1 \in Nat
      /\ code.consumed \in BOOLEAN /\ code.expired \in BOOLEAN
      /\ code = [phone |-> code.phone, attempts |-> code.attempts,
                  consumed |-> code.consumed, expired |-> code.expired]
  BY DEF CodeRows
<1>2. Counted(code) \in CodeRows
  BY <1>1 DEF Counted, CodeRows
<1>3. Consumed(code) \in CodeRows
  BY <1>1 DEF Consumed, CodeRows
<1>4. [code EXCEPT !.expired = TRUE] \in CodeRows
  BY <1>1 DEF CodeRows
<1> QED
  BY <1>2, <1>3, <1>4

\* What is left of the sequence of codes when one of them is written.
LEMMA CodesTypes ==
  ASSUME NEW seq \in Seq(CodeRows), NEW i, NEW code, i \in DOMAIN seq => code \in CodeRows
  PROVE  /\ [seq EXCEPT ![i] = code] \in Seq(CodeRows)
         /\ Len([seq EXCEPT ![i] = code]) = Len(seq)
<1>1. CASE i \in 1..Len(seq)
  BY <1>1, ExceptSeq
<1>2. CASE i \notin 1..Len(seq)
  <2>1. [seq EXCEPT ![i] = code] = seq
    BY <1>2
  <2> QED
    BY <2>1
<1> QED
  BY <1>1, <1>2

LEMMA BucketTypes ==
  ASSUME NEW count \in [Limited -> Nat], NEW k \in Limited
  PROVE  [count EXCEPT ![k] = count[k] + 1] \in [Limited -> Nat]
OBVIOUS

LEMMA TypeParts == TypeOK <=> ControlOK /\ TablesOK
BY DEF TypeOK, ControlOK, TablesOK

LEMMA TypePartsNext == TypeOK' <=> ControlOK' /\ TablesOK'
BY DEF TypeOK, ControlOK, TablesOK

LEMMA TypeInit == Init => TypeOK
<1> SUFFICES ASSUME Init PROVE TypeOK
  OBVIOUS
<1>1. ControlOK
  BY DEF Init, ControlOK
<1>2. TablesOK
  BY SessionsAssumption DEF Init, TablesOK, NoSession, SessionRows
<1> QED
  BY <1>1, <1>2, TypeParts

\* A call that has begun goes on, or is answered.
Moves(c) ==
  /\ pc[c] \notin {"new", "done"} /\ input' = input
  /\ \/ \E place \in Places : Goto(c, place) /\ answer' = answer
     \/ \E reply \in Answers : Answer(c, reply)

LEMMA MovesTypes == ASSUME ControlOK, NEW c \in Calls, Moves(c) PROVE ControlOK'
<1>1. pc' \in [Calls -> Places \cup {"new"}]
  BY DEF ControlOK, Moves, Goto, Answer, Places
<1>2. answer' \in [Calls -> Answers \cup {None}]
  BY DEF ControlOK, Moves, Answer
<1>3. \A d \in Calls : pc'[d] # "new" => pc[d] # "new"
  BY DEF ControlOK, Moves, Goto, Answer
<1> QED
  BY <1>1, <1>2, <1>3 DEF ControlOK, Moves

\* Every step of a call after its first is one of these.
LEMMA CallMoves ==
  ASSUME ControlOK, NEW c \in Calls, CallStep(c), \A in \in Inputs : ~Call(c, in)
  PROVE  Moves(c)
<1> USE DEF CallFrame, tables, control, history, Unanswered, At, ControlOK, Moves, Places
<1>1. ASSUME NEW t \in Tokens, login(c, t) \/ IssueForCode(c, t) PROVE Moves(c)
  <2>1. input' = input /\ pc[c] \notin {"new", "done"}
    BY <1>1 DEF login, IssueForCode
  <2>2. Answer(c, "tokens") \/ Answer(c, "invalid")
    BY <1>1 DEF login, IssueForCode
  <2> QED
    BY <2>1, <2>2 DEF Answers
<1>2. CASE LookUpRecent(c) \/ SendCode(c)
  BY <1>2 DEF LookUpRecent, SendCode, Answers
<1>3. CASE FindCode(c) \/ CountAttempt(c) \/ ConsumeCode(c)
  BY <1>3 DEF FindCode, CountAttempt, ConsumeCode, Answers
<1>4. CASE refresh(c) \/ VerifyToken(c) \/ ReadRevocation(c)
  BY <1>4 DEF refresh, VerifyToken, ReadRevocation, Guarded, Answers
<1>5. CASE RevokeToken(c) \/ EndSession(c) \/ Fail(c)
  BY <1>5 DEF RevokeToken, EndSession, Fail, Answers
<1> QED
  BY <1>1, <1>2, <1>3, <1>4, <1>5 DEF CallStep

LEMMA CallTypes == ASSUME TypeOK, NEW c \in Calls, NEW in \in Inputs, Call(c, in) PROVE TypeOK'
<1> USE TypeParts
<1>1. in \in Requests
  BY DEF Inputs, Requests
<1>2. ControlOK'
  <2>1. /\ input' = [input EXCEPT ![c] = in]
        /\ \E place \in Places : pc' = [pc EXCEPT ![c] = place]
        /\ answer' = answer \/ answer' = [answer EXCEPT ![c] = "limited"]
    BY DEF Call, Goto, Answer, Places, Unanswered
  <2>2. pc' \in [Calls -> Places \cup {"new"}] /\ answer' \in [Calls -> Answers \cup {None}]
    BY <2>1 DEF ControlOK, Answers
  <2> QED
    BY <1>1, <2>1, <2>2 DEF ControlOK
<1>3. /\ buckets' = buckets \/ \E k \in Limited : buckets' = [buckets EXCEPT ![k] = buckets[k] + 1]
      /\ passed' = passed \/ \E k \in Limited : passed' = [passed EXCEPT ![k] = passed[k] + 1]
      /\ UNCHANGED <<sessions, revocations, codes, recent, found, faults>>
  BY DEF Call
<1>4. TablesOK'
  BY <1>3, BucketTypes DEF TablesOK
<1> QED
  BY <1>2, <1>4, TypePartsNext

LEMMA TablesStep ==
  ASSUME TypeOK, NEW c \in Calls, CallStep(c), \A in \in Inputs : ~Call(c, in)
  PROVE  TablesOK'
<1> USE TypeParts, SessionsAssumption DEF CallFrame, tables, control, history, At, TablesOK
<1>1. ASSUME NEW t \in Tokens, login(c, t) \/ IssueForCode(c, t) PROVE TablesOK'
  <2>1. input[c].subject \in Staff \cup Phones
    BY <1>1 DEF login, IssueForCode, ControlOK, Requests
  <2>2. sessions' = sessions \/ sessions' = [sessions EXCEPT ![t] = Session(input[c].subject)]
    BY <1>1 DEF login, IssueForCode, issueTokens
  <2>3. Session(input[c].subject) \in SessionRows
    BY <2>1 DEF Session, SessionRows
  <2> QED
    BY <1>1, <2>2, <2>3 DEF login, IssueForCode
<1>3. CASE LookUpRecent(c)
  BY <1>3 DEF LookUpRecent
<1>4. CASE SendCode(c)
  <2>1. input[c].subject \in Phones
    BY <1>4 DEF SendCode, ControlOK, Requests
  <2>2. NewCode(input[c].subject) \in CodeRows
    BY <2>1 DEF NewCode, CodeRows
  <2> QED
    BY <1>4, <2>1, <2>2 DEF SendCode
<1>5. CASE FindCode(c)
  <2>1. DOMAIN codes \subseteq 0..MaxCodes
    OBVIOUS
  <2> QED
    BY <1>5, <2>1 DEF FindCode, Guessable
<1>6. CASE CountAttempt(c) \/ ConsumeCode(c)
  <2> DEFINE i == found[c]
  <2>1. /\ codes' = [codes EXCEPT ![i] = Counted(codes[i])] \/ codes' = [codes EXCEPT ![i] = Consumed(codes[i])]
        /\ UNCHANGED <<sessions, revocations, recent, buckets, passed, found, faults>>
    BY <1>6 DEF CountAttempt, ConsumeCode
  <2>2. i \in DOMAIN codes => Counted(codes[i]) \in CodeRows /\ Consumed(codes[i]) \in CodeRows
    <3>1. i \in DOMAIN codes => codes[i] \in CodeRows
      OBVIOUS
    <3> QED
      BY <3>1, CodeTypes
  <2>3. codes' \in Seq(CodeRows) /\ Len(codes') = Len(codes)
    <3> HIDE DEF i
    <3>1. CASE codes' = [codes EXCEPT ![i] = Counted(codes[i])]
      BY <2>2, <3>1, CodesTypes
    <3>2. CASE codes' = [codes EXCEPT ![i] = Consumed(codes[i])]
      BY <2>2, <3>2, CodesTypes
    <3> QED
      BY <2>1, <3>1, <3>2
  <2> QED
    BY <2>1, <2>3
<1>7. CASE refresh(c) \/ VerifyToken(c) \/ ReadRevocation(c)
  BY <1>7 DEF refresh, VerifyToken, ReadRevocation
<1>8. CASE RevokeToken(c)
  <2>1. input[c].token \in Tokens
    BY <1>8 DEF RevokeToken, ControlOK, Requests
  <2> QED
    BY <1>8, <2>1 DEF RevokeToken
<1>9. CASE EndSession(c)
  <2>1. input[c].token \in Tokens
    BY <1>9 DEF EndSession, ControlOK, Requests
  <2>2. Ended(sessions[input[c].token]) \in SessionRows
    <3>1. sessions[input[c].token] \in SessionRows
      BY <2>1
    <3> QED
      BY <3>1 DEF Ended, SessionRows
  <2> QED
    BY <1>9, <2>1, <2>2 DEF EndSession
<1>10. CASE Fail(c)
  BY <1>10 DEF Fail
<1> QED
  BY <1>1, <1>3, <1>4, <1>5, <1>6, <1>7, <1>8, <1>9, <1>10 DEF CallStep

LEMMA TimeTypes ==
  ASSUME TypeOK,
         \/ \E t \in Tokens : AccessExpires(t) \/ SessionExpires(t) \/ Purge(t)
         \/ \E i \in DOMAIN codes : CodeExpires(i)
         \/ \E p \in Phones : WaitEnds(p)
         \/ \E k \in Limited : WindowEnds(k)
  PROVE  TypeOK'
<1> USE TypeParts, TypePartsNext DEF TimeFrame, control, history
<1>1. ASSUME NEW t \in Tokens, AccessExpires(t) \/ SessionExpires(t) \/ Purge(t) PROVE TypeOK'
  <2>1. sessions[t] \in SessionRows
    BY DEF TablesOK
  <2>2. /\ [sessions[t] EXCEPT !.access = "expired"] \in SessionRows
        /\ [sessions[t] EXCEPT !.refresh = "expired"] \in SessionRows
    BY <2>1 DEF SessionRows
  <2>3. /\ sessions' \in [Tokens -> SessionRows] /\ revocations' \subseteq Tokens
        /\ UNCHANGED <<codes, recent, buckets, passed, found, faults, pc, input, answer>>
    BY <1>1, <2>2 DEF AccessExpires, SessionExpires, Purge, TablesOK
  <2> QED
    BY <2>3 DEF TablesOK, ControlOK
<1>2. ASSUME NEW i \in DOMAIN codes, CodeExpires(i) PROVE TypeOK'
  <2>1. codes[i] \in CodeRows
    BY DEF TablesOK
  <2>2. codes' = [codes EXCEPT ![i] = [codes[i] EXCEPT !.expired = TRUE]]
    BY <1>2 DEF CodeExpires
  <2>3. codes' \in Seq(CodeRows) /\ Len(codes') = Len(codes)
    BY <2>1, <2>2, CodeTypes, CodesTypes DEF TablesOK
  <2> QED
    BY <1>2, <2>3 DEF CodeExpires, TablesOK, ControlOK
<1>3. ASSUME NEW p \in Phones, WaitEnds(p) PROVE TypeOK'
  BY <1>3 DEF WaitEnds, TablesOK, ControlOK
<1>4. ASSUME NEW k \in Limited, WindowEnds(k) PROVE TypeOK'
  BY <1>4 DEF WindowEnds, TablesOK, ControlOK
<1> QED
  BY <1>1, <1>2, <1>3, <1>4

\* The steps of Next, for the proofs that take them one kind at a time.
TimeStep ==
  \/ \E t \in Tokens : AccessExpires(t) \/ SessionExpires(t) \/ Purge(t)
  \/ \E i \in DOMAIN codes : CodeExpires(i)
  \/ \E p \in Phones : WaitEnds(p)
  \/ \E k \in Limited : WindowEnds(k)

LEMMA TypeStep == TypeOK /\ [Next]_vars => TypeOK'
<1> SUFFICES ASSUME TypeOK, [Next]_vars PROVE TypeOK'
  OBVIOUS
<1>1. ASSUME NEW c \in Calls, CallStep(c) PROVE TypeOK'
  <2>1. CASE \E in \in Inputs : Call(c, in)
    BY <2>1, CallTypes
  <2>2. CASE \A in \in Inputs : ~Call(c, in)
    BY <1>1, <2>2, TypeParts, TypePartsNext, CallMoves, MovesTypes, TablesStep
  <2> QED
    BY <2>1, <2>2
<1>2. CASE TimeStep
  BY <1>2, TimeTypes DEF TimeStep
<1>3. CASE UNCHANGED vars
  BY <1>3, TypeParts, TypePartsNext DEF vars, tables, control, history, TablesOK, ControlOK
<1> QED
  BY <1>1, <1>2, <1>3 DEF Next, TimeStep

\* Requests, sessions, codes and counters keep their shape; a call that has begun
\* has a request, and refers to a code that was sent.
THEOREM TypeCorrect == Spec => []TypeOK
BY TypeInit, TypeStep, PTL DEF Spec
-----------------------------------------------------------------------------
(***************************************************************************)
(* The rate limit: what passed was counted, and within the limit.          *)
(***************************************************************************)
Counts == PassedWithinLimit /\ \A k \in Limited : passed[k] <= buckets[k]

LEMMA CountsStep == TypeOK /\ Counts /\ [Next]_vars => Counts'
<1> SUFFICES ASSUME TypeOK, Counts, [Next]_vars PROVE Counts'
  OBVIOUS
<1> USE DEF Counts, PassedWithinLimit
<1>1. /\ Limit \in Nat /\ buckets \in [Limited -> Nat] /\ passed \in [Limited -> Nat]
  BY SessionsAssumption DEF TypeOK
<1>2. ASSUME NEW c \in Calls, NEW in \in Inputs, Call(c, in) PROVE Counts'
  BY <1>1, <1>2 DEF Call, Admitted
<1>3. ASSUME NEW k \in Limited, WindowEnds(k) PROVE Counts'
  BY <1>1, <1>3, SessionsAssumption DEF WindowEnds
<1>4. CASE UNCHANGED <<buckets, passed>>
  BY <1>4
<1>5. ASSUME NEW c \in Calls, CallStep(c), \A in \in Inputs : ~Call(c, in)
      PROVE  UNCHANGED <<buckets, passed>>
  BY <1>5 DEF CallStep, login, IssueForCode, LookUpRecent, SendCode, FindCode,
              CountAttempt, ConsumeCode, refresh, VerifyToken, ReadRevocation, RevokeToken,
              EndSession, Fail, CallFrame, tables, history
<1>6. ASSUME TimeStep, \A k \in Limited : ~WindowEnds(k) PROVE UNCHANGED <<buckets, passed>>
  BY <1>6 DEF TimeStep, AccessExpires, SessionExpires, Purge, CodeExpires, WaitEnds, history
<1>7. CASE UNCHANGED vars
  BY <1>7 DEF vars, tables, history
<1> QED
  BY <1>2, <1>3, <1>4, <1>5, <1>6, <1>7 DEF Next, TimeStep

\* A rate window admits no more than its limit, for any number of requests.
THEOREM LimitsHold == Spec => []PassedWithinLimit
<1>1. Init => Counts
  BY SessionsAssumption DEF Init, Counts, PassedWithinLimit
<1>2. Counts => PassedWithinLimit
  BY DEF Counts
<1> QED
  BY <1>1, <1>2, TypeInit, TypeStep, CountsStep, PTL DEF Spec
-----------------------------------------------------------------------------
(***************************************************************************)
(* Answers.                                                                *)
(***************************************************************************)

\* The token of a call that refreshes, asks or logs out.
LEMMA TokenTypes ==
  ASSUME TypeOK, NEW c \in Calls, pc[c] # "new",
         input[c].kind \in {"refresh", "request", "logout"}
  PROVE  input[c].token \in Tokens
<1>1. input[c] \in Requests
  BY DEF TypeOK
<1> QED
  BY <1>1 DEF Requests

AnsweredAreDone == \A c \in Calls : answer[c] # None => pc[c] = "done"

\* A call is answered once, at its end.
LEMMA AnsweredStep == TypeOK /\ AnsweredAreDone /\ [Next]_vars => AnsweredAreDone'
<1> SUFFICES ASSUME TypeOK, AnsweredAreDone, [Next]_vars PROVE AnsweredAreDone'
  OBVIOUS
<1>1. ASSUME NEW c \in Calls, CallStep(c) PROVE AnsweredAreDone'
  <2>1. CASE \E in \in Inputs : Call(c, in)
    BY <2>1 DEF AnsweredAreDone, Call, Goto, Answer, Unanswered, TypeOK
  <2>2. CASE \A in \in Inputs : ~Call(c, in)
    <3>1. Moves(c)
      BY <1>1, <2>2, CallMoves, TypeParts
    <3> QED
      BY <3>1 DEF AnsweredAreDone, Moves, Goto, Answer, TypeOK
  <2> QED
    BY <2>1, <2>2
<1>2. CASE TimeStep
  BY <1>2 DEF TimeStep, AccessExpires, SessionExpires, Purge, CodeExpires, WaitEnds, WindowEnds,
              TimeFrame, control, AnsweredAreDone
<1>3. CASE UNCHANGED vars
  BY <1>3 DEF vars, control, AnsweredAreDone
<1> QED
  BY <1>1, <1>2, <1>3 DEF Next, TimeStep
-----------------------------------------------------------------------------
(***************************************************************************)
(* Codes: what is of no use stays so, and no request finds it.             *)
(***************************************************************************)
DeadCodes == {i \in DOMAIN codes : Dead(i)}

SpentAreDead ==
  \A c \in Calls : pc[c] # "new" /\ input[c].kind = "otp-verify" => over[c] \subseteq DeadCodes

FoundByVerify ==
  \A c \in Calls : found[c] # 0 => pc[c] # "new" /\ input[c].kind = "otp-verify"

OverOfCalls == over = [c \in Calls |-> over[c]]

Codes == OverOfCalls /\ SpentAreDead /\ FoundByVerify /\ SpentCodesStayDead

\* The four ways the sequence of codes changes.
CodesMove ==
  \/ codes' = codes
  \/ \E phone \in Phones : codes' = Append(codes, NewCode(phone))
  \/ \E i : codes' = [codes EXCEPT ![i] = Counted(codes[i])]
  \/ \E i : codes' = [codes EXCEPT ![i] = Consumed(codes[i])]
  \/ \E i : codes' = [codes EXCEPT ![i] = [codes[i] EXCEPT !.expired = TRUE]]

LEMMA StaysDead == ASSUME TypeOK, CodesMove PROVE DeadCodes \subseteq DeadCodes'
<1> SUFFICES ASSUME NEW i \in DOMAIN codes, Dead(i) PROVE i \in DOMAIN codes' /\ Dead(i)'
  BY DEF DeadCodes
<1>1. codes \in Seq(CodeRows) /\ codes[i] \in CodeRows
  BY DEF TypeOK
<1>2. /\ codes[i].attempts \in Nat /\ codes[i].attempts + 1 \in Nat
      /\ codes[i] = [phone |-> codes[i].phone, attempts |-> codes[i].attempts,
                     consumed |-> codes[i].consumed, expired |-> codes[i].expired]
  BY <1>1 DEF CodeRows
<1>3. CASE codes' = codes
  BY <1>3 DEF Dead
<1>4. ASSUME NEW phone \in Phones, codes' = Append(codes, NewCode(phone))
      PROVE  i \in DOMAIN codes' /\ Dead(i)'
  <2>1. i \in DOMAIN codes' /\ codes'[i] = codes[i]
    BY <1>1, <1>4
  <2> QED
    BY <2>1 DEF Dead
<1>5. ASSUME NEW j, NEW code, codes' = [codes EXCEPT ![j] = code],
             j = i => /\ codes[i].consumed => code.consumed
                      /\ codes[i].expired => code.expired
                      /\ codes[i].attempts >= MaxAttempts => code.attempts >= MaxAttempts
      PROVE  i \in DOMAIN codes' /\ Dead(i)'
  <2>1. DOMAIN codes' = DOMAIN codes /\ codes'[i] = IF i = j THEN code ELSE codes[i]
    BY <1>5, <1>1
  <2> QED
    BY <1>5, <2>1 DEF Dead
<1>6. ASSUME NEW j, codes' = [codes EXCEPT ![j] = Counted(codes[j])]
      PROVE  i \in DOMAIN codes' /\ Dead(i)'
  <2>1. /\ Counted(codes[i]).consumed = codes[i].consumed
        /\ Counted(codes[i]).expired = codes[i].expired
        /\ Counted(codes[i]).attempts = codes[i].attempts + 1
    BY <1>2 DEF Counted
  <2>2. codes[i].attempts >= MaxAttempts => codes[i].attempts + 1 >= MaxAttempts
    BY <1>2, SessionsAssumption
  <2> QED
    BY <1>5, <1>6, <2>1, <2>2
<1>7. ASSUME NEW j, codes' = [codes EXCEPT ![j] = Consumed(codes[j])]
      PROVE  i \in DOMAIN codes' /\ Dead(i)'
  <2>1. /\ Consumed(codes[i]).consumed = TRUE
        /\ Consumed(codes[i]).expired = codes[i].expired
        /\ Consumed(codes[i]).attempts = codes[i].attempts
    BY <1>2 DEF Consumed
  <2> QED
    BY <1>5, <1>7, <2>1
<1>8. ASSUME NEW j, codes' = [codes EXCEPT ![j] = [codes[j] EXCEPT !.expired = TRUE]]
      PROVE  i \in DOMAIN codes' /\ Dead(i)'
  <2>1. /\ [codes[i] EXCEPT !.expired = TRUE].consumed = codes[i].consumed
        /\ [codes[i] EXCEPT !.expired = TRUE].expired = TRUE
        /\ [codes[i] EXCEPT !.expired = TRUE].attempts = codes[i].attempts
    BY <1>2
  <2> QED
    BY <1>5, <1>8, <2>1
<1> QED
  BY <1>3, <1>4, <1>6, <1>7, <1>8 DEF CodesMove

\* A code that is found can still be guessed, so it is none of those.
LEMMA FoundIsAlive ==
  ASSUME NEW phone, NEW i \in Guessable(phone), TypeOK
  PROVE  i \notin DeadCodes
<1>1. codes[i].attempts \in Nat /\ codes[i].attempts < MaxAttempts
  <2>1. i \in DOMAIN codes /\ codes[i].attempts < MaxAttempts
    BY DEF Guessable
  <2>2. codes[i] \in CodeRows
    BY <2>1 DEF TypeOK
  <2> QED
    BY <2>1, <2>2 DEF CodeRows
<1>2. ~(codes[i].attempts >= MaxAttempts)
  BY <1>1, SessionsAssumption
<1> QED
  BY <1>2 DEF DeadCodes, Dead, Guessable, Newest, Candidates

\* Steps that let no request find a code.
LEMMA CodesFrame ==
  ASSUME TypeOK, Codes, CodesMove, UNCHANGED <<input, found, over>>,
         \A c \in Calls : pc'[c] = "new" <=> pc[c] = "new"
  PROVE  Codes'
<1>1. SpentAreDead'
  BY StaysDead DEF Codes, SpentAreDead
<1>2. FoundByVerify'
  BY DEF Codes, FoundByVerify
<1>3. SpentCodesStayDead' /\ OverOfCalls'
  BY DEF Codes, SpentCodesStayDead, OverOfCalls
<1> QED
  BY <1>1, <1>2, <1>3 DEF Codes

LEMMA CodesStep == TypeOK /\ Codes /\ [Next]_vars => Codes'
<1> SUFFICES ASSUME TypeOK, Codes, [Next]_vars PROVE Codes'
  OBVIOUS
<1>1. ASSUME NEW c \in Calls, NEW in \in Inputs, Call(c, in) PROVE Codes'
  <2>1. /\ pc[c] = "new" /\ input' = [input EXCEPT ![c] = in] /\ codes' = codes /\ found' = found
        /\ over' = [over EXCEPT ![c] = Over(in)]
        /\ \A d \in Calls \ {c} : pc'[d] = pc[d]
        /\ pc'[c] # "new"
    BY <1>1 DEF Call, Goto, Answer, TypeOK
  <2>2. /\ found[c] = 0 /\ input'[c] = in
        /\ \A d \in Calls \ {c} : input'[d] = input[d]
    BY <2>1 DEF Codes, FoundByVerify, TypeOK
  <2>3. in.kind = "otp-verify" => Over(in) = DeadCodes
    BY DEF Over, DeadCodes
  <2>4. DeadCodes' = DeadCodes
    BY <2>1 DEF DeadCodes, Dead
  <2>5. /\ over'[c] = Over(in) /\ \A d \in Calls \ {c} : over'[d] = over[d]
        /\ OverOfCalls'
    BY <2>1 DEF Codes, OverOfCalls
  <2>6. SpentAreDead'
    <3>1. ASSUME NEW d \in Calls \ {c}, pc'[d] # "new", input'[d].kind = "otp-verify"
          PROVE  over'[d] \subseteq DeadCodes'
      BY <2>1, <2>2, <2>4, <2>5, <3>1 DEF Codes, SpentAreDead
    <3>2. ASSUME input'[c].kind = "otp-verify" PROVE over'[c] \subseteq DeadCodes'
      <4>1. over'[c] = Over(in) /\ Over(in) = DeadCodes
        BY <2>2, <2>3, <2>5, <3>2
      <4> QED
        BY <2>4, <4>1
    <3> QED
      BY <3>1, <3>2 DEF SpentAreDead
  <2>7. FoundByVerify'
    BY <2>1, <2>2 DEF Codes, FoundByVerify
  <2>8. SpentCodesStayDead'
    BY <2>1, <2>2, <2>5 DEF Codes, SpentCodesStayDead
  <2> QED
    BY <2>5, <2>6, <2>7, <2>8 DEF Codes
<1>2. ASSUME NEW c \in Calls, CallStep(c), \A in \in Inputs : ~Call(c, in) PROVE Codes'
  <2>1. Moves(c) /\ over' = over /\ input' = input
    <3>1. Moves(c)
      BY <1>2, CallMoves, TypeParts
    <3>2. over' = over
      BY <1>2 DEF CallStep, login, IssueForCode, LookUpRecent, SendCode, FindCode,
                  CountAttempt, ConsumeCode, refresh, VerifyToken, ReadRevocation,
                  RevokeToken, EndSession, Fail, CallFrame, tables, history
    <3> QED
      BY <3>1, <3>2 DEF Moves
  <2>2. \A d \in Calls : pc'[d] = "new" <=> pc[d] = "new"
    BY <2>1 DEF Moves, Goto, Answer, TypeOK, Places
  <2>3. CASE FindCode(c)
    <3>1. input[c].kind = "otp-verify" /\ codes' = codes
      BY <2>3 DEF FindCode, At
    <3>2. DeadCodes' = DeadCodes
      BY <3>1 DEF DeadCodes, Dead
    <3>3. CASE found' = found
      <4>1. CodesMove
        BY <3>1 DEF CodesMove
      <4> QED
        BY <2>1, <2>2, <3>3, <4>1, CodesFrame
    <3>4. ASSUME NEW i \in Guessable(input[c].subject), found' = [found EXCEPT ![c] = i]
          PROVE  Codes'
      <4>1. i \notin over[c]
        BY <2>1, <3>1, FoundIsAlive DEF Moves, Codes, SpentAreDead
      <4>2. \A d \in Calls : found'[d] = IF d = c THEN i ELSE found[d]
        BY <3>4 DEF TypeOK
      <4>3. SpentAreDead'
        BY <2>1, <2>2, <3>2 DEF Codes, SpentAreDead
      <4>4. FoundByVerify'
        BY <2>1, <2>2, <3>1, <4>2 DEF Codes, FoundByVerify, Moves
      <4>5. SpentCodesStayDead'
        BY <2>1, <4>1, <4>2 DEF Codes, SpentCodesStayDead
      <4>6. OverOfCalls'
        BY <2>1 DEF Codes, OverOfCalls
      <4> QED
        BY <4>3, <4>4, <4>5, <4>6 DEF Codes
    <3> QED
      BY <2>3, <3>3, <3>4 DEF FindCode
  <2>4. CASE ~FindCode(c)
    <3>1. found' = found
      BY <1>2, <2>4 DEF CallStep, login, IssueForCode, LookUpRecent, SendCode,
                        CountAttempt, ConsumeCode, refresh, VerifyToken, ReadRevocation,
                        RevokeToken, EndSession, Fail
    <3>2. CodesMove
      <4>1. CASE SendCode(c)
        <5>1. input[c].subject \in Phones
          BY <4>1 DEF SendCode, At, TypeOK, Requests
        <5> QED
          BY <4>1, <5>1 DEF SendCode, CodesMove
      <4>2. CASE CountAttempt(c) \/ ConsumeCode(c)
        BY <4>2 DEF CountAttempt, ConsumeCode, CodesMove
      <4>3. CASE ~(SendCode(c) \/ CountAttempt(c) \/ ConsumeCode(c))
        <5>1. codes' = codes
          BY <1>2, <2>4, <4>3 DEF CallStep, login, IssueForCode, LookUpRecent,
                                  refresh, VerifyToken, ReadRevocation, RevokeToken,
                                  EndSession, Fail, tables
        <5> QED
          BY <5>1 DEF CodesMove
      <4> QED
        BY <4>1, <4>2, <4>3
    <3> QED
      BY <2>1, <2>2, <3>1, <3>2, CodesFrame
  <2> QED
    BY <2>3, <2>4
<1>3. CASE TimeStep
  <2>1. UNCHANGED control /\ over' = over
    BY <1>3 DEF TimeStep, AccessExpires, SessionExpires, Purge, CodeExpires, WaitEnds,
                WindowEnds, TimeFrame, history
  <2>2. CodesMove
    BY <1>3 DEF TimeStep, AccessExpires, SessionExpires, Purge, CodeExpires, WaitEnds,
                WindowEnds, CodesMove
  <2> QED
    BY <2>1, <2>2, CodesFrame DEF control
<1>4. CASE UNCHANGED vars
  BY <1>4, CodesFrame DEF vars, tables, control, history, CodesMove
<1> QED
  BY <1>1, <1>2, <1>3, <1>4 DEF Next, TimeStep

\* A code consumed, run out or guessed at too often before a request began is
\* not the code that request finds.
THEOREM SpentIsSpent == Spec => []SpentCodesStayDead
<1>1. Init => Codes
  BY DEF Init, Codes, OverOfCalls, SpentAreDead, FoundByVerify, SpentCodesStayDead
<1>2. Codes => SpentCodesStayDead
  BY DEF Codes
<1> QED
  BY <1>1, <1>2, TypeInit, TypeStep, CodesStep, PTL DEF Spec
-----------------------------------------------------------------------------
(***************************************************************************)
(* Logout: what it ended stays ended, because an access token that ran out *)
(* stays so, and a revocation is purged only once its token has run out.   *)
(***************************************************************************)
Born(t) == sessions[t].access # "none"
Ran(t) == t \in revocations \/ sessions[t].access = "expired"
Out(t) == Born(t) /\ Ran(t)

BornOnce == \A t \in Tokens : sessions[t] = NoSession \/ Born(t)

Grows ==
  \A t \in Tokens :
    /\ sessions'[t] = NoSession \/ Born(t)'
    /\ Born(t) =>
         /\ Born(t)'
         /\ sessions[t].access = "expired" => sessions'[t].access = "expired"
         /\ t \in revocations => t \in revocations' \/ sessions'[t].access = "expired"

LEMMA OutStays ==
  ASSUME Grows, NEW t \in Tokens
  PROVE  /\ Born(t) /\ Ran(t) => Born(t)' /\ Ran(t)'
         /\ Out(t) => Out(t)'
BY DEF Grows, Out, Ran, Born

\* A step that writes one row grows the sessions if the row is a new one, or
\* follows from the one it replaces.
LEMMA GrowsByRow ==
  ASSUME TypeOK, BornOnce, NEW t \in Tokens, NEW row,
         sessions' = [sessions EXCEPT ![t] = row], revocations' = revocations,
         row.access # "none",
         \/ sessions[t] = NoSession
         \/ sessions[t].access = "expired" => row.access = "expired"
  PROVE  Grows
<1>1. sessions'[t] = row
  BY DEF TypeOK
<1>2. \A u \in Tokens : u # t => sessions'[u] = sessions[u]
  BY DEF TypeOK
<1> QED
  BY <1>1, <1>2 DEF Grows, Born, BornOnce, NoSession

LEMMA GrowsNot ==
  ASSUME BornOnce, sessions' = sessions,
         \A t \in revocations \ revocations' : sessions[t].access = "expired"
  PROVE  Grows
BY DEF Grows, Born, BornOnce

LEMMA GrowsStep ==
  ASSUME TypeOK, BornOnce, [Next]_vars,
         \A c \in Calls : pc[c] = "ending" =>
           input[c].token \in Tokens /\ Born(input[c].token)
  PROVE  Grows
<1>1. ASSUME NEW c \in Calls, CallStep(c) PROVE Grows
  <2>1. ASSUME NEW t \in Tokens, login(c, t) \/ IssueForCode(c, t) PROVE Grows
    <3>1. /\ revocations' = revocations
          /\ \/ sessions' = sessions
             \/ sessions[t] = NoSession /\ sessions' = [sessions EXCEPT ![t] = Session(input[c].subject)]
      BY <2>1 DEF login, IssueForCode, issueTokens, Free
    <3>2. Session(input[c].subject).access # "none"
      BY DEF Session
    <3> QED
      BY <3>1, <3>2, GrowsByRow, GrowsNot
  <2>3. CASE EndSession(c)
    <3> DEFINE t == input[c].token
    <3>1. /\ t \in Tokens /\ Born(t) /\ revocations' = revocations
          /\ sessions' = sessions \/ sessions' = [sessions EXCEPT ![t] = Ended(sessions[t])]
      BY <2>3 DEF EndSession, At
    <3>2. sessions[t] \in SessionRows
      BY <3>1 DEF TypeOK
    <3>3. Ended(sessions[t]).access = sessions[t].access
      BY <3>2 DEF Ended, SessionRows
    <3>4. Ended(sessions[t]).access # "none"
      BY <3>1, <3>3 DEF Born
    <3>5. CASE sessions' = sessions
      BY <3>1, <3>5, GrowsNot
    <3>6. CASE sessions' = [sessions EXCEPT ![t] = Ended(sessions[t])]
      <4> HIDE DEF t
      <4> QED
        BY <3>1, <3>3, <3>4, <3>6, GrowsByRow
    <3> QED
      BY <3>1, <3>5, <3>6
  <2>4. CASE /\ \A t \in Tokens : ~(login(c, t) \/ IssueForCode(c, t))
             /\ ~EndSession(c)
    <3>1. sessions' = sessions /\ revocations \subseteq revocations'
      BY <1>1, <2>4 DEF CallStep, Call, LookUpRecent, SendCode, FindCode, CountAttempt,
                        ConsumeCode, refresh, VerifyToken, ReadRevocation, RevokeToken,
                        Fail, tables
    <3> QED
      BY <3>1, GrowsNot
  <2> QED
    BY <2>1, <2>3, <2>4
<1>2. ASSUME NEW t \in Tokens, AccessExpires(t) \/ SessionExpires(t) PROVE Grows
  <2>1. sessions[t] \in SessionRows /\ revocations' = revocations
    BY <1>2 DEF TypeOK, AccessExpires, SessionExpires
  <2>2. CASE AccessExpires(t)
    <3> DEFINE row == [sessions[t] EXCEPT !.access = "expired"]
    <3>1. row.access = "expired"
      BY <2>1 DEF SessionRows
    <3>2. sessions' = [sessions EXCEPT ![t] = row]
      BY <2>2 DEF AccessExpires
    <3> QED
      BY <2>1, <3>1, <3>2, GrowsByRow
  <2>3. CASE SessionExpires(t)
    <3> DEFINE row == [sessions[t] EXCEPT !.refresh = "expired"]
    <3>1. row.access = "expired"
      BY <2>1, <2>3 DEF SessionRows, SessionExpires
    <3>2. sessions' = [sessions EXCEPT ![t] = row]
      BY <2>3 DEF SessionExpires
    <3> QED
      BY <2>1, <3>1, <3>2, GrowsByRow
  <2> QED
    BY <1>2, <2>2, <2>3
<1>3. ASSUME \/ \E t \in Tokens : Purge(t)
             \/ \E i \in DOMAIN codes : CodeExpires(i)
             \/ \E p \in Phones : WaitEnds(p)
             \/ \E k \in Limited : WindowEnds(k)
      PROVE  Grows
  BY <1>3, GrowsNot DEF Purge, Purgeable, CodeExpires, WaitEnds, WindowEnds
<1>4. CASE UNCHANGED vars
  BY <1>4, GrowsNot DEF vars, tables
<1> QED
  BY <1>1, <1>2, <1>3, <1>4 DEF Next

HasToken == {"request", "logout"}

TokensAreBorn ==
  \A c \in Calls : pc[c] # "new" /\ input[c].kind \in HasToken => Born(input[c].token)

EndingHasRun ==
  \A c \in Calls : pc[c] = "ending" => input[c].kind = "logout" /\ Ran(input[c].token)

OutIsOut ==
  \A c \in Calls : answer[c] = "out" => input[c].kind = "logout" /\ Out(input[c].token)

OverIsOut ==
  \A c \in Calls : pc[c] # "new" /\ input[c].kind \in HasToken =>
    \A t \in over[c] : t = input[c].token /\ Out(t)

AdmittedAsks == \A c \in Calls : answer[c] = "admitted" => input[c].kind = "request"

Logouts ==
  /\ BornOnce /\ TokensAreBorn /\ EndingHasRun /\ OutIsOut /\ OverIsOut /\ AdmittedAsks
  /\ OverOfCalls /\ LogoutIsFinal

\* What a step that moves a call has to show of it.
Fine(c) ==
  LET t == input[c].token
  IN  /\ pc[c] # "new" /\ pc'[c] # "new"
      /\ pc'[c] = "ending" => input[c].kind = "logout" /\ Ran(t)'
      /\ answer'[c] = "out" => input[c].kind = "logout" /\ Out(t)'
      /\ answer'[c] = "admitted" =>
           input[c].kind = "request" /\ (t \in over[c] => sessions'[t].access = "expired")

\* A call that was answered, with the token it came with.
LEMMA AnsweredTokens ==
  ASSUME TypeOK, AnsweredAreDone, Logouts, NEW c \in Calls, pc[c] # "new" \/ answer[c] # None,
         input[c].kind \in HasToken
  PROVE  pc[c] # "new" /\ input[c].token \in Tokens /\ Born(input[c].token)
<1>1. pc[c] # "new"
  BY DEF AnsweredAreDone
<1> QED
  BY <1>1, TokenTypes DEF HasToken, Logouts, TokensAreBorn

LEMMA LogoutsFrame ==
  ASSUME TypeOK, AnsweredAreDone, Logouts, Grows, input' = input, over' = over,
         \A c \in Calls : (pc'[c] = pc[c] /\ answer'[c] = answer[c]) \/ Fine(c)
  PROVE  Logouts'
<1>1. \A c \in Calls : pc'[c] # "new" => pc[c] # "new"
  BY DEF Fine
<1>2. BornOnce' /\ OverOfCalls'
  BY DEF Grows, BornOnce, Logouts, OverOfCalls
<1>3. TokensAreBorn'
  BY <1>1, AnsweredTokens DEF TokensAreBorn, Grows
<1>4. EndingHasRun'
  <2> SUFFICES ASSUME NEW c \in Calls, pc'[c] = "ending", pc[c] = "ending"
               PROVE  input[c].kind = "logout" /\ Ran(input[c].token)'
    BY DEF EndingHasRun, Fine
  <2>1. input[c].kind = "logout" /\ Ran(input[c].token)
    BY DEF Logouts, EndingHasRun
  <2>2. input[c].token \in Tokens /\ Born(input[c].token)
    BY <2>1, AnsweredTokens DEF HasToken
  <2> QED
    BY <2>1, <2>2, OutStays
<1>5. OutIsOut'
  <2> SUFFICES ASSUME NEW c \in Calls, answer'[c] = "out", answer[c] = "out"
               PROVE  input[c].kind = "logout" /\ Out(input[c].token)'
    BY DEF OutIsOut, Fine
  <2>1. input[c].kind = "logout" /\ Out(input[c].token)
    BY DEF Logouts, OutIsOut
  <2>2. input[c].token \in Tokens
    BY <2>1, AnsweredTokens, SessionsAssumption DEF HasToken, Answers
  <2> QED
    BY <2>1, <2>2, OutStays
<1>6. OverIsOut'
  <2> SUFFICES ASSUME NEW c \in Calls, pc[c] # "new", input[c].kind \in HasToken,
                      NEW t \in over[c]
               PROVE  t = input[c].token /\ Out(t)'
    BY <1>1 DEF OverIsOut
  <2>1. t = input[c].token /\ Out(t)
    BY DEF Logouts, OverIsOut
  <2> QED
    BY <2>1, AnsweredTokens, OutStays
<1>7. AdmittedAsks'
  BY DEF Logouts, AdmittedAsks, Fine
<1>8. LogoutIsFinal'
  <2>1. ASSUME NEW c \in Calls, answer'[c] = "admitted", input[c].token \in over[c]
        PROVE  sessions'[input[c].token].access = "expired"
    <3> SUFFICES ASSUME answer[c] = "admitted"
                 PROVE  sessions'[input[c].token].access = "expired"
      BY <2>1 DEF Fine
    <3>1. /\ input[c].kind = "request"
          /\ sessions[input[c].token].access = "expired"
      BY <2>1 DEF Logouts, AdmittedAsks, LogoutIsFinal
    <3>2. input[c].token \in Tokens /\ Born(input[c].token)
      BY <3>1, AnsweredTokens, SessionsAssumption DEF HasToken, Answers
    <3> QED
      BY <3>1, <3>2 DEF Grows
  <2> QED
    BY <2>1 DEF LogoutIsFinal
<1> QED
  BY <1>2, <1>3, <1>4, <1>5, <1>6, <1>7, <1>8 DEF Logouts

\* A request begins: a token that is over when it begins was logged out.
LEMMA CallLogouts ==
  ASSUME TypeOK, AnsweredAreDone, Logouts, NEW c \in Calls, NEW in \in Inputs, Call(c, in)
  PROVE  Logouts'
<1>1. /\ pc[c] = "new" /\ input' = [input EXCEPT ![c] = in]
      /\ over' = [over EXCEPT ![c] = Over(in)]
      /\ sessions' = sessions /\ revocations' = revocations
      /\ \A d \in Calls \ {c} : pc'[d] = pc[d] /\ answer'[d] = answer[d]
      /\ pc'[c] \in {"working", "done"}
      /\ answer'[c] \in {answer[c], "limited"}
  BY DEF Call, Goto, Answer, Unanswered, TypeOK
<1>2. /\ input'[c] = in /\ over'[c] = Over(in)
      /\ \A d \in Calls \ {c} : input'[d] = input[d] /\ over'[d] = over[d]
      /\ OverOfCalls'
  BY <1>1 DEF TypeOK, Logouts, OverOfCalls
<1>3. answer'[c] \notin {"out", "admitted", "tokens"}
  BY <1>1, SessionsAssumption DEF AnsweredAreDone, Answers
<1>4. in.kind \in HasToken => in.token \in Tokens /\ sessions[in.token] # NoSession
  BY DEF Inputs, HasToken
<1>5. in.kind \in HasToken => \A t \in Over(in) : t = in.token /\ Out(t)
  <2> SUFFICES ASSUME in.kind \in HasToken, NEW t \in Over(in) PROVE t = in.token /\ Out(t)
    OBVIOUS
  <2>1. t \in LoggedOut \cap {in.token}
    BY DEF Over, HasToken
  <2> QED
    BY <2>1 DEF LoggedOut, Logouts, OutIsOut
<1>6. \A t : /\ Born(t)' <=> Born(t)
             /\ Ran(t)' <=> Ran(t)
             /\ Out(t)' <=> Out(t)
  BY <1>1 DEF Born, Ran, Out
<1>7. BornOnce' /\ TokensAreBorn'
  BY <1>1, <1>2, <1>4, <1>6 DEF Logouts, BornOnce, TokensAreBorn
<1>8. EndingHasRun' /\ OutIsOut' /\ AdmittedAsks'
  BY <1>1, <1>2, <1>3, <1>6 DEF Logouts, EndingHasRun, OutIsOut, AdmittedAsks
<1>9. OverIsOut'
  BY <1>1, <1>2, <1>5, <1>6 DEF Logouts, OverIsOut
<1>10. LogoutIsFinal'
  BY <1>1, <1>2, <1>3 DEF Logouts, LogoutIsFinal
<1> QED
  BY <1>2, <1>7, <1>8, <1>9, <1>10 DEF Logouts

\* A call is let in, and goes on, while its token is not revoked, or has run out.
LEMMA GuardIsFine ==
  ASSUME TypeOK, AnsweredAreDone, Logouts, Grows, NEW c \in Calls, ReadRevocation(c), input' = input
  PROVE  Fine(c)
<1> DEFINE t == input[c].token
<1>1. /\ pc[c] = "verified" /\ input[c].kind \in {"request", "logout"}
      /\ sessions' = sessions /\ revocations' = revocations
  BY DEF ReadRevocation, Guarded, tables
<1>2. \/ Answer(c, "unauthorized")
      \/ ~Revoked(t) /\ input[c].kind = "request" /\ Answer(c, "admitted")
      \/ Goto(c, "revoking") /\ answer' = answer
  BY DEF ReadRevocation, Unanswered
<1>3. answer[c] = None
  BY <1>1 DEF AnsweredAreDone
<1>4. pc'[c] \in {"done", "revoking"} /\ answer'[c] \notin {"out", "tokens"}
  BY <1>2, <1>3, SessionsAssumption DEF Answer, Goto, TypeOK, Answers
<1>5. answer'[c] = "admitted" => ~Revoked(t) /\ input[c].kind = "request"
  BY <1>2, <1>3, SessionsAssumption DEF Answer, Goto, TypeOK, Answers
<1>6. ~Revoked(t) /\ t \in over[c] => sessions[t].access = "expired"
  <2> SUFFICES ASSUME ~Revoked(t), t \in over[c] PROVE sessions[t].access = "expired"
    OBVIOUS
  <2>1. Out(t) /\ t \in Tokens
    BY <1>1, AnsweredTokens DEF Logouts, OverIsOut, HasToken
  <2>2. sessions[t] \in SessionRows
    BY <2>1 DEF TypeOK
  <2> QED
    BY <2>1, <2>2 DEF Out, Born, Ran, Revoked, SessionRows
<1> QED
  BY <1>1, <1>4, <1>5, <1>6 DEF Fine

\* The two statements of a logout.
LEMMA LogoutIsFine ==
  ASSUME TypeOK, AnsweredAreDone, Logouts, Grows, NEW c \in Calls, RevokeToken(c) \/ EndSession(c)
  PROVE  Fine(c)
<1> DEFINE t == input[c].token
<1>1. pc[c] \in {"revoking", "ending"} /\ input[c].kind = "logout" /\ input' = input
  BY DEF RevokeToken, EndSession, At, CallFrame
<1>2. t \in Tokens /\ Born(t) /\ answer[c] = None
  BY <1>1, AnsweredTokens DEF HasToken, AnsweredAreDone
<1>3. CASE RevokeToken(c)
  <2>1. pc'[c] = "ending" /\ answer'[c] = None /\ t \in revocations'
    BY <1>2, <1>3 DEF RevokeToken, Goto, Unanswered, TypeOK
  <2> QED
    BY <1>1, <2>1, SessionsAssumption DEF Fine, Ran, Answers
<1>4. CASE EndSession(c)
  <2>1. pc'[c] = "done" /\ answer'[c] = "out"
    BY <1>4 DEF EndSession, Answer, Goto, TypeOK
  <2>2. Born(t)' /\ Ran(t)'
    <3>1. Ran(t)
      BY <1>4 DEF EndSession, At, Logouts, EndingHasRun
    <3> QED
      BY <1>1, <1>2, <3>1, OutStays DEF Grows, Ran, Born
  <2>4. Out(t)'
    BY <1>1, <2>2 DEF Out
  <2> QED
    BY <1>1, <2>1, <2>4 DEF Fine
<1> QED
  BY <1>3, <1>4

\* The other steps of a call neither end nor admit anything.
LEMMA QuietIsFine ==
  ASSUME TypeOK, AnsweredAreDone, NEW c \in Calls, CallStep(c), \A in \in Inputs : ~Call(c, in),
         ~(ReadRevocation(c) \/ RevokeToken(c) \/ EndSession(c))
  PROVE  Fine(c)
<1>1. Moves(c)
  BY CallMoves, TypeParts
<1>2. \/ \E place \in Places \ {"ending"} : Goto(c, place) /\ answer' = answer
      \/ \E reply \in Answers \ {"out", "admitted"} : Answer(c, reply)
  <2>1. ASSUME NEW t \in Tokens, login(c, t) \/ IssueForCode(c, t)
        PROVE  Answer(c, "tokens") \/ Answer(c, "invalid")
    BY <2>1 DEF login, IssueForCode
  <2>2. CASE \E t \in Tokens : login(c, t) \/ IssueForCode(c, t)
    BY <2>1, <2>2 DEF Answers
  <2>3. CASE LookUpRecent(c) \/ SendCode(c) \/ FindCode(c) \/ CountAttempt(c) \/ ConsumeCode(c)
             \/ refresh(c) \/ VerifyToken(c) \/ Fail(c)
    BY <2>3 DEF LookUpRecent, SendCode, FindCode, CountAttempt, ConsumeCode, refresh,
                VerifyToken, Fail, Unanswered, Places, Answers
  <2> QED
    BY <2>2, <2>3 DEF CallStep
<1>3. answer[c] = None
  BY <1>1 DEF Moves, AnsweredAreDone, TypeOK, Places
<1>4. pc[c] # "new" /\ pc'[c] \notin {"new", "ending"}
  BY <1>1, <1>2 DEF Moves, Goto, Answer, TypeOK, Places
<1>5. answer'[c] \notin {"out", "admitted"}
  BY <1>2, <1>3, SessionsAssumption DEF Goto, Answer, TypeOK, Answers
<1> QED
  BY <1>4, <1>5 DEF Fine

LEMMA LogoutsStep == TypeOK /\ AnsweredAreDone /\ Logouts /\ [Next]_vars => Logouts'
<1> SUFFICES ASSUME TypeOK, AnsweredAreDone, Logouts, [Next]_vars PROVE Logouts'
  OBVIOUS
<1>1. Grows
  <2>1. ASSUME NEW c \in Calls, pc[c] = "ending"
        PROVE  input[c].token \in Tokens /\ Born(input[c].token)
    <3>1. pc[c] # "new" /\ input[c].kind \in HasToken
      BY <2>1 DEF Logouts, EndingHasRun, HasToken
    <3> QED
      BY <3>1, AnsweredTokens
  <2> QED
    BY <2>1, GrowsStep DEF Logouts
<1>2. ASSUME NEW c \in Calls, NEW in \in Inputs, Call(c, in) PROVE Logouts'
  BY <1>2, CallLogouts
<1>3. ASSUME NEW c \in Calls, CallStep(c), \A in \in Inputs : ~Call(c, in) PROVE Logouts'
  <2>1. Moves(c)
    BY <1>3, CallMoves, TypeParts
  <2>2. \A d \in Calls \ {c} : pc'[d] = pc[d] /\ answer'[d] = answer[d]
    BY <2>1 DEF Moves, Goto, Answer, TypeOK
  <2>3. input' = input /\ over' = over
    <3>1. over' = over
      BY <1>3 DEF CallStep, login, IssueForCode, LookUpRecent, SendCode, FindCode,
                  CountAttempt, ConsumeCode, refresh, VerifyToken, ReadRevocation,
                  RevokeToken, EndSession, Fail, CallFrame, tables, history
    <3> QED
      BY <2>1, <3>1 DEF Moves
  <2>4. Fine(c)
    BY <1>1, <1>3, <2>3, GuardIsFine, LogoutIsFine, QuietIsFine
  <2> QED
    BY <1>1, <2>2, <2>3, <2>4, LogoutsFrame
<1>4. CASE TimeStep
  <2>1. UNCHANGED control /\ over' = over
    BY <1>4 DEF TimeStep, AccessExpires, SessionExpires, Purge, CodeExpires, WaitEnds,
                WindowEnds, TimeFrame, history
  <2> QED
    BY <1>1, <2>1, LogoutsFrame DEF control
<1>5. CASE UNCHANGED vars
  BY <1>1, <1>5, LogoutsFrame DEF vars, control, history
<1> QED
  BY <1>2, <1>3, <1>4, <1>5 DEF Next, TimeStep

\* Logged out is logged out: for any number of requests, purges and expiries.
THEOREM LogoutHolds == Spec => []LogoutIsFinal
<1>1. Init => Logouts
  BY SessionsAssumption
     DEF Init, Logouts, BornOnce, TokensAreBorn, EndingHasRun, OutIsOut, OverIsOut,
         AdmittedAsks, OverOfCalls, LogoutIsFinal, Answers
<1>3. Init => AnsweredAreDone
  BY DEF Init, AnsweredAreDone
<1>2. Logouts => LogoutIsFinal
  BY DEF Logouts
<1> QED
  BY <1>1, <1>2, <1>3, TypeInit, TypeStep, AnsweredStep, LogoutsStep, PTL DEF Spec
=============================================================================
