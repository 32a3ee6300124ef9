------------------------------- MODULE Sessions -------------------------------
(***************************************************************************)
(* Logins, one-time codes, refresh sessions and the guard of every         *)
(* protected route: AuthService, JwtGuard, RateLimitService and            *)
(* RetentionService over the tables staff_sessions, token_revocations,     *)
(* otp_challenges and rate_limit_buckets.                                  *)
(*                                                                         *)
(* A token stands for what issueTokens makes under one id: a row of        *)
(* staff_sessions, the refresh token it stores the hash of, and the access *)
(* token whose jti it is.  Time passes as actions that let an access       *)
(* token, a session, a code, the half minute between two codes or a rate   *)
(* window run out.  Each rate limit is that of a single client address.    *)
(***************************************************************************)
EXTENDS Integers, FiniteSets, Sequences

CONSTANTS
  Calls,            \* requests to the endpoints
  Tokens,           \* ids of sessions
  Staff, Phones,    \* who logs in, and who asks for a code
  Limit,            \* requests a rate window admits
  MaxAttempts,      \* guesses a code admits
  MaxCodes,         \* bound: codes sent
  MaxFaults,        \* bound: calls that fail half-way
  None

Answers ==
  {"tokens", "invalid", "limited", "wait", "accepted", "unavailable", "incorrect",
   "unauthorized", "admitted", "out", "error"}

ASSUME SessionsAssumption ==
  /\ Limit \in Nat \ {0} /\ MaxAttempts \in Nat \ {0}
  /\ MaxCodes \in Nat /\ MaxFaults \in Nat
  /\ Staff \cap Phones = {} /\ None \notin Tokens \cup Answers

VARIABLES
  sessions,         \* staff_sessions with what is known of the access token
  revocations,      \* token_revocations
  codes,            \* otp_challenges, by last_sent_at
  recent,           \* phones a code was sent to in the last 30 seconds
  buckets,          \* rate_limit_buckets
  pc, input, found, \* a call: where it is, its request, the code it has read
  answer,           \* what it was answered
  faults,
  passed,           \* history: what the limiter let pass in this window
  over              \* history: which codes, or whether the token, of a call were
                    \* over when the call began

tables == <<sessions, revocations, codes, recent, buckets>>
control == <<pc, input, found, answer>>
history == <<passed, over>>
vars == <<tables, control, faults, history>>

Limited == {"login", "otp-request", "otp-verify"}

NoSession ==
  [subject |-> None, refresh |-> "none", access |-> "none"]

Init ==
  /\ sessions = [t \in Tokens |-> NoSession]
  /\ revocations = {} /\ codes = <<>> /\ recent = {}
  /\ buckets = [k \in Limited |-> 0]
  /\ pc = [c \in Calls |-> "new"] /\ input = [c \in Calls |-> None]
  /\ found = [c \in Calls |-> 0] /\ answer = [c \in Calls |-> None]
  /\ faults = 0
  /\ passed = [k \in Limited |-> 0]
  /\ over = [c \in Calls |-> {}]
-----------------------------------------------------------------------------
Inputs ==
  [kind: {"login"}, subject: Staff, right: BOOLEAN]
  \cup [kind: {"otp-request"}, subject: Phones]
  \cup [kind: {"otp-verify"}, subject: Phones, right: BOOLEAN]
  \cup [kind: {"refresh", "request", "logout"},
        token: {t \in Tokens : sessions[t] # NoSession}]

Goto(c, place) == pc' = [pc EXCEPT ![c] = place]
Unanswered == UNCHANGED answer
Answer(c, reply) == Goto(c, "done") /\ answer' = [answer EXCEPT ![c] = reply]
Free == {t \in Tokens : sessions[t] = NoSession}

Session(subject) == [subject |-> subject, refresh |-> "active", access |-> "valid"]

issueTokens(t, subject) ==
  t \in Free /\ sessions' = [sessions EXCEPT ![t] = Session(subject)]

Dead(i) == codes[i].consumed \/ codes[i].expired \/ codes[i].attempts >= MaxAttempts

LoggedOut == {input[d].token : d \in {e \in Calls : answer[e] = "out"}}

Over(in) ==
  CASE in.kind = "otp-verify" -> {i \in DOMAIN codes : Dead(i)}
    [] in.kind = "request" -> LoggedOut \cap {in.token}
    [] OTHER -> {}

\* Mutant of Admitted: the request above the limit is admitted.
AdmittedAtLimit(k) == buckets[k] <= Limit

Admitted(k) == buckets[k] + 1 <= Limit

\* A request arrives; check counts it in its bucket, in one upsert.
Call(c, in) ==
  /\ pc[c] = "new"
  /\ input' = [input EXCEPT ![c] = in]
  /\ over' = [over EXCEPT ![c] = Over(in)]
  /\ IF in.kind \notin Limited
     THEN Goto(c, "working") /\ Unanswered /\ UNCHANGED <<buckets, passed>>
     ELSE /\ buckets' = [buckets EXCEPT ![in.kind] = @ + 1]
          /\ IF Admitted(in.kind)
             THEN /\ passed' = [passed EXCEPT ![in.kind] = @ + 1]
                  /\ Goto(c, "working") /\ Unanswered
             ELSE Answer(c, "limited") /\ UNCHANGED passed
  /\ UNCHANGED <<sessions, revocations, codes, recent, found, faults>>

\* The parts of vars that the steps of a call do not touch.
CallFrame == UNCHANGED <<buckets, input, faults, history>>
At(c, kind, place) == pc[c] = place /\ input[c].kind = kind
-----------------------------------------------------------------------------
login(c, t) ==
  /\ At(c, "login", "working")
  /\ IF input[c].right
     THEN issueTokens(t, input[c].subject) /\ Answer(c, "tokens")
     ELSE Answer(c, "invalid") /\ UNCHANGED sessions
  /\ UNCHANGED <<revocations, codes, recent, found>> /\ CallFrame

\* requestOtp: the 30 seconds are looked up, then the code is sent and stored.
LookUpRecent(c) ==
  /\ At(c, "otp-request", "working")
  /\ IF input[c].subject \in recent
     THEN Answer(c, "wait")
     ELSE Goto(c, "sending") /\ Unanswered
  /\ UNCHANGED <<sessions, revocations, codes, recent, found>> /\ CallFrame

NewCode(phone) == [phone |-> phone, attempts |-> 0, consumed |-> FALSE, expired |-> FALSE]

SendCode(c) ==
  /\ At(c, "otp-request", "sending") /\ Len(codes) < MaxCodes
  /\ codes' = Append(codes, NewCode(input[c].subject))
  /\ recent' = recent \cup {input[c].subject}
  /\ Answer(c, "accepted")
  /\ UNCHANGED <<sessions, revocations, found>> /\ CallFrame

\* Mutant of Candidates: AND consumed_at IS NULL is missing.
CandidatesUsedOnes(phone) ==
  {i \in DOMAIN codes : codes[i].phone = phone /\ ~codes[i].expired}

\* The codes verifyOtp selects from, of which it takes the newest.
Candidates(phone) ==
  {i \in DOMAIN codes : codes[i].phone = phone /\ ~codes[i].consumed /\ ~codes[i].expired}

Newest(i, phone) == i \in Candidates(phone) /\ \A j \in Candidates(phone) : j <= i

Guessable(phone) ==
  {i \in DOMAIN codes : Newest(i, phone) /\ codes[i].attempts < MaxAttempts}

FindCode(c) ==
  /\ At(c, "otp-verify", "working")
  /\ LET guessable == Guessable(input[c].subject)
     IN  \/ /\ guessable = {}
            /\ Answer(c, "unavailable") /\ UNCHANGED found
         \/ \E i \in guessable :
              /\ found' = [found EXCEPT ![c] = i]
              /\ Goto(c, "counting") /\ Unanswered
  /\ UNCHANGED <<sessions, revocations, codes, recent>> /\ CallFrame

Counted(code) == [code EXCEPT !.attempts = @ + 1]

CountAttempt(c) ==
  /\ At(c, "otp-verify", "counting")
  /\ codes' = [codes EXCEPT ![found[c]] = Counted(codes[found[c]])]
  /\ IF input[c].right THEN Goto(c, "consuming") /\ Unanswered ELSE Answer(c, "incorrect")
  /\ UNCHANGED <<sessions, revocations, recent, found>> /\ CallFrame

Consumed(code) == [code EXCEPT !.consumed = TRUE]

ConsumeCode(c) ==
  /\ At(c, "otp-verify", "consuming")
  /\ codes' = [codes EXCEPT ![found[c]] = Consumed(codes[found[c]])]
  /\ Goto(c, "issuing") /\ Unanswered
  /\ UNCHANGED <<sessions, revocations, recent, found>> /\ CallFrame

IssueForCode(c, t) ==
  /\ At(c, "otp-verify", "issuing")
  /\ issueTokens(t, input[c].subject) /\ Answer(c, "tokens")
  /\ UNCHANGED <<revocations, codes, recent, found>> /\ CallFrame

\* refresh: its SELECT is FOR UPDATE over the nullable sides of two LEFT JOINs,
\* which PostgreSQL refuses, whatever the token is; the transaction is undone, so
\* that the statements after it, which would exchange the token, never run.
refresh(c) ==
  /\ At(c, "refresh", "working")
  /\ Answer(c, "error")
  /\ UNCHANGED <<tables, found>> /\ UNCHANGED <<input, faults, history>>

Guarded(c) == pc[c] \in {"working", "verified"} /\ input[c].kind \in {"request", "logout"}

\* JwtGuard: the signature and expiry of the token, then its revocation.
VerifyToken(c) ==
  /\ Guarded(c) /\ pc[c] = "working"
  /\ IF sessions[input[c].token].access = "valid"
     THEN Goto(c, "verified") /\ Unanswered
     ELSE Answer(c, "unauthorized")
  /\ UNCHANGED <<tables, found>> /\ UNCHANGED <<input, faults, history>>

\* A revocation counts as long as the token itself has not expired.
Revoked(t) == t \in revocations /\ sessions[t].access = "valid"

ReadRevocation(c) ==
  /\ Guarded(c) /\ pc[c] = "verified"
  /\ IF Revoked(input[c].token) THEN Answer(c, "unauthorized")
     ELSE IF input[c].kind = "request" THEN Answer(c, "admitted")
     ELSE Goto(c, "revoking") /\ Unanswered
  /\ UNCHANGED <<tables, found>> /\ UNCHANGED <<input, faults, history>>

\* logout: two statements of their own.
RevokeToken(c) ==
  /\ At(c, "logout", "revoking")
  /\ revocations' = revocations \cup {input[c].token}
  /\ Goto(c, "ending") /\ Unanswered
  /\ UNCHANGED <<sessions, codes, recent, found>> /\ CallFrame

Ended(session) == [session EXCEPT !.refresh = "revoked"]

\* WHERE id=$1 AND user_id=$2: the sessions of beneficiaries have no user_id.
EndsSession(t) == sessions[t].subject \in Staff

EndSession(c) ==
  /\ At(c, "logout", "ending")
  /\ LET t == input[c].token
     IN  sessions' = IF EndsSession(t)
                     THEN [sessions EXCEPT ![t] = Ended(sessions[t])] ELSE sessions
  /\ Answer(c, "out")
  /\ UNCHANGED <<revocations, codes, recent, found>> /\ CallFrame

\* A statement fails, the connection breaks or the process ends.
Fail(c) ==
  /\ pc[c] \notin {"new", "done"} /\ faults < MaxFaults
  /\ Answer(c, "error") /\ faults' = faults + 1
  /\ UNCHANGED <<tables, input, found, history>>
-----------------------------------------------------------------------------
(***************************************************************************)
(* Time, and the purge of what is long over.                               *)
(***************************************************************************)
TimeFrame == UNCHANGED <<control, faults>>

AccessExpires(t) ==
  /\ sessions[t].access = "valid"
  /\ sessions' = [sessions EXCEPT ![t] = [sessions[t] EXCEPT !.access = "expired"]]
  /\ UNCHANGED <<revocations, codes, recent, buckets, history>> /\ TimeFrame

\* Thirty days are longer than fifteen minutes.
SessionExpires(t) ==
  /\ sessions[t].refresh = "active" /\ sessions[t].access = "expired"
  /\ sessions' = [sessions EXCEPT ![t] = [sessions[t] EXCEPT !.refresh = "expired"]]
  /\ UNCHANGED <<revocations, codes, recent, buckets, history>> /\ TimeFrame

CodeExpires(i) ==
  /\ ~codes[i].expired
  /\ codes' = [codes EXCEPT ![i] = [codes[i] EXCEPT !.expired = TRUE]]
  /\ UNCHANGED <<sessions, revocations, recent, buckets, history>> /\ TimeFrame

WaitEnds(phone) ==
  /\ phone \in recent /\ recent' = recent \ {phone}
  /\ UNCHANGED <<sessions, revocations, codes, buckets, history>> /\ TimeFrame

\* The next check finds window_started_at older than the window and counts from 1.
WindowEnds(k) ==
  /\ buckets[k] > 0
  /\ buckets' = [buckets EXCEPT ![k] = 0] /\ passed' = [passed EXCEPT ![k] = 0]
  /\ UNCHANGED <<sessions, revocations, codes, recent, over>> /\ TimeFrame

\* Mutant of Purgeable: revocations are purged by their age alone.
PurgeableAtAnyTime(t) == t \in revocations

Purgeable(t) == t \in revocations /\ sessions[t].access = "expired"

\* purgeExpired, whose rows went out of use days ago.  A session that is gone
\* stays in the model: nothing selects one that is neither active nor new.
Purge(t) ==
  /\ Purgeable(t)
  /\ revocations' = revocations \ {t}
  /\ UNCHANGED <<sessions, codes, recent, buckets, history>> /\ TimeFrame
-----------------------------------------------------------------------------
CallStep(c) ==
  \/ \E in \in Inputs : Call(c, in)
  \/ \E t \in Tokens : login(c, t) \/ IssueForCode(c, t)
  \/ LookUpRecent(c) \/ SendCode(c)
  \/ FindCode(c) \/ CountAttempt(c) \/ ConsumeCode(c)
  \/ refresh(c)
  \/ VerifyToken(c) \/ ReadRevocation(c) \/ RevokeToken(c) \/ EndSession(c)
  \/ Fail(c)

Next ==
  \/ \E c \in Calls : CallStep(c)
  \/ \E t \in Tokens : AccessExpires(t) \/ SessionExpires(t) \/ Purge(t)
  \/ \E i \in DOMAIN codes : CodeExpires(i)
  \/ \E p \in Phones : WaitEnds(p)
  \/ \E k \in Limited : WindowEnds(k)

Spec == Init /\ [][Next]_vars
-----------------------------------------------------------------------------
SessionRows ==
  [subject: Staff \cup Phones \cup {None}, refresh: {"none", "active", "revoked", "expired"},
   access: {"none", "valid", "expired"}]

CodeRows == [phone: Phones, attempts: Nat, consumed: BOOLEAN, expired: BOOLEAN]

Requests ==
  [kind: {"login"}, subject: Staff, right: BOOLEAN]
  \cup [kind: {"otp-request"}, subject: Phones]
  \cup [kind: {"otp-verify"}, subject: Phones, right: BOOLEAN]
  \cup [kind: {"refresh", "request", "logout"}, token: Tokens]

Places ==
  {"working", "sending", "counting", "consuming", "issuing", "verified", "revoking",
   "ending", "done"}

TypeOK ==
  /\ sessions \in [Tokens -> SessionRows]
  /\ revocations \subseteq Tokens
  /\ codes \in Seq(CodeRows) /\ Len(codes) <= MaxCodes
  /\ recent \subseteq Phones
  /\ buckets \in [Limited -> Nat] /\ passed \in [Limited -> Nat]
  /\ pc \in [Calls -> Places \cup {"new"}]
  /\ input \in [Calls -> Requests \cup {None}]
  /\ \A c \in Calls : pc[c] # "new" => input[c] \in Requests
  /\ found \in [Calls -> 0..MaxCodes]
  /\ answer \in [Calls -> Answers \cup {None}]
  /\ faults \in 0..MaxFaults

\* "Hashes the supplied refresh token, locks the active session, rejects expired/revoked
\* tokens, creates a replacement session/token pair, and revokes the old session"
\* (BACKEND_WORKFLOW.md:38): a refresh of an active session is not turned away while
\* nothing fails.  The code turns every one away.
RefreshAnswered ==
  \A c \in Calls :
    answer[c] = "error" /\ input[c].kind = "refresh" /\ faults = 0 =>
      sessions[input[c].token].refresh # "active"

\* "records its jti in token_revocations": a request that begins after a logout
\* with the same token was answered is not admitted, however old the logout is
\* and whatever was purged, unless the token expires under way.
LogoutIsFinal ==
  \A c \in Calls : answer[c] = "admitted" /\ input[c].token \in over[c] =>
    sessions[input[c].token].access = "expired"

\* A code that was consumed, had run out or was guessed at too often before a
\* request began is of no use to that request: what it is answered concerns
\* another code.
SpentCodesStayDead ==
  \A c \in Calls : found[c] # 0 => found[c] \notin over[c]

\* However many requests arrive together, a window lets Limit of them pass.
PassedWithinLimit == \A k \in Limited : passed[k] <= Limit
=============================================================================
