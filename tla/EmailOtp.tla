------------------------------ MODULE EmailOtp ------------------------------
(***************************************************************************)
(* One-time codes by email, for one address.                               *)
(*                                                                         *)
(* A row is kept per address, set whole by every send and by every failed  *)
(* attempt, and deleted by the first that succeeds; nothing is compared.   *)
(* Codes are numbered as they are sent.  The clock counts cooldowns; the   *)
(* rate limits in front of the routes are not kept here.                   *)
(***************************************************************************)
EXTENDS Requests

CONSTANTS
  LastMinute,    \* bound on the clock
  OtpExpiry,     \* how long a code is good, in cooldowns
  MaxAttempts,   \* failed attempts a code survives
  MaxCodes       \* bound on the codes sent

VARIABLES
  minute,     \* the clock
  otp,        \* the address's row, None when nothing is being verified
  mailed,     \* the codes that were emailed
  drawn,      \* how many codes were drawn
  verified    \* the codes that verified

otpVars == <<minute, otp, mailed, drawn, verified>>

Minutes == 0..LastMinute
EmailOtp == [code : 1..MaxCodes, sentAt : Minutes, attempts : 0..MaxAttempts]

OtpTypeOK ==
  /\ minute \in Minutes /\ otp \in EmailOtp \cup {None}
  /\ mailed \subseteq 1..MaxCodes /\ drawn \in 0..MaxCodes /\ verified \subseteq 1..MaxCodes

---------------------------------------------------------------------------
(* The rules of the model.                                                 *)

CreateEmailOtp(code, now) == [code |-> code, sentAt |-> now, attempts |-> 0]

CanResend(row, now) == row = None \/ now - row.sentAt >= 1
IsExpired(row, now) == now - row.sentAt > OtpExpiry
IsLocked(row)       == row.attempts >= MaxAttempts

RecordFailedAttempt(row) == [row EXCEPT !.attempts = @ + 1]

---------------------------------------------------------------------------
(* Sending: the row is read, a code drawn, the row set and the mail sent.  *)

PostOtpSend(c) == Arrive(c, "sendOtp", None, minute, None) /\ UNCHANGED otpVars

\* A guest types a code that was mailed, or one that was not.
PostOtpVerify(c) ==
  /\ \E code \in mailed \cup {0} : Arrive(c, "verifyOtp", None, minute, code)
  /\ UNCHANGED otpVars

SendReadsOtp(c) ==
  /\ At(c, "sendOtp", "read") /\ drawn < MaxCodes
  /\ IF CanResend(otp, call[c].on)
     THEN drawn' = drawn + 1 /\ Goto(c, "save", CreateEmailOtp(drawn + 1, call[c].on))
     ELSE Leave(c) /\ UNCHANGED drawn
  /\ UNCHANGED <<minute, otp, mailed, verified>>

SaveOtp(c) ==
  /\ At(c, "sendOtp", "save")
  /\ otp' = call[c].row /\ Goto(c, "mail", call[c].row)
  /\ UNCHANGED <<minute, mailed, drawn, verified>>

SendOtpEmail(c) ==
  /\ At(c, "sendOtp", "mail")
  /\ mailed' = mailed \cup {call[c].row.code} /\ Leave(c)
  /\ UNCHANGED <<minute, otp, drawn, verified>>

---------------------------------------------------------------------------
(* Verifying: the clock is read when the request arrives.                  *)

VerifyReadsOtp(c) ==
  LET q == call[c] IN
  /\ At(c, "verifyOtp", "read")
  /\ IF otp = None \/ IsExpired(otp, q.on) \/ IsLocked(otp) THEN Leave(c)
     ELSE Goto(c, IF otp.code = q.arg THEN "delete" ELSE "fail", otp)
  /\ UNCHANGED otpVars

\* A wrong code counts: the row is set as it was read, with one attempt more.
SaveFailedAttempt(c) ==
  /\ At(c, "verifyOtp", "fail")
  /\ otp' = RecordFailedAttempt(call[c].row) /\ Leave(c)
  /\ UNCHANGED <<minute, mailed, drawn, verified>>

\* The address's row goes, whichever code it holds by then.
DeleteOtp(c) ==
  /\ At(c, "verifyOtp", "delete")
  /\ otp' = None /\ verified' = verified \cup {call[c].arg} /\ Leave(c)
  /\ UNCHANGED <<minute, mailed, drawn>>

MinutePasses ==
  /\ minute < LastMinute /\ minute' = minute + 1
  /\ UNCHANGED <<otp, mailed, drawn, verified, call>>

OtpInit ==
  /\ minute = 0 /\ otp = None /\ mailed = {} /\ drawn = 0 /\ verified = {}

OtpStep(c) ==
  \/ PostOtpSend(c) \/ PostOtpVerify(c) \/ SendReadsOtp(c) \/ SaveOtp(c) \/ SendOtpEmail(c)
  \/ VerifyReadsOtp(c) \/ SaveFailedAttempt(c) \/ DeleteOtp(c)
=============================================================================
