----------------------------- MODULE RateLimits -----------------------------
(***************************************************************************)
(* The two request limiters of internal/infrastructure/cache/redis.        *)
(*                                                                         *)
(* ip_rate_limit.go: a counter per address and scope.  INCR is atomic, the *)
(* EXPIRE that opens the window is a second call, made by whoever counted  *)
(* to one.  Every caller (Login, Register, CreateGuestSession, Execute)    *)
(* lets the request pass when the limiter answers with an error.           *)
(*                                                                         *)
(* otp_rate_limit.go: ResendEmailOTP and ForgotPassword (account.go) check *)
(* a cooldown and a daily counter before they issue a code and write both  *)
(* after it.  One e-mail address and one scope.                            *)
(*                                                                         *)
(* Time is the expiry of a key, at any moment.  A fault is an error answer *)
(* of Redis, with the command executed or not, or the death of the process *)
(* of a call.                                                              *)
(***************************************************************************)
EXTENDS Naturals, FiniteSets

CONSTANTS
    Requests,     \* requests that pass the address limiter, once each
    Addresses,    \* pairs of an address and a scope
    AddressOf,    \* AddressOf[r]
    Limit,        \* limitFor(scope)
    Senders,      \* API calls that want to send a code, one after the other
    OtpCap,       \* otpDailyCapCount
    MaxFaults     \* bound: faults of either limiter

ASSUME LimiterAssumption ==
    /\ AddressOf \in [Requests -> Addresses]
    /\ Limit \in Nat \ {0} /\ OtpCap \in Nat \ {0} /\ MaxFaults \in Nat
    /\ IsFiniteSet(Senders)

VARIABLES
    count,      \* count[a]: the address counter, 0 if the key is not there
    window,     \* addresses whose counter has a TTL
    gate,       \* gate[r]: how far request r is with the limiter
    unbounded,  \* history: addresses whose EXPIRE was lost
    cooldown,   \* whether the cooldown key is there
    daily,      \* the daily counter; its TTL is set by the first INCR
    sender,     \* sender[s]: how far call s is
    sent,       \* history: codes created since the daily counter was last gone
    uncounted,  \* history: sends the daily counter never heard of
    limitFaults

ipVars == <<count, window, gate, unbounded>>
otpLimitVars == <<cooldown, daily, sender, sent, uncounted>>
limitVars == <<ipVars, otpLimitVars, limitFaults>>

GateStep == {"arrived", "first", "admitted", "refused", "unchecked", "dead"}
SenderStep == {"idle", "cool", "checked", "created"}

LimitTypeOK ==
    /\ count \in [Addresses -> Nat]
    /\ window \subseteq Addresses
    /\ gate \in [Requests -> GateStep]
    /\ unbounded \subseteq Addresses
    /\ cooldown \in BOOLEAN
    /\ daily \in Nat /\ sent \in Nat /\ uncounted \in Nat
    /\ sender \in [Senders -> SenderStep]
    /\ limitFaults \in 0 .. MaxFaults

LimitInit ==
    /\ count = [a \in Addresses |-> 0]
    /\ window = {}
    /\ gate = [r \in Requests |-> "arrived"]
    /\ unbounded = {}
    /\ cooldown = FALSE
    /\ daily = 0 /\ sent = 0 /\ uncounted = 0
    /\ sender = [s \in Senders |-> "idle"]
    /\ limitFaults = 0

LimitFault == limitFaults < MaxFaults /\ limitFaults' = limitFaults + 1
GateGoto(r, step) == gate' = [gate EXCEPT ![r] = step]
SenderGoto(s, step) == sender' = [sender EXCEPT ![s] = step]

-----------------------------------------------------------------------------
\* IPRateLimitService.Allow

\* Mutant: the window is opened by the first request that is refused.
IncrOpensLate(r) ==
    LET a == AddressOf[r] IN
    /\ gate[r] = "arrived"
    /\ count' = [count EXCEPT ![a] = @ + 1]
    /\ GateGoto(r, IF count'[a] = Limit + 1 THEN "first"
                   ELSE IF count'[a] > Limit THEN "refused" ELSE "admitted")
    /\ UNCHANGED <<window, unbounded, limitFaults>>

Incr(r) ==
    LET a == AddressOf[r] IN
    /\ gate[r] = "arrived"
    /\ count' = [count EXCEPT ![a] = @ + 1]
    /\ \/ count'[a] = 1 /\ GateGoto(r, "first")
       \/ count'[a] \in 2 .. Limit /\ GateGoto(r, "admitted")
       \/ count'[a] > 1 /\ count'[a] > Limit /\ GateGoto(r, "refused")
    /\ UNCHANGED <<window, unbounded, limitFaults>>

\* An INCR that executed although its answer was an error has no EXPIRE.
IncrFails(r) ==
    LET a == AddressOf[r] IN
    /\ gate[r] = "arrived" /\ LimitFault
    /\ GateGoto(r, "unchecked")
    /\ \/ UNCHANGED <<count, unbounded>>
       \/ /\ count' = [count EXCEPT ![a] = @ + 1]
          /\ unbounded' = IF count[a] = 0 THEN unbounded \cup {a} ELSE unbounded
    /\ UNCHANGED window

OpenWindow(r) ==
    /\ gate[r] = "first"
    /\ window' = window \cup {AddressOf[r]}
    /\ GateGoto(r, "admitted")
    /\ UNCHANGED <<count, unbounded, limitFaults>>

OpenWindowFails(r) ==
    /\ gate[r] = "first" /\ LimitFault
    /\ GateGoto(r, "unchecked") \/ GateGoto(r, "dead")
    /\ \/ window' = window \cup {AddressOf[r]} /\ UNCHANGED unbounded
       \/ unbounded' = unbounded \cup {AddressOf[r]} /\ UNCHANGED window
    /\ UNCHANGED count

WindowEnds(a) ==
    /\ a \in window
    /\ window' = window \ {a}
    /\ count' = [count EXCEPT ![a] = 0]
    /\ UNCHANGED <<gate, unbounded, limitFaults>>

-----------------------------------------------------------------------------
\* ResendEmailOTP and ForgotPassword around OTPRateLimitService

\* CheckAndConsume reads the cooldown, then the daily counter; it consumes
\* nothing.
CheckCooldown(s) ==
    /\ sender[s] = "idle" /\ ~cooldown
    /\ SenderGoto(s, "cool")
    /\ UNCHANGED <<cooldown, daily, sent, uncounted, limitFaults>>

\* Mutant: one send more than the cap.
CheckDailyOffByOne(s) ==
    /\ sender[s] = "cool"
    /\ SenderGoto(s, IF daily > OtpCap THEN "idle" ELSE "checked")
    /\ UNCHANGED <<cooldown, daily, sent, uncounted, limitFaults>>

CheckDaily(s) ==
    /\ sender[s] = "cool"
    /\ \/ daily >= OtpCap /\ SenderGoto(s, "idle")
       \/ daily < OtpCap /\ SenderGoto(s, "checked")
    /\ UNCHANGED <<cooldown, daily, sent, uncounted, limitFaults>>

\* No user of this address, or an error before the code is stored.
GiveUp(s) ==
    /\ sender[s] = "checked"
    /\ SenderGoto(s, "idle")
    /\ UNCHANGED <<cooldown, daily, sent, uncounted, limitFaults>>

CreateToken(s) ==
    /\ sender[s] = "checked"
    /\ sent' = sent + 1
    /\ SenderGoto(s, "created")
    /\ UNCHANGED <<cooldown, daily, uncounted, limitFaults>>

SetCooldown(s) ==
    /\ sender[s] = "created"
    /\ cooldown' = TRUE
    /\ daily' = daily + 1
    /\ SenderGoto(s, "idle")
    /\ UNCHANGED <<sent, uncounted, limitFaults>>

\* The error is logged and the e-mail goes out; a pipeline is not a
\* transaction, so the cooldown may be set and the counter not.
SetCooldownFails(s) ==
    /\ sender[s] = "created" /\ LimitFault
    /\ cooldown' \in {cooldown, TRUE}
    /\ uncounted' = uncounted + 1
    /\ SenderGoto(s, "idle")
    /\ UNCHANGED <<daily, sent>>

CooldownEnds ==
    /\ cooldown
    /\ cooldown' = FALSE
    /\ UNCHANGED <<daily, sender, sent, uncounted, limitFaults>>

\* EXPIRENX: 24 hours after the first send it counted.
DayEnds ==
    /\ daily > 0
    /\ daily' = 0 /\ sent' = 0
    /\ UNCHANGED <<cooldown, sender, uncounted, limitFaults>>

-----------------------------------------------------------------------------
IpStep ==
    \/ \E r \in Requests : Incr(r) \/ IncrFails(r) \/ OpenWindow(r) \/ OpenWindowFails(r)
    \/ \E a \in Addresses : WindowEnds(a)

OtpStep ==
    \/ \E s \in Senders :
          \/ CheckCooldown(s) \/ CheckDaily(s) \/ GiveUp(s)
          \/ CreateToken(s) \/ SetCooldown(s) \/ SetCooldownFails(s)
    \/ CooldownEnds \/ DayEnds

LimitNext ==
    \/ IpStep /\ UNCHANGED otpLimitVars
    \/ OtpStep /\ UNCHANGED ipVars

\* A request goes on with its EXPIRE; Redis drops a key when its TTL is over.
LimitFairness ==
    /\ \A r \in Requests : WF_limitVars(OpenWindow(r) /\ UNCHANGED otpLimitVars)
    /\ \A a \in Addresses : WF_limitVars(WindowEnds(a) /\ UNCHANGED otpLimitVars)

LimitSpec == LimitInit /\ [][LimitNext]_limitVars

-----------------------------------------------------------------------------
(* Properties *)

\* The cap is one of a window: a counter that has begun to count goes back to
\* zero, unless the EXPIRE of its first request was lost, and then it never
\* does.  Allow opens the window only when it counted to one.
IpWindowsClose ==
    \A a \in Addresses : count[a] > 0 ~> (count[a] = 0 \/ a \in unbounded)

\* Codes go out between the check and the SetCooldown of a call.  In the life
\* of a daily counter the calls that are under way together exceed the cap by
\* less than their number; a SetCooldown that failed costs one more.
OtpSendsBounded == sent <= OtpCap + Cardinality(Senders) - 1 + uncounted
=============================================================================
