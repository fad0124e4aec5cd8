---------------------------------- MODULE Totp --------------------------------
(***************************************************************************)
(* TotpSecret (src/src/totp.rs): an authenticator app is enrolled with a   *)
(* URI, shows codes by its own clock, and the server checks them by        *)
(* another.  Either clock may be moved either way, to before the epoch     *)
(* too.                                                                    *)
(***************************************************************************)
EXTENDS TotpEnrollment

CONSTANTS
  Hmac(_),     \* HMAC-SHA1 of a counter under the shared secret: 20 bytes
  Secret,      \* the Base32 form of that secret
  Names,       \* issuers and accounts
  Period,      \* seconds per step; 0 would divide by zero
  Window,      \* steps accepted either side
  Digits,      \* digits of the codes the app is enrolled for
  MinTime,     \* the earliest time the clocks can show, before the epoch ...
  MaxTime,     \* ... and the latest
  MaxCounter   \* u64::MAX

ASSUME UriAssumption ==
  /\ Names \subseteq Seq(Unreserved \cup DOMAIN Hex) /\ Secret \in Unreserved
  /\ Period \in DOMAIN Decimal /\ Digits \in DOMAIN Decimal
ASSUME PeriodAssumption == Period \in Nat \ {0}
ASSUME WindowAssumption == Window \in Nat
ASSUME CounterAssumption ==
  /\ MaxTime \in Nat /\ MaxCounter \in Nat /\ MaxTime \div Period <= MaxCounter
  /\ MinTime \in Int /\ MinTime <= 0

DEFAULT_DIGITS == 6
DEFAULT_WINDOW == 1

(***************************************************************************)
(* RFC 4226 dynamic truncation: four bytes at an offset given by the last  *)
(* half byte, without the sign bit.                                        *)
(***************************************************************************)
bin_code(digest) ==
  LET offset == digest[Len(digest)] % 16
      byte(i) == digest[offset + 1 + i]
  IN  (byte(0) % 128) * 2^24 + byte(1) * 2^16 + byte(2) * 2^8 + byte(3)

(***************************************************************************)
(* 10u32.pow(digits.min(10)), which wraps at ten digits in a release       *)
(* build: 10^10 mod 2^32.                                                  *)
(***************************************************************************)
modulus(digits) == IF digits < 10 THEN 10^digits ELSE 1410065408

(***************************************************************************)
(* A formatted code: its value, and its length after padding with zeros    *)
(* to the width (a single digit at width 0).                               *)
(***************************************************************************)
hotp(counter, digits) ==
  [value |-> bin_code(Hmac(counter)) % modulus(digits),
   len |-> IF digits = 0 THEN 1 ELSE digits]

at(unix_secs, period, digits) == hotp(unix_secs \div period, digits)

\* Mutant of seconds_remaining: nothing remains at the start of a period.
seconds_remaining_wrapped(unix_secs, period) == (period - (unix_secs % period)) % period

(***************************************************************************)
(* For countdowns: the seconds until the code changes.                     *)
(***************************************************************************)
seconds_remaining(unix_secs, period) == period - (unix_secs % period)

(***************************************************************************)
(* A clock before the epoch reads as 0.                                    *)
(***************************************************************************)
now_unix_secs(clock) == IF clock < 0 THEN 0 ELSE clock

\* Mutant of Steps: the last step of the window is left out.
StepsExclusive(counter_now, window) ==
  {counter_now + delta : delta \in -window..(window - 1)} \cap 0..MaxCounter

\* Mutant of Steps: the counter wraps around.
StepsWrapping(counter_now, window) ==
  {(counter_now + delta) % (MaxCounter + 1) : delta \in -window..window}

(***************************************************************************)
(* The counters of the window, without those checked_add_signed refuses.   *)
(***************************************************************************)
Steps(counter_now, window) ==
  {counter_now + delta : delta \in -window..window} \cap 0..MaxCounter

(***************************************************************************)
(* verify_with_window compares with six-digit codes, whatever was          *)
(* enrolled; constant_time_eq is false for different lengths.              *)
(***************************************************************************)
verify_with_window(candidate, unix_secs, period, window) ==
  \E c \in Steps(unix_secs \div period, window) : hotp(c, DEFAULT_DIGITS) = candidate

verify(candidate, unix_secs, period) ==
  verify_with_window(candidate, unix_secs, period, DEFAULT_WINDOW)

VARIABLES
  server,    \* the server's clock
  device,    \* the authenticator's clock
  enrolled,  \* the issuer and account the server enrolled, or None
  app,       \* what the app made of the URI, or None
  code,      \* the code last read off the app, or None
  readAt     \* the time the app computed it for

vars == <<server, device, enrolled, app, code, readAt>>

Init ==
  /\ server \in {MinTime, MaxTime}
  /\ device \in {MinTime, MaxTime}
  /\ enrolled = None
  /\ app = None
  /\ code = None
  /\ readAt = 0

ServerClock ==
  /\ \E step \in {-1, 1} : server' = server + step
  /\ server' \in MinTime..MaxTime
  /\ UNCHANGED <<device, enrolled, app, code, readAt>>

DeviceClock ==
  /\ \E step \in {-1, 1} : device' = device + step
  /\ device' \in MinTime..MaxTime
  /\ UNCHANGED <<server, enrolled, app, code, readAt>>

(***************************************************************************)
(* The user scans the enrollment URI.                                      *)
(***************************************************************************)
Enroll(account, issuer) ==
  /\ app = None
  /\ enrolled' = [account |-> account, issuer |-> issuer]
  /\ app' = scan(enrollment_uri(Secret, account, issuer, Period, Digits))
  /\ UNCHANGED <<server, device, code, readAt>>

(***************************************************************************)
(* The user reads the code off the app.                                    *)
(***************************************************************************)
Read ==
  /\ app # None
  /\ code' = at(now_unix_secs(device), app.period, app.digits)
  /\ readAt' = now_unix_secs(device)
  /\ UNCHANGED <<server, device, enrolled, app>>

Next ==
  \/ ServerClock
  \/ DeviceClock
  \/ \E account, issuer \in Names : Enroll(account, issuer)
  \/ Read

Spec == Init /\ [][Next]_vars

-----------------------------------------------------------------------------
(***************************************************************************)
(* What the app reads out of the URI is what the server put into it: no    *)
(* byte of an issuer or account name, a separator or a percent sign        *)
(* included, is taken for a part of the URI or lost.                       *)
(***************************************************************************)
EnrollmentSurvives ==
  app # None =>
    app = [account |-> enrolled.account, label_issuer |-> enrolled.issuer,
           issuer |-> enrolled.issuer, secret |-> <<Secret>>,
           period |-> Period, digits |-> Digits, algorithm |-> <<"SHA1">>]

(***************************************************************************)
(* Drift up to Window whole periods is absorbed, in both directions and    *)
(* wherever in their steps the two clocks are, at both ends of the range   *)
(* of the counter and before the epoch too.                                *)
(***************************************************************************)
DriftTolerated ==
  (code # None /\ server - readAt \in -(Window * Period)..(Window * Period))
    => verify_with_window(code, now_unix_secs(server), Period, Window)

(***************************************************************************)
(* A code is dead Window + 1 periods after the time it was computed for,   *)
(* and as long before, by the reading of the server's clock: no counter    *)
(* arithmetic at the ends of the range lets it back in.                    *)
(***************************************************************************)
CodeExpires ==
  LET skew == now_unix_secs(server) - readAt
      span == (Window + 1) * Period
  IN  (code # None /\ skew \notin -(span - 1)..(span - 1))
        => ~verify_with_window(code, now_unix_secs(server), Period, Window)

(***************************************************************************)
(* The countdown of seconds_remaining never promises too much or too       *)
(* little: the code the app shows now is the one it shows until the last   *)
(* of those seconds, and the step after that is the next one.              *)
(***************************************************************************)
CountdownExact ==
  LET secs == now_unix_secs(device)
      left == seconds_remaining(secs, Period)
  IN  /\ left > 0
      /\ (secs + left - 1) \div Period = secs \div Period
      /\ (secs + left) \div Period = secs \div Period + 1

(***************************************************************************)
(* The test verify_accepts_current_code: what at() shows now, verify()     *)
(* accepts now.                                                            *)
(***************************************************************************)
CurrentCodeAccepted ==
  (code # None /\ readAt = now_unix_secs(server)) => verify(code, readAt, Period)
=============================================================================
