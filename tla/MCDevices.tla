----------------------------- MODULE MCDevices -----------------------------
(***************************************************************************)
(* The dual role USB HAL, the fingerprint service and the charging         *)
(* control, which share no state: a behaviour is one of any of them, and   *)
(* the others rest in one of their first states.                           *)
(***************************************************************************)
EXTENDS UsbDualRole, Fingerprint, ChargingControl

VARIABLE service

\* A client of the first interface and one of the last.
MCVersion == [c \in {"a", "b"} |-> IF c = "a" THEN "1.0" ELSE "1.2"]

\* An owner who reaches the permanent lockout; one who is locked out twice; one whose
\* tracker's memory held something else; one who opens a second session; and one with two
\* fingers to enumerate.
MCOwners ==
  {[modes |-> {"none"}, templates |-> 0, attempts |-> 3, sessions |-> 1],
   [modes |-> {"none"}, templates |-> 0, attempts |-> 2, sessions |-> 1],
   [modes |-> {"timed", "permanent", "other"}, templates |-> 0, attempts |-> 1, sessions |-> 1],
   [modes |-> {"none"}, templates |-> 0, attempts |-> 1, sessions |-> 2],
   [modes |-> {"none"}, templates |-> 2, attempts |-> 0, sessions |-> 3]}

MCLimits == {<<1, 3>>, <<2, 2>>}

\* Port q is there only between the calls of the binder thread, without the client of the
\* first interface, and with one role.  The owners of the first two cases leave the session
\* open.  A lockout is not followed any further once its properties make an exception: the
\* first owner's after a collision, that of the others with one session when LockoutEnds
\* makes one too.
Within ==
  /\ "q" \in DOMAIN dualPorts =>
       dualPorts["q"] = "ufp" /\ binds = "idle" /\ mCallback_1_0 # "a"
  /\ owner.attempts > 1 /\ mSession = 1 => ~ mClosed
  /\ owner.attempts = 3 => ~ raced
  /\ owner.sessions = 1 /\ raced /\ muddled => mClosed

DevicesInit ==
  /\ service \in {"dual", "fingerprint", "charging"}
  /\ DualInit /\ FingerprintInit /\ ChargingInit
  /\ service # "fingerprint" => owner = (CHOOSE o \in MCOwners : TRUE)
  /\ service # "charging" => accessible = {}

DevicesNext ==
  /\ UNCHANGED service
  /\ \/ service = "dual" /\ DualNext /\ UNCHANGED <<fingerprintVars, chargingVars>>
     \/ service = "fingerprint" /\ FingerprintNext /\ UNCHANGED <<dualVars, chargingVars>>
     \/ service = "charging" /\ ChargingNext /\ UNCHANGED <<dualVars, fingerprintVars>>
  /\ Within'

\* No service's fairness asks for a step of it at rest: the constructor of the charging
\* control, which would always take one, is fair where it runs.
DevicesSpec ==
  /\ DevicesInit /\ [][DevicesNext]_<<service, dualVars, fingerprintVars, chargingVars>>
  /\ DualFairness /\ FingerprintFairness
  /\ WF_chargingVars(service = "charging" /\ tryAccess)
=============================================================================
