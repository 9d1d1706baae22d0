------------------------- MODULE MCTypecAndSensors -------------------------
(***************************************************************************)
(* The Type-C HAL, the radio config wrapper and the sensors sub-HAL, which *)
(* share no state: a behaviour is one of any of them, and the others rest  *)
(* in one of their first states.                                           *)
(***************************************************************************)
EXTENDS UsbTypec, RadioConfig, Sensors

VARIABLE service

MCRoleSwitches == {<<"data", "host">>}

\* The Type-C HAL is checked with one port in use, a 1.0 client that comes and goes,
\* every kind of call but switches to source, and one uevent in the socket; and with
\* two ports, whose partners are devices, a 1.1 client that stays, and switches of one
\* port to source.
Within ==
  /\ service = "one_port" =>
       /\ port["q"].partner = "absent" /\ Len(uevents) <= 1
       /\ mCallback # "1.1" /\ binds.role # "source"
  /\ service = "two_ports" =>
       /\ \A p \in Ports : port[p].data = "host"
       /\ mCallback # "1.0" /\ binds.role # "sink"
       /\ binds.pc \notin {"report", "kill"}
       /\ binds.pc = "notify" => binds.role = "source"

ThreeInit ==
  /\ service \in {"one_port", "two_ports", "config", "sensors"}
  /\ TypecInit /\ ConfigInit /\ SensorsInit
  /\ service # "config" => ~ realV1_1

ThreeNext ==
  /\ UNCHANGED service
  /\ \/ /\ service \in {"one_port", "two_ports"}
        /\ TypecNext /\ UNCHANGED <<configVars, sensorsVars>>
     \/ service = "config" /\ ConfigNext /\ UNCHANGED <<typecVars, sensorsVars>>
     \/ service = "sensors" /\ SensorsNext /\ UNCHANGED <<typecVars, configVars>>
  /\ Within'

\* The fairness of the Type-C HAL asks for no step of it at rest.
ThreeSpec ==
  /\ ThreeInit /\ [][ThreeNext]_<<service, typecVars, configVars, sensorsVars>>
  /\ TypecFairness
=============================================================================
