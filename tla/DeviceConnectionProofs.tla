------------------------ MODULE DeviceConnectionProofs ------------------------
(***************************************************************************)
(* Proofs about DeviceConnection, for all baud rates and all lists of      *)
(* fallback rates.                                                         *)
(***************************************************************************)
EXTENDS DeviceConnection, TLAPS

LEMMA FallbackRates ==
  /\ Len(Fallbacks) \in Nat
  /\ \A i \in 1..Len(Fallbacks) : Fallbacks[i] \in Rates \cup {NotARate}
  /\ Configured \in Rates
  BY ConnectionAssumption DEF ConnectionAssumption

LEMMA FindType ==
  ASSUME ConnectionTypeOK, Find
  PROVE  /\ pc' \in {"find", "info", "configure"}
         /\ tried' \in 0..Len(Fallbacks)
         /\ host' \in Rates \cup {NotARate}
         /\ pc' = "info" => tried' > 0
<1> USE FallbackRates DEF ConnectionTypeOK
<1>1. CASE tried = Len(Fallbacks)
  BY <1>1 DEF Find
<1>2. CASE tried < Len(Fallbacks)
  <2>1. tried + 1 \in 1..Len(Fallbacks)
    BY <1>2
  <2> QED
    BY <1>2, <2>1 DEF Find
<1> QED
  BY <1>1, <1>2

LEMMA TypeStep ==
  ASSUME ConnectionTypeOK, [Next]_vars
  PROVE  ConnectionTypeOK'
<1> USE FallbackRates DEF ConnectionTypeOK, deviceVars
<1>1. CASE Open
  BY <1>1 DEF Open
<1>2. CASE OpenFails
  BY <1>2 DEF OpenFails, Stop
<1>3. CASE ReadInfo
  BY <1>3 DEF ReadInfo
<1>4. CASE InfoTimesOut
  BY <1>4 DEF InfoTimesOut
<1>5. CASE InfoFails
  BY <1>5 DEF InfoFails
<1>6. CASE Find
  <2>1. UNCHANGED <<conf, heard, cycled, rate, ram, flash>>
    BY <1>6 DEF Find
  <2> QED
    BY <1>6, <2>1, FindType
<1>7. CASE GetUart
  BY <1>7 DEF GetUart
<1>8. CASE SetUart
  BY <1>8 DEF SetUart, SetUartExecuted
<1>9. CASE SaveUart
  BY <1>9 DEF SaveUart, SaveExecuted
<1>10. CASE CommandFails
  BY <1>10 DEF CommandFails, SetUartExecuted, SaveExecuted, Stop
<1>11. CASE Reopen
  BY <1>11 DEF Reopen
<1>12. CASE Configure
  BY <1>12 DEF Configure, SaveExecuted
<1>13. CASE ConfigureFails
  BY <1>13 DEF ConfigureFails, Stop
<1>14. CASE Restart
  <2>1. heard' \in BOOLEAN /\ cycled' \in BOOLEAN
    BY <1>14 DEF Restart
  <2>2. tried' \in 0..Len(Fallbacks)
    BY <1>14 DEF Restart
  <2> QED
    BY <1>14, <2>1, <2>2 DEF Restart
<1>15. CASE PowerCycle
  BY <1>15 DEF PowerCycle
<1>16. CASE UNCHANGED vars
  BY <1>16 DEF vars
<1> QED
  BY <1>1, <1>2, <1>3, <1>4, <1>5, <1>6, <1>7, <1>8, <1>9, <1>10, <1>11, <1>12, <1>13, <1>14, <1>15,
     <1>16 DEF Next, Progress

LEMMA TypeInit == Init => ConnectionTypeOK
<1> SUFFICES ASSUME Init PROVE ConnectionTypeOK
  OBVIOUS
<1>1. heard \in BOOLEAN /\ cycled \in BOOLEAN
  BY DEF Init
<1>2. tried \in 0..Len(Fallbacks)
  BY FallbackRates DEF Init
<1> QED
  BY <1>1, <1>2 DEF Init, ConnectionTypeOK

\* The nodes keep the types of their state: the discovery never reads past the
\* list of rates (SbgDevice::findCurrentDeviceBaudrate).
THEOREM TypeCorrect == Spec => []ConnectionTypeOK
<1>1. ConnectionTypeOK /\ [Next]_vars => ConnectionTypeOK'
  BY TypeStep
<1> QED
  BY <1>1, TypeInit, PTL DEF Spec
-----------------------------------------------------------------------------
(***************************************************************************)
(* The rates of the host and of the device.                                *)
(***************************************************************************)

\* The device uses the rate it saved, and may hold the configured one unsaved.
Settings == rate = flash /\ ram \in {Configured, flash}

\* Where the node is in connect tells whether it has heard the device.
Asked ==
  /\ heard => pc \notin {"open", "info", "find"}
  /\ (pc = "info" /\ tried = 0) => host = Configured

\* While the rate is being changed the device is reached at the old one, and has
\* the new one where the code takes it to.
Changing ==
  /\ pc \in {"getUart", "setUart", "saveUart"} => Reaches
  /\ pc \in {"getUart", "setUart", "saveUart", "reopen"} => conf.link # "file"
  /\ (pc = "saveUart" /\ ~cycled) => ram = Configured
  /\ (pc = "reopen" /\ ~cycled) => rate = Configured

\* A device that was heard is reached, and, if it is to be configured, uses the
\* configured rate, so that the save at the end of the configuration keeps it.
Talking ==
  /\ (pc \in {"configure", "running"} /\ heard /\ ~cycled) => Reaches
  /\ (pc = "configure" /\ heard /\ conf.withRos /\ ~cycled /\ conf.link = "serial")
       => rate = Configured
  /\ (pc = "running" /\ Configures) => (Reaches \/ rate = Configured)

RateInv == Settings /\ Asked /\ Changing /\ Talking

LEMMA RateStep ==
  ASSUME ConnectionTypeOK, RateInv, [Next]_vars
  PROVE  RateInv'
<1> USE DEF RateInv, Settings, Asked, Changing, Talking, Reaches, Configures, deviceVars
<1>1. CASE Open
  BY <1>1 DEF Open
<1>2. CASE OpenFails
  BY <1>2 DEF OpenFails, Stop
<1>3. CASE ReadInfo
  <2>1. CASE tried > 0 /\ conf.withRos
    BY <1>3, <2>1 DEF ReadInfo
  <2>2. CASE tried = 0
    BY <1>3, <2>2 DEF ReadInfo
  <2>3. CASE tried > 0 /\ ~conf.withRos
    BY <1>3, <2>3 DEF ReadInfo
  <2> QED
    BY <2>1, <2>2, <2>3 DEF ConnectionTypeOK
<1>4. CASE InfoTimesOut
  BY <1>4 DEF InfoTimesOut
<1>5. CASE InfoFails
  BY <1>5 DEF InfoFails
<1>6. CASE Find
  <2>1. pc = "find" /\ UNCHANGED <<conf, heard, cycled, rate, ram, flash>>
    BY <1>6 DEF Find
  <2>2. pc' \in {"find", "info", "configure"} /\ (pc' = "info" => tried' > 0)
    BY <1>6, FindType
  <2>3. ~heard'
    BY <2>1
  <2> QED
    BY <2>1, <2>2, <2>3
<1>7. CASE GetUart
  BY <1>7 DEF GetUart
<1>8. CASE SetUart
  BY <1>8 DEF SetUart, SetUartExecuted
<1>9. CASE SaveUart
  BY <1>9 DEF SaveUart, SaveExecuted
<1>10. CASE CommandFails
  BY <1>10 DEF CommandFails, SetUartExecuted, SaveExecuted, Stop
<1>11. CASE Reopen
  BY <1>11 DEF Reopen, ConnectionTypeOK, Configuration
<1>12. CASE Configure
  BY <1>12 DEF Configure, SaveExecuted, ConnectionTypeOK, Configuration
<1>13. CASE ConfigureFails
  BY <1>13 DEF ConfigureFails, Stop
<1>14. CASE Restart
  BY <1>14 DEF Restart
<1>15. CASE PowerCycle
  BY <1>15 DEF PowerCycle
<1>16. CASE UNCHANGED vars
  BY <1>16 DEF vars
<1> QED
  BY <1>1, <1>2, <1>3, <1>4, <1>5, <1>6, <1>7, <1>8, <1>9, <1>10, <1>11, <1>12, <1>13, <1>14, <1>15,
     <1>16 DEF Next, Progress

LEMMA RateInit == Init => RateInv
  BY DEF Init, RateInv, Settings, Asked, Changing, Talking

LEMMA RateCorrect == Spec => []RateInv
<1>1. ConnectionTypeOK /\ [Next]_vars => ConnectionTypeOK'
  BY TypeStep
<1>2. ConnectionTypeOK /\ RateInv /\ [Next]_vars => RateInv'
  BY RateStep
<1> QED
  BY <1>1, <1>2, TypeInit, RateInit, PTL DEF Spec

\* A node that has heard the device and runs talks to it, whatever rates the
\* discovery went through (SbgDevice::connect, setDeviceBaudrate).
THEOREM HeardTalks == Spec => []HeardMeansTalks
<1>1. RateInv => HeardMeansTalks
  BY DEF RateInv, Talking, HeardMeansTalks
<1> QED
  BY <1>1, RateCorrect, PTL

\* A driver that has configured the device talks to it, or leaves it at the
\* configured rate (SbgDevice::initDeviceForReceivingData).
THEOREM ConfiguredTalks == Spec => []ConfiguredMeansTalks
<1>1. RateInv => ConfiguredMeansTalks
  BY DEF RateInv, Talking, ConfiguredMeansTalks
<1> QED
  BY <1>1, RateCorrect, PTL
=============================================================================
