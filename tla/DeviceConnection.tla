--------------------------- MODULE DeviceConnection ---------------------------
(***************************************************************************)
(* How the nodes come to talk to the device: SbgDevice::connect, which     *)
(* looks for the baud rate the device uses and gives it the configured     *)
(* one, then the configuration of the device, then the main loop.  Each    *)
(* command may fail whether the device has carried it out or not; the      *)
(* nodes may be restarted at any moment, and the device may lose power.    *)
(*                                                                         *)
(* The device is external: a new baud rate takes effect when the device    *)
(* restarts, which saving its settings makes it do.                        *)
(***************************************************************************)
EXTENDS Naturals, Sequences

CONSTANTS
  Rates,       \* the baud rates of a serial port
  Configured,  \* uartConf.baudRate
  Fallbacks,   \* uartConf.fallbackBaudRates
  NotARate     \* in that list, a number that is none; for the host, no open port

ASSUME ConnectionAssumption ==
  /\ Configured \in Rates
  /\ NotARate \notin Rates
  /\ Fallbacks \in Seq(Rates \cup {NotARate})

VARIABLES
  conf,    \* the interface, the parameter confWithRos, and which node this is
  pc,      \* what the node is about to do
  tried,   \* how many of the fallback rates were tried
  host,    \* the rate of the host's open port
  heard,   \* the device information was received in this run (history)
  cycled,  \* the device lost power during this run (history)
  rate,    \* the rate the device uses
  ram,     \* its working setting of the rate
  flash    \* its saved setting of the rate

deviceVars == <<rate, ram, flash>>
vars == <<conf, pc, tried, host, heard, cycled, deviceVars>>

Configuration == [link : {"serial", "udp", "file"}, withRos : BOOLEAN, mag : BOOLEAN]

\* Commands reach the device and their answers come back.
Reaches == conf.link = "udp" \/ (conf.link = "serial" /\ host = rate)

\* sbg_device configures the device when confWithRos is set; sbg_device_mag does not.
Configures == conf.withRos /\ ~conf.mag

ConnectionTypeOK ==
  /\ conf \in Configuration
  /\ pc \in {"open", "info", "find", "getUart", "setUart", "saveUart", "reopen",
             "configure", "running", "stopped"}
  /\ tried \in 0..Len(Fallbacks)
  /\ host \in Rates \cup {NotARate}
  /\ heard \in BOOLEAN
  /\ cycled \in BOOLEAN
  /\ {rate, ram, flash} \subseteq Rates

-----------------------------------------------------------------------------
(***************************************************************************)
(* The nodes.                                                              *)
(***************************************************************************)

\* An exception ends the process.
Stop ==
  /\ pc' = "stopped"
  /\ host' = NotARate

\* connect opens the interface, and asks for the device information unless it
\* reads a file.
Open ==
  /\ pc = "open"
  /\ host' = Configured
  /\ pc' = IF conf.link = "file" THEN "configure" ELSE "info"
  /\ UNCHANGED <<conf, tried, heard, cycled, deviceVars>>

\* The port cannot be opened: each of the places that open one throws.
OpenFails ==
  /\ \/ pc \in {"open", "reopen"}
     \/ pc = "find" /\ tried < Len(Fallbacks) /\ Fallbacks[tried + 1] # NotARate
  /\ Stop
  /\ UNCHANGED <<conf, tried, heard, cycled, deviceVars>>

\* readDeviceInfo succeeds; a rate found by the discovery is replaced by the
\* configured one if the driver may configure the device.
ReadInfo ==
  /\ pc = "info"
  /\ Reaches
  /\ heard' = TRUE
  /\ pc' = IF tried > 0 /\ conf.withRos THEN "getUart" ELSE "configure"
  /\ UNCHANGED <<conf, tried, host, cycled, deviceVars>>

\* readDeviceInfo times out: over a serial port, the next rate is tried.
InfoTimesOut ==
  /\ pc = "info"
  /\ pc' = IF conf.link = "serial" THEN "find" ELSE "configure"
  /\ UNCHANGED <<conf, tried, host, heard, cycled, deviceVars>>

\* Any other error of readDeviceInfo starts no discovery, and stops none.
InfoFails ==
  /\ pc = "info"
  /\ pc' = IF tried > 0 THEN "find" ELSE "configure"
  /\ UNCHANGED <<conf, tried, host, heard, cycled, deviceVars>>

\* Mutant: the position in the list is left past its end.
FindPastEnd ==
  /\ pc = "find"
  /\ tried' = tried + 1
  /\ \/ /\ tried = Len(Fallbacks)
        /\ pc' = "configure"
        /\ UNCHANGED host
     \/ /\ tried < Len(Fallbacks)
        /\ \/ Fallbacks[tried + 1] = NotARate /\ UNCHANGED <<pc, host>>
           \/ Fallbacks[tried + 1] # NotARate /\ host' = Fallbacks[tried + 1] /\ pc' = "info"
  /\ UNCHANGED <<conf, heard, cycled, deviceVars>>

\* findCurrentDeviceBaudrate: the port is opened at the next fallback rate.
\* After the last one connect returns, whether or not the device was heard.
Find ==
  /\ pc = "find"
  /\ \/ /\ tried = Len(Fallbacks)
        /\ pc' = "configure"
        /\ UNCHANGED <<tried, host>>
     \/ /\ tried < Len(Fallbacks)
        /\ tried' = tried + 1
        /\ \/ Fallbacks[tried + 1] = NotARate /\ UNCHANGED <<pc, host>>
           \/ Fallbacks[tried + 1] # NotARate /\ host' = Fallbacks[tried + 1] /\ pc' = "info"
  /\ UNCHANGED <<conf, heard, cycled, deviceVars>>

\* setDeviceBaudrate reads the device's port, writes it with the configured rate,
\* saves the settings, and opens the host's port again.
GetUart ==
  /\ pc = "getUart"
  /\ Reaches
  /\ pc' = "setUart"
  /\ UNCHANGED <<conf, tried, host, heard, cycled, deviceVars>>

SetUartExecuted ==
  /\ Reaches
  /\ ram' = Configured
  /\ UNCHANGED <<rate, flash>>

SaveExecuted ==
  /\ Reaches
  /\ flash' = ram
  /\ rate' = ram
  /\ UNCHANGED ram

SetUart ==
  /\ pc = "setUart"
  /\ SetUartExecuted
  /\ pc' = "saveUart"
  /\ UNCHANGED <<conf, tried, host, heard, cycled>>

\* Mutant: the settings are not saved.
SaveUartNot ==
  /\ pc = "saveUart"
  /\ Reaches
  /\ pc' = "reopen"
  /\ UNCHANGED <<conf, tried, host, heard, cycled, deviceVars>>

SaveUart ==
  /\ pc = "saveUart"
  /\ SaveExecuted
  /\ pc' = "reopen"
  /\ UNCHANGED <<conf, tried, host, heard, cycled>>

\* Mutant: a failed command is only logged.
CommandFailsLogged ==
  /\ \/ pc = "getUart" /\ pc' = "setUart" /\ UNCHANGED deviceVars
     \/ pc = "setUart" /\ pc' = "saveUart" /\ (SetUartExecuted \/ UNCHANGED deviceVars)
     \/ pc = "saveUart" /\ pc' = "reopen" /\ (SaveExecuted \/ UNCHANGED deviceVars)
  /\ UNCHANGED <<conf, tried, host, heard, cycled>>

\* One of these commands fails, carried out or not.
CommandFails ==
  /\ \/ pc \in {"getUart", "setUart", "saveUart"} /\ UNCHANGED deviceVars
     \/ pc = "setUart" /\ SetUartExecuted
     \/ pc = "saveUart" /\ SaveExecuted
  /\ Stop
  /\ UNCHANGED <<conf, tried, heard, cycled>>

Reopen ==
  /\ pc = "reopen"
  /\ host' = Configured
  /\ pc' = "configure"
  /\ UNCHANGED <<conf, tried, heard, cycled, deviceVars>>

\* connect has returned: the configuration is applied, and possibly saved, if it
\* is to be; then the main loop starts.
Configure ==
  /\ pc = "configure"
  /\ \/ ~Configures /\ UNCHANGED deviceVars
     \/ Configures /\ Reaches /\ (SaveExecuted \/ UNCHANGED deviceVars)
  /\ pc' = "running"
  /\ UNCHANGED <<conf, tried, host, heard, cycled>>

\* Mutant: a configuration that failed is only logged.
ConfigureFailsLogged ==
  /\ pc = "configure"
  /\ Configures
  /\ pc' = "running"
  /\ UNCHANGED <<conf, tried, host, heard, cycled, deviceVars>>

\* applyConfiguration throws.
ConfigureFails ==
  /\ pc = "configure"
  /\ Configures
  /\ Stop
  /\ UNCHANGED <<conf, tried, heard, cycled, deviceVars>>

\* The node is started again, after it stopped or because it was killed.
Restart ==
  /\ pc' = "open"
  /\ tried' = 0
  /\ host' = NotARate
  /\ heard' = FALSE
  /\ cycled' = FALSE
  /\ UNCHANGED <<conf, deviceVars>>

\* The device loses power.
PowerCycle ==
  /\ ram' = flash
  /\ rate' = flash
  /\ cycled' = TRUE
  /\ UNCHANGED <<conf, pc, tried, host, heard, flash>>

Init ==
  /\ conf \in Configuration
  /\ pc = "open"
  /\ tried = 0
  /\ host = NotARate
  /\ heard = FALSE
  /\ cycled = FALSE
  /\ rate \in Rates
  /\ ram = rate
  /\ flash = rate

Progress ==
  \/ Open
  \/ OpenFails
  \/ ReadInfo
  \/ InfoTimesOut
  \/ InfoFails
  \/ Find
  \/ GetUart
  \/ SetUart
  \/ SaveUart
  \/ CommandFails
  \/ Reopen
  \/ Configure
  \/ ConfigureFails

Next == Progress \/ Restart \/ PowerCycle

Spec == Init /\ [][Next]_vars

\* The node's thread runs on, and each command function returns.
FairSpec == Spec /\ WF_vars(Progress)

-----------------------------------------------------------------------------
(***************************************************************************)
(* Properties.                                                             *)
(***************************************************************************)

\* A node that has heard the device, at whichever rate, still talks to it once it
\* runs, through the change of rate too, unless the device lost power before the
\* new rate was saved (setDeviceBaudrate does not ask again).
HeardMeansTalks == (pc = "running" /\ heard /\ ~cycled) => Reaches

\* A driver that configures the device never runs on an interface that does not
\* reach it, whatever connect did: applyConfiguration would have thrown.  What its
\* last save may do is restart the device at the configured rate, when an earlier
\* run had written that rate and not saved it.
ConfiguredMeansTalks == (pc = "running" /\ Configures) => (Reaches \/ rate = Configured)

\* A command or a port fails that need not, the device loses power, or the node
\* is killed.
Trouble ==
  \/ OpenFails
  \/ InfoFails
  \/ Reaches /\ (InfoTimesOut \/ CommandFails \/ ConfigureFails)
  \/ PowerCycle
  \/ Restart /\ pc # "stopped"

\* The rates the discovery tries.
Known == {Configured} \cup {Fallbacks[i] : i \in 1..Len(Fallbacks)}

\* Wherever the change of rate was cut short, the driver finds the device again:
\* once trouble is over, and if the driver is started again whenever it stopped,
\* it ends up running, with a device it talks to or, as above, one that uses the
\* configured rate (connect, setDeviceBaudrate).
ConnectsInTheEnd ==
  ( /\ Configures
    /\ conf.link # "file"
    /\ rate \in Known
    /\ <>[][~Trouble]_vars
    /\ []<>(pc # "stopped") )
  => <>[](pc = "running" /\ (Reaches \/ rate = Configured))
=============================================================================
