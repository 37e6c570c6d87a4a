------------------------- MODULE ConfigApplierProofs -------------------------
(***************************************************************************)
(* Proofs about ConfigApplier, for every configuration and every device.   *)
(***************************************************************************)
EXTENDS ConfigApplier, TLAPS

\* Where the run stands in Order.
Position ==
  /\ phase \in {"get", "got", "set", "applied"} => step \in 1..Len(Order)
  /\ phase \in {"save", "saved", "done"} => step = Len(Order) + 1

TypeInv == ApplierTypeOK /\ Position

LEMMA OrderKeys ==
  /\ Len(Order) \in Nat
  /\ \A i \in 1..Len(Order) : Order[i] \in Keys /\ Want[Order[i]] \in Values
  /\ \A k \in Keys : \E i \in 1..Len(Order) : k = Order[i]
  BY ApplierAssumption DEF ApplierAssumption

\* The fields of a command.
LEMMA CommandFields ==
  ASSUME NEW c \in Command
  PROVE  /\ c.op \in {"get", "set", "save"}
         /\ c.op \in {"get", "set"} => c.key \in Keys
         /\ c.op = "set" => c.val \in Values
  BY DEF Command, GetCmd, SetCmd, SaveCmd

\* Going on to a setting, to the save or to the end of the run.
LEMMA GoToType ==
  ASSUME NEW i \in 1..(Len(Order) + 1), NEW written \in BOOLEAN, GoTo(i, written)
  PROVE  /\ phase' \in {"get", "save", "done"}
         /\ step' \in 1..(Len(Order) + 1)
         /\ reboot_needed_' \in BOOLEAN
         /\ Position'
  BY OrderKeys DEF GoTo, Position

LEMMA CompareType ==
  ASSUME TypeInv, phase = "got", NEW v, Compare(v)
  PROVE  /\ phase' \in {"get", "set", "save", "done"}
         /\ step' \in 1..(Len(Order) + 1)
         /\ reboot_needed_' \in BOOLEAN
         /\ Position'
<1> USE OrderKeys DEF TypeInv, ApplierTypeOK
<1>1. step \in 1..Len(Order)
  BY DEF Position
<1>2. CASE GoTo(step + 1, reboot_needed_)
  BY <1>1, <1>2, GoToType
<1>3. CASE phase' = "set" /\ UNCHANGED <<step, reboot_needed_>>
  BY <1>1, <1>3 DEF Position
<1> QED
  BY <1>2, <1>3 DEF Compare

LEMMA ThrowType ==
  ASSUME TypeInv, Throw
  PROVE  /\ phase' = "threw"
         /\ step' \in 1..(Len(Order) + 1)
         /\ reboot_needed_' \in BOOLEAN
         /\ Position'
  BY DEF Throw, TypeInv, ApplierTypeOK, Position

\* What each decision leaves of the applier's state.
LEMMA DecideType ==
  ASSUME TypeInv, Decide
  PROVE  /\ phase' \in {"get", "set", "save", "done", "threw"}
         /\ step' \in 1..(Len(Order) + 1)
         /\ reboot_needed_' \in BOOLEAN
         /\ Position'
         /\ UNCHANGED <<lostAt, wasClean>>
<1> USE OrderKeys DEF TypeInv, ApplierTypeOK
<1>1. CASE GetReturned
  <2>1. phase = "got" /\ step \in 1..Len(Order) /\ UNCHANGED <<lostAt, wasClean>>
    BY <1>1 DEF GetReturned, Position
  <2>2. \/ \E v : Compare(v)
        \/ GoTo(step + 1, reboot_needed_)
        \/ Throw
    BY <1>1 DEF GetReturned
  <2> QED
    BY <2>1, <2>2, CompareType, GoToType, ThrowType
<1>2. CASE SetReturned
  <2>1. phase = "applied" /\ step \in 1..Len(Order) /\ UNCHANGED <<lostAt, wasClean>>
    BY <1>2 DEF SetReturned, Position
  <2>2. \/ GoTo(step + 1, TRUE)
        \/ GoTo(step + 1, reboot_needed_)
        \/ Throw
    BY <1>2 DEF SetReturned
  <2>3. CASE \E written \in BOOLEAN : GoTo(step + 1, written)
    BY <2>1, <2>3, GoToType
  <2>4. CASE Throw
    BY <2>1, <2>4, ThrowType
  <2> QED
    BY <2>2, <2>3, <2>4
<1>3. CASE SaveReturned
  BY <1>3 DEF SaveReturned, Position
<1> QED
  BY <1>1, <1>2, <1>3 DEF Decide
\* One step keeps the types.
LEMMA TypeStep ==
  ASSUME TypeInv, [Next]_allVars
  PROVE  TypeInv'
<1> USE DEF TypeInv
<1>1. CASE Call
  <2>1. PICK c \in Command : Issue(c) /\ Calls(c)
    BY <1>1 DEF Call
  <2>2. /\ phase' \in {"got", "applied", "saved"}
        /\ UNCHANGED <<step, reboot_needed_, lostAt, wasClean>>
    BY <2>1 DEF Calls
  <2>3. Position'
    BY <2>1, <2>2 DEF Calls, Position
  <2>4. /\ status' = "busy" /\ call' \in Command /\ done' = FALSE /\ heard' = {}
        /\ UNCHANGED <<reply, ram, flash>>
    BY <2>1 DEF Issue, deviceVars
  <2> QED
    BY <2>2, <2>3, <2>4 DEF ApplierTypeOK, DeviceTypeOK
<1>2. CASE Continue
  <2>1. Decide /\ UNCHANGED <<status, call, reply, done, heard, ram, flash>>
    BY <1>2 DEF Continue, serviceVars
  <2> QED
    BY <2>1, DecideType DEF ApplierTypeOK, DeviceTypeOK
<1>3. CASE Execute /\ UNCHANGED applierVars
  <2>1. heard' \subseteq Values /\ done' \in BOOLEAN
    BY <1>3, CommandFields DEF Execute, ApplierTypeOK, DeviceTypeOK
  <2>2. ram' \in [Keys -> Values] /\ flash' \in [Keys -> Values]
    BY <1>3, CommandFields DEF Execute, RamAfter, FlashAfter, ApplierTypeOK, DeviceTypeOK
  <2>3. UNCHANGED <<status, call, reply, applierVars>>
    BY <1>3 DEF Execute
  <2> QED
    BY <2>1, <2>2, <2>3 DEF ApplierTypeOK, DeviceTypeOK, Position, applierVars
<1>4. CASE Answer
  <2>1. status' = "idle" /\ reply' \in Reply /\ UNCHANGED <<call, done, heard, ram, flash, applierVars>>
    BY <1>4 DEF Answer, Return, deviceVars
  <2> QED
    BY <2>1 DEF ApplierTypeOK, DeviceTypeOK, Position, applierVars
<1>5. CASE Restart
  <2>1. /\ phase' \in {"get", "save", "done"} /\ step' \in 1..(Len(Order) + 1)
        /\ reboot_needed_' \in BOOLEAN /\ Position'
    <3>1. GoTo(1, FALSE)
      BY <1>5 DEF Restart, StartRun
    <3>2. 1 \in 1..(Len(Order) + 1)
      BY OrderKeys
    <3>3. FALSE \in BOOLEAN
      OBVIOUS
    <3> QED
      BY ONLY <3>1, <3>2, <3>3, GoToType
  <2>2. lostAt' \in 0..(Len(Order) + 1) /\ wasClean' \in BOOLEAN
    BY <1>5, OrderKeys DEF Restart, StartRun
  <2>3. status' = "idle" /\ UNCHANGED <<call, reply, done, heard, ram, flash>>
    BY <1>5 DEF Restart, deviceVars
  <2> QED
    BY <2>1, <2>2, <2>3 DEF ApplierTypeOK, DeviceTypeOK
<1>6. CASE DeviceReset
  BY <1>6, OrderKeys DEF DeviceReset, PowerCycle, ApplierTypeOK, DeviceTypeOK, Position
<1>7. CASE UNCHANGED allVars
  BY <1>7 DEF allVars, serviceVars, applierVars, ApplierTypeOK, DeviceTypeOK, Position
<1> QED
  BY <1>1, <1>2, <1>3, <1>4, <1>5, <1>6, <1>7 DEF Next

LEMMA TypeInit == Init => TypeInv
<1> SUFFICES ASSUME Init PROVE TypeInv
  OBVIOUS
<1>1. call \in Command /\ reply \in Reply
  BY DEF Init, ServiceInit, DeviceInit, Command, Reply, Code
<1>2. /\ done \in BOOLEAN /\ heard \subseteq Values
      /\ ram \in [Keys -> Values] /\ flash \in [Keys -> Values]
  BY DEF Init, ServiceInit, DeviceInit
<1>3. step \in 1..(Len(Order) + 1) /\ phase \in {"get", "done"} /\ Position
  BY OrderKeys, ApplierAssumption DEF ApplierAssumption, Init, Position
<1>4. reboot_needed_ \in BOOLEAN /\ wasClean \in BOOLEAN
  BY DEF Init
<1>5. lostAt \in 0..(Len(Order) + 1)
  <2>1. lostAt = 0
    BY DEF Init
  <2> QED
    BY <2>1, OrderKeys
<1>6. status \in {"idle", "busy"}
  BY DEF Init, ServiceInit
<1> QED
  BY <1>1, <1>2, <1>3, <1>4, <1>5, <1>6 DEF TypeInv, ApplierTypeOK, DeviceTypeOK

\* The applier never leaves the types of its state, nor the order of its steps
\* (ConfigApplier::applyConfiguration).
THEOREM TypeCorrect == Spec => []ApplierTypeOK
<1>1. TypeInv /\ [Next]_allVars => TypeInv'
  BY TypeStep
<1> QED
  BY <1>1, TypeInit, PTL DEF Spec, TypeInv
-----------------------------------------------------------------------------
(***************************************************************************)
(* Each command is the one the applier has called, and what it returned    *)
(* tells what happened on the device.                                      *)
(***************************************************************************)

InHand ==
  /\ status = "busy" => phase \in {"got", "applied", "saved"}
  /\ phase = "got" => call = GetCmd(Order[step])
  /\ phase = "applied" => call = SetCmd(Order[step], Want[Order[step]])
  /\ phase = "saved" => call = SaveCmd

Verdict ==
  /\ done => ~IsRefused(call)
  /\ (status = "idle" /\ phase \in {"got", "applied", "saved"}) =>
       /\ reply.code = "NO_ERROR" => done /\ (call.op = "get" => reply.val \in heard)
       /\ reply.code = "INVALID_PARAMETER" => IsRefused(call)

CallInv == InHand /\ Verdict

LEMMA CallStep ==
  ASSUME TypeInv, CallInv, [Next]_allVars
  PROVE  CallInv'
<1> USE DEF CallInv
<1>1. CASE Call
  <2>1. PICK c \in Command : Issue(c) /\ Calls(c)
    BY <1>1 DEF Call
  <2>2. call' = c /\ status' = "busy" /\ done' = FALSE /\ UNCHANGED step
    BY <2>1 DEF Issue, Calls
  <2>3. InHand'
    BY <2>1, <2>2 DEF Calls, InHand
  <2> QED
    BY <2>2, <2>3 DEF Verdict
<1>2. CASE Continue
  <2>1. phase' \notin {"got", "applied", "saved"} /\ UNCHANGED <<status, call, done>> /\ status = "idle"
    BY <1>2, DecideType DEF Continue, serviceVars
  <2> QED
    BY <2>1 DEF InHand, Verdict, IsRefused
<1>3. CASE Execute /\ UNCHANGED applierVars
  <2>1. status = "busy" /\ ~IsRefused(call) /\ UNCHANGED <<status, call, reply, phase, step>>
    BY <1>3 DEF Execute, applierVars
  <2> QED
    BY <2>1 DEF InHand, Verdict, IsRefused
<1>4. CASE Answer
  <2>1. PICK r \in Reply : Return(r) /\ UNCHANGED applierVars
    BY <1>4 DEF Answer
  <2>2. /\ status' = "idle" /\ reply' = r /\ UNCHANGED <<call, done, heard, phase, step>>
        /\ r.code = "NO_ERROR" => done /\ (call.op = "get" => r.val \in heard)
        /\ r.code = "INVALID_PARAMETER" => IsRefused(call)
    BY <2>1 DEF Return, applierVars
  <2> QED
    BY <2>2 DEF InHand, Verdict, IsRefused
<1>5. CASE Restart
  <2>1. phase' \in {"get", "save", "done"} /\ status' = "idle" /\ UNCHANGED <<call, done>>
    BY <1>5 DEF Restart, StartRun, GoTo
  <2> QED
    BY <2>1 DEF InHand, Verdict, IsRefused
<1>6. CASE DeviceReset
  BY <1>6 DEF DeviceReset, PowerCycle, InHand, Verdict, IsRefused
<1>7. CASE UNCHANGED allVars
  BY <1>7 DEF allVars, serviceVars, applierVars, InHand, Verdict, IsRefused
<1> QED
  BY <1>1, <1>2, <1>3, <1>4, <1>5, <1>6, <1>7 DEF Next

LEMMA CallInit == Init => CallInv
  BY DEF Init, ServiceInit, DeviceInit, CallInv, InHand, Verdict
-----------------------------------------------------------------------------
(***************************************************************************)
(* What is behind the applier in Order is applied.                         *)
(***************************************************************************)

\* Of the first n settings, those reached since the device last lost power are as
\* wanted.
AppliedUpTo(n) ==
  \A i \in 1..n :
    (i > lostAt /\ Order[i] \in Supported) => ram[Order[i]] = Want[Order[i]]

AppliedInv ==
  /\ AppliedUpTo(step - 1)
  /\ (phase = "got" /\ step > lostAt) => heard \subseteq {ram[Order[step]]}
  /\ (phase = "applied" /\ step > lostAt /\ done) => ram[Order[step]] = Want[Order[step]]

\* Past a setting that is as wanted, or that the device does not have, or that was
\* reached before the device lost power.
LEMMA AppliedNext ==
  ASSUME TypeInv, step \in 1..Len(Order), AppliedUpTo(step - 1),
         (step > lostAt /\ Order[step] \in Supported) => ram[Order[step]] = Want[Order[step]],
         NEW written, GoTo(step + 1, written), UNCHANGED <<ram, lostAt>>
  PROVE  AppliedUpTo(step - 1)'
<1>1. step' = step + 1
  BY DEF GoTo
<1>2. \A i \in 1..step : i \in 1..(step - 1) \/ i = step
  BY OrderKeys
<1>3. \A i \in 1..step :
        (i > lostAt /\ Order[i] \in Supported) => ram[Order[i]] = Want[Order[i]]
  BY <1>2 DEF AppliedUpTo
<1>4. (step - 1)' = step
  BY <1>1, OrderKeys
<1> QED
  BY <1>3, <1>4 DEF AppliedUpTo

\* The decision after a getter or a setter has returned.
LEMMA AppliedDecide ==
  ASSUME TypeInv, CallInv, AppliedInv, Decide, status = "idle",
         UNCHANGED <<ram, call, done, heard, lostAt>>
  PROVE  AppliedUpTo(step - 1)'
<1> USE DEF AppliedInv
<1>0. UNCHANGED step => AppliedUpTo(step - 1)'
  BY DEF AppliedUpTo
<1>1. CASE GetReturned
  <2>1. phase = "got" /\ step \in 1..Len(Order) /\ call = GetCmd(Order[step])
    BY <1>1 DEF GetReturned, TypeInv, Position, CallInv, InHand
  <2>2. (step > lostAt /\ reply.code = "NO_ERROR") => reply.val = ram[Order[step]]
    BY <2>1 DEF CallInv, Verdict, GetCmd
  <2>3. reply.code = "INVALID_PARAMETER" => Order[step] \notin Supported
    BY <2>1 DEF CallInv, Verdict, GetCmd, IsRefused, Supported
  <2>4. ASSUME NEW v, Compare(v),
               (step > lostAt /\ Order[step] \in Supported) => v = ram[Order[step]]
        PROVE  AppliedUpTo(step - 1)'
    <3>1. CASE UNCHANGED step
      BY <1>0, <3>1
    <3>2. CASE v = Want[Order[step]] /\ GoTo(step + 1, reboot_needed_)
      BY <2>1, <2>4, <3>2, AppliedNext
    <3> QED
      BY <2>4, <3>1, <3>2 DEF Compare
  <2>5. CASE reply.code = "NO_ERROR"
    BY <1>1, <2>2, <2>4, <2>5 DEF GetReturned
  <2>6. CASE reply.code = "INVALID_PARAMETER"
    <3>1. CASE GoTo(step + 1, reboot_needed_)
      BY <2>1, <2>3, <2>6, <3>1, AppliedNext
    <3>2. CASE \E garbage \in Values : Compare(garbage)
      BY <2>3, <2>4, <2>6, <3>2
    <3> QED
      BY <1>1, <2>6, <3>1, <3>2 DEF GetReturned
  <2>7. CASE reply.code \notin {"NO_ERROR", "INVALID_PARAMETER"}
    BY <1>0, <1>1, <2>7 DEF GetReturned, Throw
  <2> QED
    BY <2>5, <2>6, <2>7
<1>2. CASE SetReturned
  <2>1. phase = "applied" /\ step \in 1..Len(Order) /\ call = SetCmd(Order[step], Want[Order[step]])
    BY <1>2 DEF SetReturned, TypeInv, Position, CallInv, InHand
  <2>2. (step > lostAt /\ reply.code = "NO_ERROR") => ram[Order[step]] = Want[Order[step]]
    BY <2>1 DEF CallInv, Verdict
  <2>3. reply.code = "INVALID_PARAMETER" => Order[step] \notin Supported
    BY <2>1 DEF CallInv, Verdict, SetCmd, IsRefused, Supported
  <2>4. CASE reply.code = "NO_ERROR" /\ GoTo(step + 1, TRUE)
    BY <2>1, <2>2, <2>4, AppliedNext
  <2>5. CASE reply.code = "INVALID_PARAMETER" /\ GoTo(step + 1, reboot_needed_)
    BY <2>1, <2>3, <2>5, AppliedNext
  <2>6. CASE Throw
    BY <1>0, <2>6 DEF Throw
  <2> QED
    BY <1>2, <2>4, <2>5, <2>6 DEF SetReturned
<1>3. CASE SaveReturned
  BY <1>0, <1>3 DEF SaveReturned
<1> QED
  BY <1>1, <1>2, <1>3 DEF Decide

LEMMA AppliedStep ==
  ASSUME TypeInv, CallInv, AppliedInv, [Next]_allVars
  PROVE  AppliedInv'
<1>1. CASE Call
  <2>1. PICK c \in Command : Issue(c) /\ Calls(c)
    BY <1>1 DEF Call
  <2>2. done' = FALSE /\ heard' = {} /\ UNCHANGED <<ram, step, lostAt>>
    BY <2>1 DEF Issue, Calls, deviceVars
  <2> QED
    BY <2>2 DEF AppliedInv, AppliedUpTo
<1>2. CASE Continue
  <2>1. /\ status = "idle" /\ Decide /\ UNCHANGED <<ram, call, done, heard>>
        /\ UNCHANGED lostAt /\ phase' \notin {"got", "applied"}
    BY <1>2, DecideType DEF Continue, serviceVars
  <2> QED
    BY <2>1, AppliedDecide DEF AppliedInv
<1>3. CASE Execute /\ UNCHANGED applierVars
  <2>1. status = "busy" /\ phase \in {"got", "applied", "saved"} /\ UNCHANGED <<phase, step, lostAt>>
    BY <1>3 DEF Execute, applierVars, CallInv, InHand
  <2>2. CASE phase = "got"
    <3>1. call.op = "get" /\ call.key = Order[step]
      BY <2>2 DEF CallInv, InHand, GetCmd
    <3>2. ram' = ram /\ heard' = heard \cup {ram[Order[step]]}
      BY <1>3, <3>1 DEF Execute, RamAfter
    <3> QED
      BY <2>1, <2>2, <3>2 DEF AppliedInv, AppliedUpTo
  <2>3. CASE phase = "applied"
    <3>1. call.op = "set" /\ call.key = Order[step] /\ call.val = Want[Order[step]]
      BY <2>3 DEF CallInv, InHand, SetCmd
    <3>2. ram' = [ram EXCEPT ![Order[step]] = Want[Order[step]]]
      BY <1>3, <3>1 DEF Execute, RamAfter
    <3>3. \A i \in 1..Len(Order) : ram'[Order[i]] = Want[Order[i]] \/ ram'[Order[i]] = ram[Order[i]]
      BY <3>2, OrderKeys DEF TypeInv, ApplierTypeOK, DeviceTypeOK
    <3>4. ram'[Order[step]] = Want[Order[step]]
      BY <2>3, <3>2, OrderKeys DEF TypeInv, ApplierTypeOK, DeviceTypeOK, Position
    <3>5. \A i \in 1..(step - 1) : i \in 1..Len(Order)
      BY OrderKeys DEF TypeInv, ApplierTypeOK
    <3> QED
      BY <2>1, <2>3, <3>3, <3>4, <3>5 DEF AppliedInv, AppliedUpTo
  <2>4. CASE phase = "saved"
    <3>1. ram' = ram
      BY <1>3, <2>4 DEF Execute, RamAfter, CallInv, InHand, SaveCmd
    <3> QED
      BY <2>1, <2>4, <3>1 DEF AppliedInv, AppliedUpTo
  <2> QED
    BY <2>1, <2>2, <2>3, <2>4
<1>4. CASE Answer
  <2>1. UNCHANGED <<done, heard, ram, phase, step, lostAt>>
    BY <1>4 DEF Answer, Return, applierVars, deviceVars
  <2> QED
    BY <2>1 DEF AppliedInv, AppliedUpTo
<1>5. CASE Restart
  <2>1. phase' \in {"get", "save", "done"} /\ step' = 1
    BY <1>5 DEF Restart, StartRun, GoTo
  <2>2. 1..(step - 1)' = {}
    BY <2>1
  <2> QED
    BY <2>1, <2>2 DEF AppliedInv, AppliedUpTo
<1>6. CASE DeviceReset
  <2>1. lostAt' = step /\ UNCHANGED <<phase, step>>
    BY <1>6 DEF DeviceReset
  <2>2. \A i \in 1..(step - 1) : ~(i > step)
    BY OrderKeys DEF TypeInv, ApplierTypeOK
  <2>3. ~(step > step)
    BY OrderKeys DEF TypeInv, ApplierTypeOK
  <2> QED
    BY <2>1, <2>2, <2>3 DEF AppliedInv, AppliedUpTo
<1>7. CASE UNCHANGED allVars
  BY <1>7 DEF allVars, serviceVars, applierVars, AppliedInv, AppliedUpTo
<1> QED
  BY <1>1, <1>2, <1>3, <1>4, <1>5, <1>6, <1>7 DEF Next

LEMMA AppliedInit == Init => AppliedInv
<1> SUFFICES ASSUME Init PROVE AppliedInv
  OBVIOUS
<1>1. step = 1 /\ phase \in {"get", "done"}
  BY DEF Init
<1>2. 1..(step - 1) = {}
  BY <1>1
<1> QED
  BY <1>1, <1>2 DEF AppliedInv, AppliedUpTo

\* At the end of Order every setting reached since the device last lost power is
\* as wanted.
LEMMA AppliedHolds ==
  ASSUME TypeInv, AppliedInv, phase \in {"save", "saved", "done"}
  PROVE  \A k \in Supported \ MayBeLost : ram[k] = Want[k]
<1>1. AppliedUpTo(step - 1) /\ step - 1 = Len(Order)
  BY OrderKeys DEF TypeInv, Position, AppliedInv
<1>2. \A i \in 1..Len(Order) :
        (i > lostAt /\ Order[i] \in Supported) => ram[Order[i]] = Want[Order[i]]
  <2>1. 1..(step - 1) = 1..Len(Order)
    BY <1>1
  <2> QED
    BY ONLY <1>1, <2>1 DEF AppliedUpTo
<1>3. SUFFICES ASSUME NEW k \in Supported \ MayBeLost PROVE ram[k] = Want[k]
  OBVIOUS
<1>4. PICK i \in 1..Len(Order) : k = Order[i]
  BY OrderKeys DEF Supported
<1>5. i > lostAt
  <2>1. ~(i <= lostAt)
    BY <1>4 DEF MayBeLost, Supported
  <2> QED
    BY <2>1, OrderKeys DEF TypeInv, ApplierTypeOK
<1> QED
  BY <1>2, <1>4, <1>5

\* applyConfiguration, when it returns, leaves the device with every wanted
\* setting it has, whatever was retried, refused or found equal on the way, for
\* any sections and outputs, visited in any order; after a loss of power, with
\* those it reached since.
THEOREM ConfigurationApplied == Spec => []DoneMeansApplied
<1>1. TypeInv /\ [Next]_allVars => TypeInv'
  BY TypeStep
<1>2. TypeInv /\ CallInv /\ [Next]_allVars => CallInv'
  BY CallStep
<1>3. TypeInv /\ CallInv /\ AppliedInv /\ [Next]_allVars => AppliedInv'
  BY AppliedStep
<1>4. TypeInv /\ AppliedInv => DoneMeansApplied
  BY AppliedHolds DEF DoneMeansApplied
<1> QED
  BY <1>1, <1>2, <1>3, <1>4, TypeInit, CallInit, AppliedInit, PTL DEF Spec
-----------------------------------------------------------------------------
(***************************************************************************)
(* What a run may do to the device.                                        *)
(***************************************************************************)

\* The commands of a run and their effects, one by one.
LEMMA ExecuteEffect ==
  ASSUME TypeInv, CallInv, Execute
  PROVE  /\ phase = "got" => UNCHANGED <<ram, flash>>
         /\ phase = "applied" => /\ step \in 1..Len(Order)
                                 /\ Order[step] \in Supported
                                 /\ ram' = [ram EXCEPT ![Order[step]] = Want[Order[step]]]
                                 /\ flash' = flash
         /\ phase = "saved" => ram' = ram /\ flash' = ram
         /\ phase \in {"got", "applied", "saved"}
<1>1. phase \in {"got", "applied", "saved"}
  BY DEF Execute, CallInv, InHand
<1>2. phase = "got" => UNCHANGED <<ram, flash>>
  BY DEF Execute, CallInv, InHand, GetCmd, RamAfter, FlashAfter
<1>3. ASSUME phase = "applied"
      PROVE  /\ step \in 1..Len(Order)
             /\ Order[step] \in Supported
             /\ ram' = [ram EXCEPT ![Order[step]] = Want[Order[step]]]
             /\ flash' = flash
  <2>1. call.op = "set" /\ call.key = Order[step] /\ call.val = Want[Order[step]]
    BY <1>3 DEF CallInv, InHand, SetCmd
  <2>2. step \in 1..Len(Order) /\ Order[step] \in Keys
    BY <1>3, OrderKeys DEF TypeInv, Position
  <2> QED
    BY <2>1, <2>2 DEF Execute, RamAfter, FlashAfter, IsRefused, Supported
<1>4. phase = "saved" => ram' = ram /\ flash' = ram
  BY DEF Execute, CallInv, InHand, SaveCmd, RamAfter, FlashAfter
<1> QED
  BY <1>1, <1>2, <1>3, <1>4

\* Only the device's execution of a command, and a power cycle, touch its settings.
LEMMA SettingsStep ==
  ASSUME [Next]_allVars
  PROVE  \/ Execute /\ UNCHANGED applierVars
         \/ ram' = flash /\ flash' = flash /\ lostAt' = step /\ UNCHANGED <<phase, step, reboot_needed_, wasClean>>
         \/ UNCHANGED <<ram, flash>>
<1>1. CASE Call
  BY <1>1 DEF Call, Issue, deviceVars
<1>2. CASE Continue
  BY <1>2 DEF Continue, serviceVars
<1>3. CASE Answer
  BY <1>3 DEF Answer, Return, deviceVars
<1>4. CASE Restart
  BY <1>4 DEF Restart, deviceVars
<1>5. CASE DeviceReset
  BY <1>5 DEF DeviceReset, PowerCycle
<1>6. CASE UNCHANGED allVars
  BY <1>6 DEF allVars, serviceVars
<1> QED
  BY <1>1, <1>2, <1>3, <1>4, <1>5, <1>6 DEF Next

\* A restart of the driver, and a power cycle, change where the device lost power.
LEMMA LostStep ==
  ASSUME TypeInv, [Next]_allVars
  PROVE  lostAt' = 0 \/ lostAt' = lostAt \/ ram' = flash
<1>1. CASE Call
  BY <1>1 DEF Call, Calls
<1>2. CASE Continue
  BY <1>2, DecideType DEF Continue
<1>3. CASE Execute /\ UNCHANGED applierVars
  BY <1>3 DEF applierVars
<1>4. CASE Answer
  BY <1>4 DEF Answer, applierVars
<1>5. CASE Restart
  BY <1>5 DEF Restart, StartRun
<1>6. CASE DeviceReset
  BY <1>6 DEF DeviceReset, PowerCycle
<1>7. CASE UNCHANGED allVars
  BY <1>7 DEF allVars, applierVars
<1> QED
  BY <1>1, <1>2, <1>3, <1>4, <1>5, <1>6, <1>7 DEF Next

\* The driver writes nothing but wanted values, even where it compared garbage
\* with them (ConfigApplier::configureOutput and the functions of the sections).
THEOREM WritesOnlyWanted == Spec => OnlyWantedWritten
<1>1. ASSUME TypeInv, CallInv, [Next]_allVars, NEW k \in Keys, ram'[k] # ram[k]
      PROVE  ram'[k] = Want[k] \/ ram' = flash
  <2>1. CASE Execute
    <3>1. phase = "applied"
      BY <1>1, <2>1, ExecuteEffect
    <3>2. ram' = [ram EXCEPT ![Order[step]] = Want[Order[step]]]
      BY <1>1, <2>1, <3>1, ExecuteEffect
    <3> QED
      BY <1>1, <3>2 DEF TypeInv, ApplierTypeOK, DeviceTypeOK
  <2> QED
    BY <1>1, <2>1, SettingsStep
<1>2. TypeInv /\ [Next]_allVars => TypeInv'
  BY TypeStep
<1>3. TypeInv /\ CallInv /\ [Next]_allVars => CallInv'
  BY CallStep
<1>4. TypeInv /\ CallInv /\ [Next]_allVars
        => [\A k \in Keys : ram'[k] # ram[k] => (ram'[k] = Want[k] \/ ram' = flash)]_allVars
  BY <1>1
<1> QED
  BY <1>2, <1>3, <1>4, TypeInit, CallInit, PTL DEF Spec, OnlyWantedWritten

\* Once the device has lost power, its working settings differ from the saved
\* ones by wanted values only.
LossInv == lostAt # 0 => \A k \in Keys : ram[k] = Want[k] \/ ram[k] = flash[k]

LEMMA LossStep ==
  ASSUME TypeInv, CallInv, LossInv, [Next]_allVars
  PROVE  LossInv'
<1>1. CASE Execute /\ UNCHANGED applierVars
  <2>1. phase \in {"got", "applied", "saved"} /\ UNCHANGED lostAt
    BY <1>1, ExecuteEffect DEF applierVars
  <2>2. CASE phase = "got"
    BY <1>1, <2>1, <2>2, ExecuteEffect DEF LossInv
  <2>3. CASE phase = "applied"
    <3>1. ram' = [ram EXCEPT ![Order[step]] = Want[Order[step]]] /\ flash' = flash
      BY <1>1, <2>3, ExecuteEffect
    <3>2. \A k \in Keys : ram'[k] = Want[k] \/ ram'[k] = ram[k]
      BY <3>1 DEF TypeInv, ApplierTypeOK, DeviceTypeOK
    <3> QED
      BY <2>1, <3>1, <3>2 DEF LossInv
  <2>4. CASE phase = "saved"
    BY <1>1, <2>1, <2>4, ExecuteEffect DEF LossInv
  <2> QED
    BY <2>1, <2>2, <2>3, <2>4
<1>2. CASE ram' = flash /\ flash' = flash
  BY <1>2 DEF LossInv
<1>3. CASE UNCHANGED <<ram, flash>>
  <2>1. lostAt' = 0 \/ lostAt' = lostAt \/ ram' = flash
    BY LostStep
  <2> QED
    BY <1>3, <2>1 DEF LossInv
<1> QED
  BY <1>1, <1>2, <1>3, SettingsStep

\* A save comes after the last setting only, and leaves none behind but those that
\* a loss of power took back, which keep their saved value
\* (ConfigApplier::applyConfiguration, ConfigApplier::saveConfiguration).
THEOREM SavesTheRest == Spec => SavesAllButLost
<1>1. ASSUME TypeInv, CallInv, AppliedInv, LossInv, [Next]_allVars, flash' # flash,
             NEW k \in Supported
      PROVE  flash'[k] = Want[k] \/ (k \in MayBeLost /\ flash'[k] = flash[k])
  <2>1. Execute
    BY <1>1, SettingsStep
  <2>2. phase = "saved" /\ flash' = ram
    BY <1>1, <2>1, ExecuteEffect
  <2>3. CASE k \notin MayBeLost
    BY <1>1, <2>2, <2>3, AppliedHolds
  <2>4. CASE k \in MayBeLost
    <3>1. lostAt # 0
      BY <1>1, <2>4, OrderKeys DEF MayBeLost, TypeInv, ApplierTypeOK
    <3> QED
      BY <2>2, <2>4, <3>1, <1>1 DEF LossInv, Supported
  <2> QED
    BY <2>3, <2>4
<1>2. TypeInv /\ [Next]_allVars => TypeInv'
  BY TypeStep
<1>3. TypeInv /\ CallInv /\ [Next]_allVars => CallInv'
  BY CallStep
<1>4. TypeInv /\ CallInv /\ AppliedInv /\ [Next]_allVars => AppliedInv'
  BY AppliedStep
<1>5. TypeInv /\ CallInv /\ LossInv /\ [Next]_allVars => LossInv'
  BY LossStep
<1>6. TypeInv /\ CallInv /\ AppliedInv /\ LossInv /\ [Next]_allVars
        => [flash' # flash =>
              \A k \in Supported :
                flash'[k] = Want[k] \/ (k \in MayBeLost /\ flash'[k] = flash[k])]_allVars
  BY <1>1
<1>7. Init => LossInv
  BY DEF Init, LossInv
<1> QED
  BY <1>2, <1>3, <1>4, <1>5, <1>6, <1>7, TypeInit, CallInit, AppliedInit, PTL DEF Spec, SavesAllButLost
-----------------------------------------------------------------------------
(***************************************************************************)
(* A device that is configured already.                                    *)
(***************************************************************************)

\* A run that found the device configured has nothing to write, except perhaps a
\* section the device refuses to read, and refuses to be written.
CleanInv ==
  wasClean =>
    /\ Holds(ram)
    /\ Holds(flash)
    /\ (phase = "got" /\ Order[step] \in Supported) => heard \subseteq {Want[Order[step]]}
    /\ ~reboot_needed_
    /\ phase \notin {"save", "saved"}
    /\ phase \in {"set", "applied"} => Order[step] \notin Supported

\* A decision of such a run.
LEMMA CleanDecide ==
  ASSUME TypeInv, CallInv, CleanInv, Decide, status = "idle", wasClean,
         UNCHANGED ram
  PROVE  /\ ~reboot_needed_'
         /\ phase' \notin {"save", "saved"}
         /\ phase' \in {"set", "applied"} => (Order[step] \notin Supported)'
<1>0. Holds(ram) /\ ~reboot_needed_ /\ phase \notin {"save", "saved"}
  BY DEF CleanInv
<1>1. ASSUME NEW i, GoTo(i, reboot_needed_)
      PROVE  ~reboot_needed_' /\ phase' \in {"get", "done"}
  BY <1>0, <1>1 DEF GoTo
<1>2. ASSUME NEW v, Compare(v), v = Want[Order[step]] \/ Order[step] \notin Supported
      PROVE  /\ ~reboot_needed_'
             /\ phase' \in {"get", "done", "set"}
             /\ phase' = "set" => (Order[step] \notin Supported)'
  <2>1. CASE GoTo(step + 1, reboot_needed_)
    BY <1>1, <2>1
  <2>2. CASE v # Want[Order[step]] /\ phase' = "set" /\ UNCHANGED <<step, reboot_needed_>>
    BY <1>0, <1>2, <2>2
  <2> QED
    BY <1>2, <2>1, <2>2 DEF Compare
<1>3. CASE GetReturned
  <2>1. phase = "got" /\ call = GetCmd(Order[step])
    BY <1>3 DEF GetReturned, CallInv, InHand
  <2>2. reply.code = "NO_ERROR" => reply.val = Want[Order[step]]
    <3>1. SUFFICES ASSUME reply.code = "NO_ERROR" PROVE reply.val = Want[Order[step]]
      OBVIOUS
    <3>2. done /\ reply.val \in heard /\ Order[step] \notin Refused
      BY <2>1, <3>1 DEF CallInv, Verdict, GetCmd, IsRefused
    <3>3. Order[step] \in Supported
      BY <2>1, <3>2, OrderKeys DEF Supported, TypeInv, Position
    <3> QED
      BY <2>1, <3>2, <3>3 DEF CleanInv
  <2>3. reply.code = "INVALID_PARAMETER" => Order[step] \notin Supported
    BY <2>1 DEF CallInv, Verdict, GetCmd, IsRefused, Supported
  <2>4. CASE \E v : Compare(v) /\ (v = Want[Order[step]] \/ Order[step] \notin Supported)
    BY <1>2, <2>4
  <2>5. CASE GoTo(step + 1, reboot_needed_)
    BY <1>1, <2>5
  <2>6. CASE Throw
    BY <1>0, <2>6 DEF Throw
  <2> QED
    BY <1>3, <2>2, <2>3, <2>4, <2>5, <2>6 DEF GetReturned
<1>4. CASE SetReturned
  <2>1. phase = "applied" /\ call = SetCmd(Order[step], Want[Order[step]]) /\ step \in 1..Len(Order)
    BY <1>4 DEF SetReturned, CallInv, InHand, TypeInv, Position
  <2>2. reply.code # "NO_ERROR"
    <3>1. Order[step] \in Refused
      BY <2>1, OrderKeys DEF CleanInv, Supported
    <3> QED
      BY <2>1, <3>1 DEF CallInv, Verdict, SetCmd, IsRefused
  <2>3. CASE GoTo(step + 1, reboot_needed_)
    BY <1>1, <2>3
  <2>4. CASE Throw
    BY <1>0, <2>4 DEF Throw
  <2> QED
    BY <1>4, <2>2, <2>3, <2>4 DEF SetReturned
<1>5. CASE SaveReturned
  BY <1>0, <1>5 DEF SaveReturned
<1> QED
  BY <1>3, <1>4, <1>5 DEF Decide

LEMMA CleanStep ==
  ASSUME TypeInv, CallInv, CleanInv, [Next]_allVars
  PROVE  CleanInv'
<1>1. CASE Call
  <2>1. PICK c \in Command : Issue(c) /\ Calls(c)
    BY <1>1 DEF Call
  <2>2. UNCHANGED <<ram, flash, step, reboot_needed_, lostAt, wasClean>>
    BY <2>1 DEF Issue, Calls, deviceVars
  <2>3. /\ phase' = "saved" => phase = "save"
        /\ phase' = "applied" => phase = "set"
        /\ phase' \in {"got", "applied", "saved"}
    BY <2>1 DEF Calls
  <2>4. heard' = {}
    BY <2>1 DEF Issue
  <2> QED
    BY <2>2, <2>3, <2>4 DEF CleanInv, Holds
<1>2. CASE Continue
  <2>1. Decide /\ status = "idle" /\ UNCHANGED <<ram, flash>>
    BY <1>2 DEF Continue, serviceVars
  <2>2. UNCHANGED <<lostAt, wasClean>> /\ phase' # "got"
    BY <2>1, DecideType
  <2>3. SUFFICES ASSUME wasClean
                 PROVE  CleanInv'
    BY <2>2 DEF CleanInv
  <2>4. /\ ~reboot_needed_'
        /\ phase' \notin {"save", "saved"}
        /\ phase' \in {"set", "applied"} => (Order[step] \notin Supported)'
    BY <2>1, <2>3, CleanDecide
  <2>5. Holds(ram)' /\ Holds(flash)'
    BY <2>1, <2>3 DEF CleanInv, Holds
  <2> QED
    BY <2>2, <2>4, <2>5 DEF CleanInv
<1>3. CASE Execute /\ UNCHANGED applierVars
  <2>1. UNCHANGED <<phase, step, reboot_needed_, lostAt, wasClean>>
    BY <1>3 DEF applierVars
  <2>2. wasClean => UNCHANGED <<ram, flash>>
    BY <1>3, ExecuteEffect DEF CleanInv
  <2>3. ASSUME wasClean, phase = "got", Order[step] \in Supported
        PROVE  heard' \subseteq {Want[Order[step]]}
    <3>1. call.key = Order[step] /\ ram[Order[step]] = Want[Order[step]]
      BY <2>3 DEF CallInv, InHand, GetCmd, CleanInv, Holds
    <3> QED
      BY <1>3, <2>3, <3>1 DEF Execute, CleanInv
  <2> QED
    BY <2>1, <2>2, <2>3 DEF CleanInv, Holds
<1>4. CASE Answer
  <2>1. UNCHANGED <<heard, ram, flash, phase, step, reboot_needed_, lostAt, wasClean>>
    BY <1>4 DEF Answer, Return, applierVars, deviceVars
  <2> QED
    BY <2>1 DEF CleanInv, Holds
<1>5. CASE Restart
  <2>1. GoTo(1, FALSE) /\ wasClean' = (Holds(ram) /\ Holds(flash)) /\ UNCHANGED <<ram, flash>>
    BY <1>5 DEF Restart, StartRun, deviceVars
  <2>2. phase' \in {"get", "done"} /\ ~reboot_needed_'
    BY <2>1 DEF GoTo
  <2> QED
    BY <2>1, <2>2 DEF CleanInv, Holds
<1>6. CASE DeviceReset
  BY <1>6 DEF DeviceReset, PowerCycle, CleanInv, Holds
<1>7. CASE UNCHANGED allVars
  BY <1>7 DEF allVars, serviceVars, applierVars, CleanInv, Holds
<1> QED
  BY <1>1, <1>2, <1>3, <1>4, <1>5, <1>6, <1>7 DEF Next

LEMMA CleanInit == Init => CleanInv
  BY DEF Init, CleanInv, Holds

\* A driver that is started again on a device that holds and has saved the
\* configuration writes nothing and does not reboot it, even if it loses power
\* (ConfigApplier::applyConfiguration).
THEOREM SavesOnlyWhenNeeded == Spec => []NoNeedlessSave
<1>1. TypeInv /\ [Next]_allVars => TypeInv'
  BY TypeStep
<1>2. TypeInv /\ CallInv /\ [Next]_allVars => CallInv'
  BY CallStep
<1>3. TypeInv /\ CallInv /\ CleanInv /\ [Next]_allVars => CleanInv'
  BY CleanStep
<1>4. CleanInv => NoNeedlessSave
  BY DEF CleanInv, NoNeedlessSave
<1> QED
  BY <1>1, <1>2, <1>3, <1>4, TypeInit, CallInit, CleanInit, PTL DEF Spec
=============================================================================
