-------------------------- MODULE DriverLoadProofs --------------------------
(***************************************************************************)
(* Proofs about loading the drivers: what the results of insmod, rmmod and *)
(* driver_check say, whatever the Wi-Fi service does to the modules        *)
(* meanwhile and however long the calls are told to wait.                  *)
(***************************************************************************)
EXTENDS DriverLoad, SequenceTheorems, TLAPS

-----------------------------------------------------------------------------
(***************************************************************************)
(* The inductive invariant.                                                *)
(***************************************************************************)
CallOps == {"check", "insmod", "rmmod"}
Calls == [op : CallOps, mod : Modules, time : Nat \ {0}]
Checking == {"open", "look", "sleep"}

\* Which call is where.
ScriptInv ==
  /\ todo \in Seq(Calls)
  /\ pc # "idle" => todo # <<>> /\ op \in CallOps
  /\ pc = "load" => op = "insmod"
  /\ first \in BOOLEAN /\ eof \in BOOLEAN

\* What the call can know of the modules from those of its beginning, those that
\* were loaded since and those that were unloaded since.
KernelInv ==
  pc # "idle" =>
    /\ loaded \subseteq start \cup gained
    /\ start \cup gained \subseteq loaded \cup lost

\* The module was away at some moment of the call; insmod, which has loaded it or
\* found it loaded, knows whose fault that is.
Absent ==
  /\ mod \notin start \/ mod \in lost
  /\ op = "insmod" => excuse \/ mod \in lost

\* A stream at its end has shown the module to be away.
LookInv ==
  /\ pc = "sleep" => eof
  /\ eof /\ pc \in {"look", "sleep"} => ~first /\ Absent
  /\ pc \in {"enter", "load", "open"} /\ op # "rmmod" => ~first

\* insmod comes to its check with the module loaded, or refused by the kernel, and
\* rmmod with a result of 0 only if it has removed the module itself.
ResultInv ==
  /\ pc \in Checking /\ op = "insmod" => mod \in start \cup gained \/ excuse
  /\ pc \in Checking /\ op = "rmmod" /\ ret = 0 => mod \in lost

\* What a call has returned.
ReturnInv == ResultsAreTrue /\ CheckIsFirstLook /\ FailsForAReason

LoadInv == ScriptInv /\ KernelInv /\ LookInv /\ ResultInv /\ ReturnInv
-----------------------------------------------------------------------------
(***************************************************************************)
(* The calls.                                                              *)
(***************************************************************************)
\* The scripts of POWER_ON are made of calls.
LEMMA ScriptsAreCalls == PowerOns \subseteq Seq(Calls)
<1>1. \A o \in CallOps, m \in Modules, t \in {CheckTime, RmmodTime, LoadTime} :
        Call(o, m, t) \in Calls
  BY TimeAssumption DEF TimeAssumption, Call, Calls
<1>2. /\ Call("insmod", "comm", LoadTime) \in Calls /\ Call("insmod", "bt", LoadTime) \in Calls
      /\ Call("check", "bt", CheckTime) \in Calls /\ Call("rmmod", "wifi", RmmodTime) \in Calls
  BY <1>1 DEF CallOps, Modules
<1>3. \A c, d \in Calls : <<c, d>> \in Seq(Calls) /\ <<c>> \in Seq(Calls)
  OBVIOUS
<1>4. LoadBoth \in Seq(Calls)
  BY <1>2, <1>3 DEF LoadBoth
<1> QED  BY <1>2, <1>3, <1>4, ConcatProperties DEF PowerOns

\* The call in hand stays the same while the script does.
LEMMA SameCall ==
  ASSUME UNCHANGED todo
  PROVE  op' = op /\ mod' = mod
BY DEF op, mod

\* A call begins without knowing anything.
LEMMA BeginHolds ==
  ASSUME NEW script \in Seq(Calls), Begin(script)
  PROVE  LoadInv'
<1>1. CASE script = <<>>
  BY <1>1 DEF Begin, LoadInv, ScriptInv, KernelInv, LookInv, ResultInv, ReturnInv, Checking,
     ResultsAreTrue, CheckIsFirstLook, FailsForAReason, Returned
<1>2. CASE script # <<>>
  <2>1. /\ todo' = script /\ pc' = (IF Head(script).op = "check" THEN "open" ELSE "enter")
        /\ eof' = FALSE /\ ret' = 0 /\ first' = FALSE
        /\ start' = loaded /\ gained' = {} /\ lost' = {} /\ loaded' = loaded
    BY <1>2 DEF Begin
  <2>2. Head(script) \in Calls
    BY <1>2, HeadTailProperties
  <2>3. op' \in CallOps /\ (op' = "check" => pc' = "open")
    BY <2>1, <2>2 DEF op, Calls
  <2>4. ScriptInv'
    BY <1>2, <2>1, <2>3 DEF ScriptInv
  <2>5. KernelInv'
    BY <2>1 DEF KernelInv
  <2>6. LookInv'
    BY <2>1 DEF LookInv
  <2>7. ResultInv'
    <3>1. pc' \in Checking => op' = "check"
      BY <2>1 DEF op, Checking
    <3> QED  BY <3>1 DEF ResultInv
  <2>8. ReturnInv'
    BY <2>1 DEF ReturnInv, ResultsAreTrue, CheckIsFirstLook, FailsForAReason, Returned
  <2> QED  BY <2>4, <2>5, <2>6, <2>7, <2>8 DEF LoadInv
<1> QED  BY <1>1, <1>2

\* POWER_ON and the return of a call begin the next one with nothing known.
LEMMA CallsBegin ==
  ASSUME LoadInv, PowerOn \/ NextCall
  PROVE  LoadInv'
<1>1. CASE PowerOn
  BY <1>1, ScriptsAreCalls, BeginHolds DEF PowerOn
<1>2. CASE NextCall
  <2>1. Tail(todo) \in Seq(Calls)
    BY <1>2, HeadTailProperties DEF NextCall, LoadInv, ScriptInv
  <2> QED  BY <1>2, <2>1, BeginHolds DEF NextCall
<1> QED  BY <1>1, <1>2

\* How driver_check hands its answer to the three callers.
LEMMA AnswerEnds ==
  ASSUME op \in CallOps, NEW found \in BOOLEAN, Answer(found)
  PROVE  /\ eof' = FALSE
         /\ \/ op = "check" /\ pc' = "return" /\ ret' = IF found THEN 1 ELSE 0
            \/ op = "insmod" /\ pc' = "return" /\ ret' = IF found THEN 0 ELSE -1
            \/ op = "rmmod" /\ ~found /\ pc' = "return" /\ ret' = 0
            \/ op = "rmmod" /\ found /\ pc' = "return" /\ ret' = ret
            \/ op = "rmmod" /\ pc' = "enter"
BY DEF Answer, Return, CallOps

\* Steps that leave the kernel as it is.
Quiet == UNCHANGED <<todo, kernel, excuse>> /\ (blind => blind')

\* A step of the thread that leaves the kernel's modules alone.
LEMMA QuietKernel ==
  ASSUME LoadInv, Quiet, pc # "idle"
  PROVE  KernelInv' /\ (Absent' <=> Absent) /\ op' = op /\ mod' = mod /\ op \in CallOps
<1>1. op' = op /\ mod' = mod /\ UNCHANGED <<loaded, start, gained, lost>>
  BY SameCall DEF Quiet, kernel
<1>2. KernelInv' /\ (Absent' <=> Absent)
  BY <1>1 DEF LoadInv, KernelInv, Absent, Quiet
<1> QED  BY <1>1, <1>2 DEF LoadInv, ScriptInv

\* insmod_check.
LEMMA InsmodCheckHolds ==
  ASSUME LoadInv, InsmodCheck
  PROVE  LoadInv'
<1>1. Quiet /\ pc = "enter" /\ op = "insmod" /\ UNCHANGED eof
  BY DEF InsmodCheck, Quiet, Readable, Unreadable
<1>2. KernelInv' /\ op' = op /\ mod' = mod /\ UNCHANGED <<todo, kernel>>
  BY <1>1, QuietKernel DEF Quiet
<1>3. CASE mod \in loaded /\ pc' = "return" /\ ret' = 0 /\ first' = TRUE
  <2>1. mod' \in start' \cup gained'
    BY <1>1, <1>2, <1>3 DEF LoadInv, KernelInv, kernel
  <2> QED
    BY <1>1, <1>2, <1>3, <2>1 DEF LoadInv, ScriptInv, LookInv, ResultInv, ReturnInv,
       ResultsAreTrue, CheckIsFirstLook, FailsForAReason, Returned, Checking
<1>4. CASE pc' = "load" /\ first' = FALSE
  BY <1>1, <1>2, <1>4 DEF LoadInv, ScriptInv, LookInv, ResultInv, ReturnInv,
     ResultsAreTrue, CheckIsFirstLook, FailsForAReason, Returned, Checking
<1> QED
  BY <1>1, <1>3, <1>4 DEF InsmodCheck, Return

\* A file that is not there, or finit_module.
LEMMA LoadHolds ==
  ASSUME LoadInv, NoFile \/ FinitModule
  PROVE  LoadInv'
<1>1. /\ pc = "load" /\ op = "insmod" /\ first = FALSE /\ todo \in Seq(Calls) /\ todo # <<>>
      /\ eof \in BOOLEAN
  BY DEF NoFile, FinitModule, LoadInv, ScriptInv, LookInv
<1>2. /\ UNCHANGED <<todo, first, eof>> /\ op' = op /\ mod' = mod
  BY SameCall DEF NoFile, FinitModule
<1>3. KernelInv'
  BY <1>1 DEF NoFile, FinitModule, Insert, kernel, LoadInv, KernelInv
<1>4. CASE NoFile
  <2>1. pc' = "return" /\ ret' = -1 /\ excuse' = TRUE
    BY <1>4 DEF NoFile, Return
  <2> QED
    BY <1>1, <1>2, <1>3, <2>1 DEF LoadInv, ScriptInv, LookInv, ResultInv, ReturnInv,
       ResultsAreTrue, CheckIsFirstLook, FailsForAReason, Returned, Checking, CallOps
<1>5. CASE FinitModule
  <2>1. pc' = "open" /\ (mod \in start' \cup gained' \/ excuse')
    <3>1. mod \in loaded => mod \in start \cup gained
      BY <1>1 DEF LoadInv, KernelInv
    <3> QED  BY <1>5, <3>1 DEF FinitModule, Insert, kernel
  <2>2. ~(eof /\ pc' \in {"look", "sleep"})
    BY <2>1
  <2> QED
    BY <1>1, <1>2, <1>3, <2>1 DEF LoadInv, ScriptInv, LookInv, ResultInv, ReturnInv,
       ResultsAreTrue, CheckIsFirstLook, FailsForAReason, Returned, Checking, CallOps
<1> QED  BY <1>4, <1>5

\* An answer of driver_check that the module is not there, which a look or a
\* failing open gave.
LEMMA NotFound ==
  ASSUME LoadInv, Quiet, Answer(FALSE), pc \in Checking, first = FALSE \/ op = "rmmod",
         UNCHANGED first, blind' \/ Absent
  PROVE  LoadInv'
<1>1. /\ KernelInv' /\ (Absent' <=> Absent) /\ op' = op /\ mod' = mod /\ op \in CallOps
      /\ UNCHANGED <<start, gained, lost>>
  BY QuietKernel DEF Checking, Quiet, kernel
<1>2. /\ eof' = FALSE
      /\ pc' \in {"return", "enter"} /\ (pc' = "enter" => op = "rmmod")
      /\ op = "check" => ret' = 0
      /\ op = "insmod" => ret' = -1
  BY <1>1, AnswerEnds
<1>3. ScriptInv'
  BY <1>1, <1>2 DEF LoadInv, ScriptInv, Quiet, Checking
<1>4. LookInv' /\ ResultInv'
  BY <1>1, <1>2 DEF LookInv, ResultInv, Checking
<1>5. ReturnInv'
  <2>1. op = "insmod" => excuse' \/ blind' \/ mod \in lost
    BY DEF Quiet, Absent
  <2>2. op = "rmmod" /\ pc' = "return" => mod \notin start \/ mod \in lost \/ blind'
    BY DEF Absent
  <2>3. CheckIsFirstLook'
    BY <1>1, <1>2 DEF CheckIsFirstLook, Returned
  <2>4. ResultsAreTrue' /\ FailsForAReason'
    BY <1>1, <1>2, <2>1, <2>2 DEF ResultsAreTrue, FailsForAReason, Returned
  <2> QED  BY <2>3, <2>4 DEF ReturnInv
<1> QED  BY <1>1, <1>3, <1>4, <1>5 DEF LoadInv

\* fopen() of /proc/modules, which begins a stream or ends the call.
LEMMA OpenHolds ==
  ASSUME LoadInv, OpenModules
  PROVE  LoadInv'
<1>1. Quiet /\ pc = "open" /\ UNCHANGED <<first, kernel>>
  <2>1. pc = "open" /\ UNCHANGED <<todo, kernel, first, excuse>>
    BY DEF OpenModules
  <2>2. blind => blind'
    BY DEF OpenModules, Readable, Unreadable
  <2> QED  BY <2>1, <2>2 DEF Quiet
<1>2. CASE Unreadable /\ Answer(FALSE)
  <2>1. blind' /\ (first = FALSE \/ op = "rmmod")
    BY <1>1, <1>2 DEF Unreadable, LoadInv, LookInv, ScriptInv
  <2> QED  BY <1>1, <1>2, <2>1, NotFound DEF Checking
<1>3. CASE pc' = "look" /\ eof' = FALSE /\ UNCHANGED <<tries, ret>>
  <2>1. KernelInv' /\ op' = op /\ mod' = mod /\ op \in CallOps
    BY <1>1, QuietKernel
  <2> QED
    BY <1>1, <1>3, <2>1 DEF LoadInv, ScriptInv, LookInv, ResultInv, ReturnInv, Quiet,
       kernel, ResultsAreTrue, CheckIsFirstLook, FailsForAReason, Returned, Checking
<1> QED  BY <1>2, <1>3 DEF OpenModules

\* The first look may find the module; at the end of the stream there is none.
LEMMA LookHolds ==
  ASSUME LoadInv, Look
  PROVE  LoadInv'
<1>1. /\ Quiet /\ pc = "look" /\ UNCHANGED <<kernel, excuse, blind, todo>>
      /\ first' = (IF eof THEN first ELSE mod \in loaded)
  BY DEF Look, Quiet
<1>2. KernelInv' /\ (Absent' <=> Absent) /\ op' = op /\ mod' = mod /\ op \in CallOps
  BY <1>1, QuietKernel
<1>3. CASE Sees /\ Answer(TRUE)
  <2>1. mod \in start' \cup gained' /\ first' = TRUE
    BY <1>1, <1>3 DEF Sees, LoadInv, KernelInv, kernel
  <2>2. /\ eof' = FALSE
        /\ \/ op = "check" /\ pc' = "return" /\ ret' = 1
           \/ op = "insmod" /\ pc' = "return" /\ ret' = 0
           \/ op = "rmmod" /\ pc' = "return" /\ ret' = ret
           \/ op = "rmmod" /\ pc' = "enter"
    BY <1>2, <1>3, AnswerEnds
  <2>3. op = "rmmod" /\ ret = 0 => mod \in lost
    BY <1>1 DEF LoadInv, ResultInv, Checking
  <2>4. ScriptInv'
    BY <1>1, <1>2, <2>1, <2>2 DEF LoadInv, ScriptInv
  <2>5. LookInv' /\ ResultInv'
    BY <1>2, <2>2 DEF LookInv, ResultInv, Checking
  <2>6. ReturnInv'
    BY <1>1, <1>2, <2>1, <2>2, <2>3 DEF ReturnInv, kernel, ResultsAreTrue,
       CheckIsFirstLook, FailsForAReason, Returned
  <2> QED  BY <1>2, <2>4, <2>5, <2>6 DEF LoadInv
<1>4. CASE ~Sees /\ pc' = "sleep" /\ eof' = TRUE /\ UNCHANGED <<tries, ret>>
  <2>1. ~first' /\ first' \in BOOLEAN
    BY <1>1, <1>4 DEF Sees, LoadInv, LookInv, ScriptInv
  <2>2. Absent
    <3>1. CASE eof
      BY <1>1, <3>1 DEF LoadInv, LookInv
    <3>2. CASE ~eof
      <4>1. mod \notin loaded
        BY <1>4, <3>2 DEF Sees
      <4>2. mod \in start \cup gained => mod \in lost
        BY <1>1, <4>1 DEF LoadInv, KernelInv
      <4>3. op = "insmod" => mod \in start \cup gained \/ excuse
        BY <1>1 DEF LoadInv, ResultInv, Checking
      <4> QED  BY <4>2, <4>3 DEF Absent
    <3> QED  BY <3>1, <3>2
  <2>3. ScriptInv' /\ LookInv'
    BY <1>1, <1>2, <1>4, <2>1, <2>2 DEF LoadInv, ScriptInv, LookInv
  <2>4. ResultInv' /\ ReturnInv'
    BY <1>1, <1>2, <1>4 DEF LoadInv, ResultInv, ReturnInv, kernel, Checking, ResultsAreTrue,
       CheckIsFirstLook, FailsForAReason, Returned
  <2> QED  BY <1>2, <2>3, <2>4 DEF LoadInv
<1> QED  BY <1>3, <1>4 DEF Look

\* A sleep, after which driver_check reads the same stream again.
LEMMA SleepHolds ==
  ASSUME LoadInv, Sleep
  PROVE  LoadInv'
<1>1. /\ Quiet /\ pc = "sleep" /\ UNCHANGED <<kernel, history, todo>>
  BY DEF Sleep, Quiet, history
<1>2. eof /\ ~first /\ Absent /\ first \in BOOLEAN
  BY <1>1 DEF LoadInv, LookInv, ScriptInv
<1>3. CASE Answer(FALSE)
  BY <1>1, <1>2, <1>3, NotFound DEF Checking, history
<1>4. CASE pc' = "look" /\ UNCHANGED <<eof, ret>>
  <2>1. KernelInv' /\ (Absent' <=> Absent) /\ op' = op /\ mod' = mod /\ op \in CallOps
    BY <1>1, QuietKernel
  <2> QED
    BY <1>1, <1>2, <1>4, <2>1 DEF LoadInv, ScriptInv, LookInv, ResultInv, ReturnInv, kernel,
       history, Checking, ResultsAreTrue, CheckIsFirstLook, FailsForAReason, Returned
<1> QED  BY <1>3, <1>4 DEF Sleep

\* One try of rmmod.
LEMMA DeleteHolds ==
  ASSUME LoadInv, DeleteModule
  PROVE  LoadInv'
<1>1. /\ pc = "enter" /\ op = "rmmod" /\ UNCHANGED <<todo, eof, first, blind>>
      /\ op' = op /\ mod' = mod
  BY SameCall DEF DeleteModule
<1>2. CASE DeleteInUse
  <2>1. UNCHANGED kernel /\ ret' = -1 /\ pc' \in {"enter", "return"}
    BY <1>2 DEF DeleteInUse, Return
  <2>2. KernelInv'
    BY <1>1, <2>1 DEF LoadInv, KernelInv, kernel
  <2> QED
    BY <1>1, <2>1, <2>2 DEF LoadInv, ScriptInv, LookInv, ResultInv, ReturnInv,
       Checking, ResultsAreTrue, CheckIsFirstLook, FailsForAReason, Returned
<1>3. CASE DeleteDone \/ DeleteFails
  <2>1. pc' = "open" /\ (ret' = 0 => mod \in lost')
    BY <1>3 DEF DeleteDone, DeleteFails, Remove
  <2>2. KernelInv'
    BY <1>1, <1>3 DEF DeleteDone, DeleteFails, Remove, kernel, LoadInv, KernelInv
  <2> QED
    BY <1>1, <2>1, <2>2 DEF LoadInv, ScriptInv, LookInv, ResultInv, ReturnInv,
       Checking, ResultsAreTrue, CheckIsFirstLook, FailsForAReason, Returned
<1> QED  BY <1>2, <1>3 DEF DeleteModule

\* The Wi-Fi service can only add to what a call knows.
LEMMA WifiHolds ==
  ASSUME LoadInv, WifiService \/ UNCHANGED vars
  PROVE  LoadInv'
<1>1. UNCHANGED <<todo, pc, eof, ret, first, blind, excuse>>
  BY DEF WifiService, history, vars
<1>2. /\ start' = start /\ gained \subseteq gained' /\ lost \subseteq lost'
      /\ KernelInv'
  <2>1. CASE \E m : Insert(m)
    BY <1>1, <2>1 DEF Insert, LoadInv, KernelInv
  <2>2. CASE \E m : Remove(m)
    BY <1>1, <2>2 DEF Remove, LoadInv, KernelInv
  <2>3. CASE UNCHANGED <<loaded, start, gained, lost>>
    BY <1>1, <2>3 DEF LoadInv, KernelInv
  <2> QED  BY <2>1, <2>2, <2>3 DEF WifiService, vars, kernel
<1>3. op' = op /\ mod' = mod
  BY <1>1, SameCall
<1>4. ScriptInv' /\ LookInv' /\ ResultInv'
  BY <1>1, <1>2, <1>3 DEF LoadInv, ScriptInv, LookInv, ResultInv, Absent
<1>5. ReturnInv'
  BY <1>1, <1>2, <1>3 DEF LoadInv, ReturnInv, ResultsAreTrue, CheckIsFirstLook,
     FailsForAReason, Returned
<1> QED  BY <1>2, <1>4, <1>5 DEF LoadInv
-----------------------------------------------------------------------------
(***************************************************************************)
(* Theorems.                                                               *)
(***************************************************************************)
LEMMA InvariantHolds == Spec => []LoadInv
<1>1. Init => LoadInv
  <2> SUFFICES ASSUME Init PROVE LoadInv
    OBVIOUS
  <2>1. todo \in Seq(Calls) /\ pc = "idle" /\ eof = FALSE /\ first = FALSE
    BY DEF Init
  <2>2. ScriptInv /\ KernelInv /\ LookInv /\ ResultInv
    BY <2>1 DEF ScriptInv, KernelInv, LookInv, ResultInv, Checking
  <2>3. ReturnInv
    BY <2>1 DEF ReturnInv, ResultsAreTrue, CheckIsFirstLook, FailsForAReason, Returned
  <2> QED  BY <2>2, <2>3 DEF LoadInv
<1>2. LoadInv /\ [Next]_vars => LoadInv'
  BY CallsBegin, InsmodCheckHolds, LoadHolds, OpenHolds, LookHolds, SleepHolds,
     DeleteHolds, WifiHolds DEF Next, Step
<1> QED  BY <1>1, <1>2, PTL DEF Spec

\* insmod reports success only of a module that was loaded in the course of the
\* call, and rmmod only of one that was absent or removed in it, whatever the
\* Wi-Fi service loads and unloads between their looks at /proc/modules.
THEOREM ResultsHoldTrue == Spec => []ResultsAreTrue
BY InvariantHolds, PTL DEF LoadInv, ReturnInv

\* For every timeout: driver_check, and so insmod, answers what its first look at
\* /proc/modules showed; the rounds that follow read a stream at its end.
THEOREM FirstLookDecides == Spec => []CheckIsFirstLook
BY InvariantHolds, PTL DEF LoadInv, ReturnInv

\* insmod fails only if the file or the kernel refused, /proc/modules could not be
\* read, or the module was unloaded under it.
THEOREM FailuresHaveReasons == Spec => []FailsForAReason
BY InvariantHolds, PTL DEF LoadInv, ReturnInv
-----------------------------------------------------------------------------
(***************************************************************************)
(* Types, the counters above all.                                          *)
(***************************************************************************)
\* Where driver_check is, a round is left, and where a call is not at its end, a try.
CountInv ==
  /\ pc \in Checking \cup {"load"} => time > 0
  /\ pc = "enter" /\ op = "insmod" => time > 0
  /\ pc \in Checking \cup {"load", "enter"} => tries > 0

\* The modules are modules, and the flags flags.
ModulesInv == loaded \cup held \cup start \cup gained \cup lost \subseteq Modules
FlagsInv == eof \in BOOLEAN /\ first \in BOOLEAN /\ blind \in BOOLEAN /\ excuse \in BOOLEAN
TimesInv ==
  /\ pc \in {"idle", "enter", "load", "open", "look", "sleep", "return"}
  /\ time \in Nat /\ tries \in Nat /\ ret \in {-1, 0, 1}

TypeInv == ModulesInv /\ FlagsInv /\ TimesInv /\ CountInv

\* TypeOK, in three parts.
LEMMA TypeParts == TypeOK <=> ModulesInv /\ FlagsInv /\ TimesInv
BY DEF TypeOK, ModulesInv, FlagsInv, TimesInv

\* The next call has its own time.
LEMMA BeginType ==
  ASSUME TypeInv, NEW script \in Seq(Calls), Begin(script)
  PROVE  TypeInv'
<1>1. ModulesInv'
  BY DEF Begin, TypeInv, ModulesInv
<1>2. FlagsInv' /\ ret' = 0
  BY DEF Begin, FlagsInv
<1>3. CASE script = <<>>
  <2>1. pc' = "idle" /\ time' = 0 /\ tries' = 0
    BY <1>3 DEF Begin
  <2> QED  BY <1>1, <1>2, <2>1 DEF TypeInv, TimesInv, CountInv, Checking
<1>4. CASE script # <<>>
  <2>1. Head(script) \in Calls
    BY <1>4, HeadTailProperties
  <2>2. time' \in Nat \ {0} /\ tries' \in Nat \ {0}
    BY <1>4, <2>1 DEF Begin, Calls
  <2>3. pc' \in {"open", "enter"}
    BY <1>4 DEF Begin
  <2> QED  BY <1>1, <1>2, <2>2, <2>3 DEF TypeInv, TimesInv, CountInv
<1> QED  BY <1>3, <1>4

\* What the caller makes of an answer.
LEMMA AnswerType ==
  ASSUME TypeInv, op \in CallOps, NEW found \in BOOLEAN, Answer(found), pc \in Checking
  PROVE  /\ eof' = FALSE /\ ret' \in {-1, 0, 1} /\ tries' \in Nat
         /\ pc' = "return" \/ (pc' = "enter" /\ op = "rmmod" /\ tries' > 0)
<1>1. tries \in Nat /\ tries > 0 /\ ret \in {-1, 0, 1}
  BY DEF TypeInv, TimesInv, CountInv
<1> QED  BY <1>1 DEF Answer, Return, TriesLeft, CallOps

\* Every step keeps the types.
LEMMA TypeNext == LoadInv /\ TypeInv /\ [Next]_vars => TypeInv'
<1> SUFFICES ASSUME LoadInv, TypeInv, [Next]_vars PROVE TypeInv'
  OBVIOUS
<1>1. ASSUME pc # "idle", UNCHANGED todo PROVE op' = op /\ op \in CallOps
  BY <1>1, SameCall DEF LoadInv, ScriptInv
<1>2. CASE PowerOn
  BY <1>2, ScriptsAreCalls, BeginType DEF PowerOn
<1>3. CASE NextCall
  <2>1. Tail(todo) \in Seq(Calls)
    BY <1>3, HeadTailProperties DEF NextCall, LoadInv, ScriptInv
  <2> QED  BY <1>3, <2>1, BeginType DEF NextCall
<1>4. CASE InsmodCheck \/ NoFile
  <2>1. pc # "idle" /\ UNCHANGED <<todo, time, tries, eof, kernel>>
    BY <1>4 DEF InsmodCheck, NoFile
  <2>2. /\ pc' \in {"return", "load"} /\ ret' \in {0, -1, ret}
        /\ pc' = "load" => time > 0 /\ tries > 0
    BY <1>4 DEF InsmodCheck, NoFile, Return, TypeInv, CountInv
  <2>3. FlagsInv'
    BY <1>4 DEF InsmodCheck, NoFile, Readable, Unreadable, TypeInv, FlagsInv
  <2>4. ModulesInv'
    BY <2>1 DEF kernel, TypeInv, ModulesInv
  <2> QED  BY <2>1, <2>2, <2>3, <2>4 DEF TypeInv, TimesInv, CountInv, Checking
<1>5. CASE FinitModule
  <2>1. /\ pc = "load" /\ pc' = "open" /\ UNCHANGED <<todo, time, tries, eof, ret, first, blind>>
        /\ excuse' \in {excuse, TRUE}
    BY <1>5 DEF FinitModule
  <2>2. ModulesInv'
    <3>1. todo \in Seq(Calls) /\ todo # <<>>
      BY <2>1 DEF LoadInv, ScriptInv
    <3>2. Head(todo) \in Calls
      BY <3>1, HeadTailProperties
    <3>3. mod \in Modules
      BY <3>2 DEF mod, Calls
    <3>4. Insert(mod) \/ UNCHANGED kernel
      BY <1>5 DEF FinitModule
    <3> QED  BY <3>3, <3>4 DEF Insert, kernel, TypeInv, ModulesInv
  <2>3. FlagsInv'
    BY <2>1 DEF TypeInv, FlagsInv
  <2> QED  BY <2>1, <2>2, <2>3 DEF TypeInv, TimesInv, CountInv, Checking
<1>6. CASE OpenModules \/ Look \/ Sleep
  <2>1. UNCHANGED <<todo, kernel>> /\ pc \in Checking
    BY <1>6 DEF OpenModules, Look, Sleep, Checking
  <2>2. op \in CallOps /\ op' = op
    BY <1>1, <2>1 DEF Checking
  <2>3. first' \in BOOLEAN /\ blind' \in BOOLEAN /\ excuse' \in BOOLEAN /\ ModulesInv'
    <3>1. first' \in BOOLEAN /\ blind' \in BOOLEAN /\ excuse' \in BOOLEAN
      <4>1. (first' = first \/ first' \in BOOLEAN) /\ blind' \in {blind, TRUE} /\ excuse' = excuse
        <5>1. CASE OpenModules
          BY <5>1 DEF OpenModules, Readable, Unreadable
        <5>2. CASE Look
          <6>1. first' = IF eof THEN first ELSE mod \in loaded
            BY <5>2 DEF Look
          <6>2. first' = first \/ first' \in BOOLEAN
            <7>1. CASE eof
              BY <6>1, <7>1
            <7>2. CASE ~eof
              BY <6>1, <7>2
            <7> QED  BY <7>1, <7>2
          <6> QED  BY <5>2, <6>2 DEF Look
        <5>3. CASE Sleep
          BY <5>3 DEF Sleep, history
        <5> QED  BY <1>6, <5>1, <5>2, <5>3
      <4> QED  BY <4>1 DEF TypeInv, FlagsInv
    <3> QED  BY <2>1, <3>1 DEF kernel, TypeInv, ModulesInv
  <2>4. time > 0 /\ time \in Nat /\ tries > 0 /\ tries \in Nat /\ ret \in {-1, 0, 1}
    BY <2>1 DEF TypeInv, TimesInv, CountInv
  <2>5. time' \in Nat
    <3>1. CASE OpenModules \/ Look
      BY <2>4, <3>1 DEF OpenModules, Look
    <3>2. CASE Sleep
      <4>1. time' = time - 1
        BY <3>2 DEF Sleep
      <4> QED  BY <2>4, <4>1
    <3> QED  BY <1>6, <3>1, <3>2
  <2>6. \/ \E found \in BOOLEAN : Answer(found)
        \/ /\ pc' \in {"look", "sleep"} /\ eof' \in BOOLEAN /\ time' > 0
           /\ UNCHANGED <<tries, ret>>
    BY <1>6, <2>4 DEF OpenModules, Look, Sleep, TypeInv, FlagsInv
  <2>7. CASE \E found \in BOOLEAN : Answer(found)
    <3>1. /\ eof' = FALSE /\ ret' \in {-1, 0, 1} /\ tries' \in Nat
          /\ pc' = "return" \/ (pc' = "enter" /\ op = "rmmod" /\ tries' > 0)
      BY <2>1, <2>2, <2>7, AnswerType
    <3> QED  BY <2>2, <2>3, <2>5, <3>1 DEF TypeInv, FlagsInv, TimesInv, CountInv, Checking
  <2>8. CASE /\ pc' \in {"look", "sleep"} /\ eof' \in BOOLEAN /\ time' > 0
             /\ UNCHANGED <<tries, ret>>
    BY <2>3, <2>4, <2>5, <2>8 DEF TypeInv, FlagsInv, TimesInv, CountInv, Checking
  <2> QED  BY <2>6, <2>7, <2>8
<1>7. CASE DeleteModule
  <2>1. /\ pc = "enter" /\ op = "rmmod" /\ op' = op /\ UNCHANGED <<eof, first, blind>>
        /\ tries > 0 /\ tries \in Nat /\ time \in Nat
    BY <1>1, <1>7 DEF DeleteModule, TypeInv, TimesInv, CountInv
  <2>2. FlagsInv' /\ ModulesInv'
    BY <1>7, <2>1 DEF DeleteModule, DeleteInUse, DeleteDone, DeleteFails, Remove, kernel,
       TypeInv, FlagsInv, ModulesInv
  <2>3. CASE DeleteInUse
    BY <2>1, <2>2, <2>3 DEF DeleteInUse, TriesLeft, Return, TypeInv, TimesInv, CountInv, Checking
  <2>4. CASE DeleteDone \/ DeleteFails
    BY <2>1, <2>2, <2>4 DEF DeleteDone, DeleteFails, TypeInv, TimesInv, CountInv, Checking
  <2> QED  BY <1>7, <2>3, <2>4 DEF DeleteModule
<1>8. CASE WifiService \/ UNCHANGED vars
  <2>1. UNCHANGED <<todo, pc, time, tries, eof, ret, first, blind, excuse>>
    BY <1>8 DEF WifiService, history, vars
  <2>2. ModulesInv'
    <3>1. CASE WifiService
      <4>1. PICK m \in {"wifi", "comm"} :
              \/ Insert(m) \/ Remove(m)
              \/ /\ m \in loaded /\ held' \in {held \cup {m}, held \ {m}}
                 /\ UNCHANGED <<loaded, start, gained, lost>>
        BY <3>1 DEF WifiService
      <4>2. m \in Modules
        BY DEF Modules
      <4> QED  BY <4>1, <4>2 DEF Insert, Remove, TypeInv, ModulesInv
    <3>2. CASE UNCHANGED vars
      BY <3>2 DEF vars, kernel, TypeInv, ModulesInv
    <3> QED  BY <1>8, <3>1, <3>2
  <2>3. FlagsInv' /\ TimesInv'
    BY <2>1 DEF TypeInv, FlagsInv, TimesInv
  <2>4. CountInv'
    BY <2>1, SameCall DEF TypeInv, CountInv, Checking
  <2> QED  BY <2>2, <2>3, <2>4 DEF TypeInv
<1> QED  BY <1>2, <1>3, <1>4, <1>5, <1>6, <1>7, <1>8 DEF Next, Step

\* Every variable has its type; above all, the two counters of driver_check and
\* rmmod, which are decremented in different places, end at 0 and not below.
THEOREM Typed == Spec => []TypeOK
<1>1. Init => TypeInv
  <2> SUFFICES ASSUME Init PROVE TypeInv
    OBVIOUS
  <2>1. ModulesInv /\ FlagsInv
    BY DEF Init, Modules, ModulesInv, FlagsInv
  <2>2. TimesInv /\ CountInv
    BY DEF Init, TimesInv, CountInv, Checking
  <2> QED  BY <2>1, <2>2 DEF TypeInv
<1>2. TypeInv => TypeOK
  BY TypeParts DEF TypeInv
<1> QED  BY <1>1, <1>2, InvariantHolds, TypeNext, PTL DEF Spec
=============================================================================
