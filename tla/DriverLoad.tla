----------------------------- MODULE DriverLoad -----------------------------
(***************************************************************************)
(* driver_check, insmod_check, insmod and rmmod of vendor_common.c, as     *)
(* BT_VND_OP_POWER_CTRL calls them to load the chip's drivers, while the   *)
(* Wi-Fi service loads, uses and unloads modules of its own.               *)
(*                                                                         *)
(* The kernel, its list /proc/modules and the Wi-Fi service are external.  *)
(* The list is read in one step; times are counted in sleeps of 20 ms.     *)
(***************************************************************************)
EXTENDS Naturals, Integers, Sequences

CONSTANTS
  CheckTime,  \* the sleeps in W1's driver_check("sdio_bt", 20)
  RmmodTime,  \* the sleeps in rmmod("wifi_comm", 100)
  LoadTime    \* the sleeps in insmod(..., 200)

ASSUME TimeAssumption == {CheckTime, RmmodTime, LoadTime} \subseteq Nat \ {0}

VARIABLES
  todo,     \* the calls POWER_CTRL has still to finish, the current one first
  pc,       \* "idle", "enter", "load", "open", "look", "sleep" or "return"
  time,     \* timeout_ms of driver_check
  tries,    \* timeout_ms of rmmod
  eof,      \* the stream of driver_check has reached its end
  ret,      \* ret of rmmod; the result, at "return"
  loaded,   \* the kernel's modules
  held,     \* those a process uses
  start,    \* the modules that were loaded when the call began,
  gained,   \* those that have been loaded since
  lost,     \* and those that have been unloaded
  first,    \* what /proc/modules said when the call last opened and read it
  blind,    \* /proc/modules could not be opened in the call
  excuse    \* the kernel refused a module, or its file was not there

kernel == <<loaded, held, start, gained, lost>>
history == <<first, blind, excuse>>
vars == <<todo, pc, time, tries, eof, ret, kernel, history>>

Modules == {"wifi", "comm", "bt"}
Call(op, mod, t) == [op |-> op, mod |-> mod, time |-> t]
op == Head(todo).op
mod == Head(todo).mod

LoadBoth == <<Call("insmod", "comm", LoadTime), Call("insmod", "bt", LoadTime)>>

\* POWER_ON of W1 and of the other chips.
PowerOns ==
  {<<Call("check", "bt", CheckTime)>> \o LoadBoth,
   <<Call("rmmod", "wifi", RmmodTime)>> \o LoadBoth}

\* The driver of Bluetooth needs the common one.
Resolved(m) == m = "bt" => "comm" \in loaded
InUse(m) == m \in held \/ (m = "comm" /\ "bt" \in loaded)

Init ==
  /\ todo = <<>> /\ pc = "idle"
  /\ time = 0 /\ tries = 0 /\ eof = FALSE /\ ret = 0
  /\ loaded \in {{}, {"wifi"}} /\ held = {}
  /\ start = {} /\ gained = {} /\ lost = {}
  /\ first = FALSE /\ blind = FALSE /\ excuse = FALSE
-----------------------------------------------------------------------------
\* The next call begins; the script is empty when POWER_CTRL has done its work.
Begin(script) ==
  /\ todo' = script
  /\ IF script = <<>>
       THEN pc' = "idle" /\ time' = 0 /\ tries' = 0
       ELSE /\ pc' = IF Head(script).op = "check" THEN "open" ELSE "enter"
            /\ time' = Head(script).time /\ tries' = Head(script).time
  /\ eof' = FALSE /\ ret' = 0
  /\ start' = loaded /\ gained' = {} /\ lost' = {}
  /\ first' = FALSE /\ blind' = FALSE /\ excuse' = FALSE
  /\ UNCHANGED <<loaded, held>>

PowerOn == pc = "idle" /\ \E script \in PowerOns : Begin(script)
NextCall == pc = "return" /\ Begin(Tail(todo))

Return(result) == pc' = "return" /\ ret' = result

\* fopen("/proc/modules") may fail.
Readable == blind' = blind
Unreadable == blind' = TRUE

\* insmod_check.
InsmodCheck ==
  /\ pc = "enter" /\ op = "insmod"
  /\ \/ Readable /\ mod \in loaded /\ Return(0)
     \/ Readable /\ mod \notin loaded /\ pc' = "load" /\ UNCHANGED ret
     \/ Unreadable /\ pc' = "load" /\ UNCHANGED ret
  /\ first' = (pc' = "return")
  /\ UNCHANGED <<todo, time, tries, eof, kernel, excuse>>

\* Neither the directory of the property nor the default one has the file.
NoFile ==
  /\ pc = "load" /\ Return(-1)
  /\ excuse' = TRUE
  /\ UNCHANGED <<todo, time, tries, eof, kernel, first, blind>>

Insert(m) ==
  /\ loaded' = loaded \cup {m} /\ gained' = gained \cup {m}
  /\ UNCHANGED <<held, start, lost>>

Remove(m) ==
  /\ loaded' = loaded \ {m} /\ lost' = lost \cup {m}
  /\ UNCHANGED <<held, start, gained>>

FinitModuleStrict ==
  /\ pc = "load"
  /\ \/ mod \notin loaded /\ Resolved(mod) /\ Insert(mod) /\ pc' = "open" /\ UNCHANGED <<ret, excuse>>
     \/ mod \in loaded /\ Return(-1) /\ UNCHANGED <<kernel, excuse>>
     \/ Return(-1) /\ excuse' = TRUE /\ UNCHANGED kernel
  /\ UNCHANGED <<todo, time, tries, eof, first, blind>>

\* finit_module, whose failure is only logged.
FinitModule ==
  /\ pc = "load" /\ pc' = "open"
  /\ \/ mod \notin loaded /\ Resolved(mod) /\ Insert(mod) /\ UNCHANGED excuse
     \/ mod \in loaded /\ UNCHANGED <<kernel, excuse>>
     \/ excuse' = TRUE /\ UNCHANGED kernel
  /\ UNCHANGED <<todo, time, tries, eof, ret, first, blind>>
-----------------------------------------------------------------------------
(***************************************************************************)
(* driver_check, for itself or at the end of insmod and of a try of rmmod. *)
(***************************************************************************)
TriesUncounted == tries
TriesLeft == tries - 1

\* What the caller does with the answer.
Answer(found) ==
  /\ eof' = FALSE
  /\ CASE op = "check" -> Return(IF found THEN 1 ELSE 0) /\ UNCHANGED tries
       [] op = "insmod" -> Return(IF found THEN 0 ELSE -1) /\ UNCHANGED tries
       [] op = "rmmod" /\ ~found -> Return(0) /\ UNCHANGED tries
       [] OTHER ->
            /\ tries' = TriesLeft
            /\ IF tries' > 0 THEN pc' = "enter" /\ UNCHANGED ret ELSE Return(ret)

OpenModules ==
  /\ pc = "open"
  /\ \/ /\ Readable /\ pc' = "look" /\ eof' = FALSE
        /\ UNCHANGED <<tries, ret>>
     \/ Unreadable /\ Answer(FALSE)
  /\ UNCHANGED <<todo, time, kernel, first, excuse>>

SeesAgain == mod \in loaded

\* Once fgets has returned NULL the stream stays at its end: the later rounds of
\* the loop see nothing.
Sees == mod \in loaded /\ ~eof

Look ==
  /\ pc = "look"
  /\ first' = (IF eof THEN first ELSE mod \in loaded)
  /\ IF Sees THEN Answer(TRUE)
             ELSE pc' = "sleep" /\ eof' = TRUE /\ UNCHANGED <<tries, ret>>
  /\ UNCHANGED <<todo, time, kernel, blind, excuse>>

Sleep ==
  /\ pc = "sleep" /\ time' = time - 1
  /\ IF time' > 0 THEN pc' = "look" /\ UNCHANGED <<tries, eof, ret>>
                  ELSE Answer(FALSE)
  /\ UNCHANGED <<todo, kernel, history>>
-----------------------------------------------------------------------------
(***************************************************************************)
(* One try of rmmod.                                                       *)
(***************************************************************************)
DeleteInUseForgets ==
  /\ mod \in loaded /\ InUse(mod)
  /\ tries' = TriesLeft
  /\ IF tries' > 0 THEN pc' = "enter" /\ UNCHANGED ret ELSE Return(ret)
  /\ UNCHANGED <<kernel, excuse, time>>

\* EAGAIN, which O_NONBLOCK gives for a module in use.
DeleteInUse ==
  /\ mod \in loaded /\ InUse(mod)
  /\ tries' = TriesLeft
  /\ IF tries' > 0 THEN pc' = "enter" /\ ret' = -1 ELSE Return(-1)
  /\ UNCHANGED <<kernel, excuse, time>>

DeleteDone ==
  /\ mod \in loaded /\ ~InUse(mod) /\ Remove(mod)
  /\ ret' = 0 /\ pc' = "open" /\ time' = 1
  /\ UNCHANGED <<tries, excuse>>

\* ENOENT, or the kernel refuses.
DeleteFails ==
  /\ ret' = -1 /\ pc' = "open" /\ time' = 1
  /\ IF mod \in loaded THEN excuse' = TRUE ELSE UNCHANGED excuse
  /\ UNCHANGED <<kernel, tries>>

DeleteModule ==
  /\ pc = "enter" /\ op = "rmmod"
  /\ DeleteInUse \/ DeleteDone \/ DeleteFails
  /\ UNCHANGED <<todo, eof, first, blind>>
-----------------------------------------------------------------------------
\* The Wi-Fi service brings its modules up and down at any time, and uses them.
WifiService ==
  /\ \E m \in {"wifi", "comm"} :
       \/ m \notin loaded /\ Insert(m)
       \/ m \in loaded /\ ~InUse(m) /\ Remove(m)
       \/ /\ m \in loaded
          /\ held' \in {held \cup {m}, held \ {m}} \ {held}
          /\ UNCHANGED <<loaded, start, gained, lost>>
  /\ UNCHANGED <<todo, pc, time, tries, eof, ret, history>>

Step ==
  \/ NextCall
  \/ InsmodCheck \/ NoFile \/ FinitModule
  \/ OpenModules \/ Look \/ Sleep
  \/ DeleteModule

Next == PowerOn \/ Step \/ WifiService

\* The thread of op() goes on.
Spec == Init /\ [][Next]_vars /\ WF_vars(Step)
-----------------------------------------------------------------------------
(***************************************************************************)
(* Properties.                                                             *)
(***************************************************************************)
\* Type invariant.  Neither of the two counters falls below 0.
TypeOK ==
  /\ pc \in {"idle", "enter", "load", "open", "look", "sleep", "return"}
  /\ time \in Nat /\ tries \in Nat /\ ret \in {-1, 0, 1}
  /\ loaded \cup held \cup start \cup gained \cup lost \subseteq Modules
  /\ eof \in BOOLEAN /\ first \in BOOLEAN /\ blind \in BOOLEAN /\ excuse \in BOOLEAN

Returned(o) == pc = "return" /\ op = o

\* An insmod that reports success found the module loaded at some moment of the
\* call, and an rmmod that does so found it absent or removed it, unless it could
\* not read /proc/modules; what others load and unload meanwhile fakes neither.
ResultsAreTrue ==
  /\ Returned("insmod") /\ ret = 0 => mod \in start \cup gained
  /\ Returned("rmmod") /\ ret = 0 => mod \notin start \/ mod \in lost \/ blind

\* driver_check, and so insmod, answers what it saw at its first look, however
\* long it waits: a driver that comes up in the time it is given is not noticed.
CheckIsFirstLook ==
  /\ Returned("check") => (ret = 1 <=> first)
  /\ Returned("insmod") => (ret = 0 <=> first)

\* An insmod fails only if the kernel or the file system did, or somebody has
\* unloaded the module meanwhile; in particular not because another process was
\* faster to load it.
FailsForAReason ==
  Returned("insmod") /\ ret = -1 => excuse \/ blind \/ mod \in lost

\* POWER_ON ends, whatever the Wi-Fi service does to the modules.
PowerOnEnds == pc # "idle" ~> pc = "idle"
=============================================================================
