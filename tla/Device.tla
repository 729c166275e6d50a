------------------------------- MODULE Device -------------------------------
(***************************************************************************)
(* device.c built with SDL: the window that the first frame opens, the     *)
(* queue of SDL events and the key register.  The user acts at any time,   *)
(* also while the queue is drained; every SDL call that creates something  *)
(* may fail.                                                               *)
(***************************************************************************)
EXTENDS Integers, Sequences

CONSTANTS
  Syms,        \* SDL key symbols the user may press
  MaxEvents,   \* bound: events in a behaviour
  MaxInits     \* bound: calls of gpu_init in a behaviour

ASSUME DeviceAssumption == Syms \subseteq Nat /\ MaxEvents \in Nat /\ MaxInits \in Nat

QUIT == 113    \* 'q'

Event == [type : {"quit", "key", "other"}, sym : Syms \cup {0}]

VARIABLES
  at,          \* "run": the program runs; "pump": in pump_events; "exit"
  log,         \* every event so far: those after polled are SDL's queue
  polled,
  last_key,    \* the static variables of device.c
  window, renderer, texture, ready,
  windows,     \* windows that SDL keeps open
  inits,       \* calls of SDL_Init
  handlers,    \* times gpu_shutdown is registered with atexit
  from,        \* the event that wrote last_key; 0 when it was taken
  before,      \* last_key when the running flush began
  answer, got  \* what GPU_INPUT returned last, and the events it reported

sdl == <<window, renderer, texture, ready, windows, inits, handlers>>
keyboard == <<last_key, from, before, answer, got>>
vars == <<at, log, polled, sdl, keyboard>>

Init ==
  /\ at = "run" /\ log = <<>> /\ polled = 0
  /\ last_key = 0 /\ from = 0 /\ before = 0 /\ answer = 0 /\ got = <<>>
  /\ window = FALSE /\ renderer = FALSE /\ texture = FALSE /\ ready = FALSE
  /\ windows = 0 /\ inits = 0 /\ handlers = 0

-----------------------------------------------------------------------------
(* The user.  Keys need a window that has the focus; SDL turns SIGINT into *)
(* a quit event even without one.                                          *)
Occurs(e) ==
  /\ at # "exit"
  /\ Len(log) < MaxEvents
  /\ log' = Append(log, e)
  /\ UNCHANGED <<at, polled, sdl, keyboard>>

UserPresses == windows > 0 /\ \E s \in Syms : Occurs([type |-> "key", sym |-> s])
UserQuits == inits > 0 /\ Occurs([type |-> "quit", sym |-> 0])
UserMoves == windows > 0 /\ Occurs([type |-> "other", sym |-> 0])

(* device_store_word to GPU_FLUSH with the window open: the frame is       *)
(* presented and the events are pumped.                                    *)
gpu_flush ==
  /\ at = "run" /\ ready
  /\ at' = "pump"
  /\ before' = last_key
  /\ UNCHANGED <<log, polled, sdl, last_key, from, answer, got>>

gpu_init_sdl_fails ==
  /\ at = "run" /\ ~ ready
  /\ UNCHANGED vars

(* Mutant of gpu_init: the check of the handles lets a missing texture     *)
(* pass.                                                                   *)
gpu_init_Unchecked ==
  /\ at = "run" /\ ~ ready
  /\ inits < MaxInits
  /\ inits' = inits + 1
  /\ \E w, r, t \in BOOLEAN :
       /\ (r => w) /\ (t => r)
       /\ window' = w /\ renderer' = r /\ texture' = t
       /\ windows' = windows + (IF w THEN 1 ELSE 0)
       /\ IF w /\ r
          THEN handlers' = handlers + 1 /\ ready' = TRUE /\ at' = "pump" /\ before' = last_key
          ELSE UNCHANGED <<handlers, ready, at, before>>
  /\ UNCHANGED <<log, polled, last_key, from, answer, got>>

(* gpu_init: the three handles are overwritten, whatever they were; a      *)
(* renderer needs a window, a texture a renderer.  Only if all exist the   *)
(* flush goes on.                                                          *)
gpu_init ==
  /\ at = "run" /\ ~ ready
  /\ inits < MaxInits
  /\ inits' = inits + 1
  /\ \E w, r, t \in BOOLEAN :
       /\ (r => w) /\ (t => r)
       /\ window' = w /\ renderer' = r /\ texture' = t
       /\ windows' = windows + (IF w THEN 1 ELSE 0)
       /\ IF w /\ r /\ t
          THEN handlers' = handlers + 1 /\ ready' = TRUE /\ at' = "pump" /\ before' = last_key
          ELSE UNCHANGED <<handlers, ready, at, before>>
  /\ UNCHANGED <<log, polled, last_key, from, answer, got>>

(* What an event leaves in last_key: the low byte of the symbol.           *)
KeyOf(e) == IF e.type = "quit" THEN QUIT ELSE e.sym % 256

(* Mutant of pump_events: the event stays in the queue.                    *)
pump_events_Peek ==
  /\ at = "pump"
  /\ polled < Len(log)
  /\ IF log[polled + 1].type = "other" THEN UNCHANGED <<last_key, from>>
     ELSE last_key' = KeyOf(log[polled + 1]) /\ from' = polled + 1
  /\ UNCHANGED <<at, log, polled, sdl, before, answer, got>>

(* Mutant of pump_events: a key that waits is not overwritten.             *)
pump_events_FirstWins ==
  /\ at = "pump"
  /\ polled < Len(log)
  /\ polled' = polled + 1
  /\ IF log[polled + 1].type = "other" \/ last_key # 0 THEN UNCHANGED <<last_key, from>>
     ELSE last_key' = KeyOf(log[polled + 1]) /\ from' = polled + 1
  /\ UNCHANGED <<at, log, sdl, before, answer, got>>

(* One turn of the loop of pump_events.                                    *)
pump_events ==
  /\ at = "pump"
  /\ polled < Len(log)
  /\ polled' = polled + 1
  /\ IF log[polled + 1].type = "other" THEN UNCHANGED <<last_key, from>>
     ELSE last_key' = KeyOf(log[polled + 1]) /\ from' = polled + 1
  /\ UNCHANGED <<at, log, sdl, before, answer, got>>

(* The queue is empty: the flush returns.                                  *)
flushed ==
  /\ at = "pump"
  /\ polled = Len(log)
  /\ at' = "run"
  /\ UNCHANGED <<log, polled, sdl, keyboard>>

(* Mutant of device_load_word: the key stays.                              *)
device_load_word_Kept ==
  /\ at = "run"
  /\ answer' = last_key
  /\ got' = IF last_key = 0 THEN got ELSE Append(got, from)
  /\ Len(got') <= MaxEvents + 1
  /\ UNCHANGED <<at, log, polled, sdl, last_key, from, before>>

(* device_load_word of GPU_INPUT.                                          *)
device_load_word ==
  /\ at = "run"
  /\ answer' = last_key
  /\ got' = IF last_key = 0 THEN got ELSE Append(got, from)
  /\ last_key' = 0 /\ from' = 0
  /\ UNCHANGED <<at, log, polled, sdl, before>>

(* The program ends: exit runs gpu_shutdown as often as it is registered.  *)
gpu_shutdown ==
  /\ at = "run"
  /\ at' = "exit"
  /\ IF handlers > 0
     THEN windows' = 0 /\ handlers' = handlers - 1
     ELSE UNCHANGED <<windows, handlers>>
  /\ UNCHANGED <<log, polled, window, renderer, texture, ready, inits, keyboard>>

exited == at = "exit" /\ UNCHANGED vars

Next ==
  \/ UserPresses \/ UserQuits \/ UserMoves
  \/ gpu_flush \/ gpu_init_sdl_fails \/ gpu_init \/ pump_events \/ flushed
  \/ device_load_word \/ gpu_shutdown \/ exited

(* The thread inside pump_events keeps running; users and programs owe     *)
(* nothing.                                                                *)
Spec == Init /\ [][Next]_vars /\ WF_vars(pump_events \/ flushed)

-----------------------------------------------------------------------------
(* A frame is only presented with a window, a renderer and a texture, and  *)
(* the window counts; gpu_shutdown is registered once, so that an exit     *)
(* destroys each handle once and leaves no window (gpu_init, gpu_shutdown).*)
ReadyOnce ==
  /\ ready => window /\ renderer /\ texture
  /\ at = "pump" => ready /\ windows > 0
  /\ at # "exit" => handlers = IF ready THEN 1 ELSE 0
  /\ at = "exit" => handlers = 0 /\ (ready => windows = 0)

(* device.h:8 "reads the most recent key": a key in the register is that   *)
(* of the last key or quit event SDL has delivered, with the low byte of   *)
(* its symbol.                                                             *)
MostRecentKey ==
  last_key # 0 =>
    /\ from \in 1..polled
    /\ last_key = KeyOf(log[from])
    /\ \A e \in (from + 1)..polled : log[e].type = "other"

(* device.c:91 "a key is reported once": the events the program reads are  *)
(* in the order in which they happened, none twice.                        *)
ReportedInOrder == \A j, k \in 1..Len(got) : j < k => got[j] < got[k]

(* The flush returns to the program once the user pauses (pump_events).    *)
FlushReturns == (at = "pump") ~> (at # "pump")

(* The device implements the register the machine is modelled with: what   *)
(* happens inside a flush is one Present.                                  *)
Register == INSTANCE KeyRegister
              WITH Keys <- {KeyOf(e) : e \in Event},
                   key <- IF at = "pump" THEN before ELSE last_key
ImplementsRegister == Register!Spec

=============================================================================
