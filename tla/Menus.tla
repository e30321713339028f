-------------------------------- MODULE Menus --------------------------------
(***************************************************************************)
(* The input thread and the key queue of ui.c, the menu it draws, and the  *)
(* menu functions of recovery.c that take the keys: prompt_and_wait, the   *)
(* show_menu_ functions, the lists of backups and the file chooser.        *)
(*                                                                         *)
(* The input thread queues keys at any time, also while the main thread    *)
(* formats a partition; what is on the screen then need not be what is     *)
(* there when the key is taken.                                            *)
(***************************************************************************)
EXTENDS Integers, Sequences

CONSTANTS
  Styles,     \* of each menu: "main", "loop", "once" or "chooser"
  Items,      \* of each menu: a sequence of [kind, to]
  Headers,    \* of each menu: the rows of its header
  Main,       \* the menu of prompt_and_wait
  Rows,       \* text_rows
  MenuMax,    \* MENU_MAX_ROWS
  QueueMax,   \* the size of key_queue
  MaxKeys     \* bound: key presses in a behaviour

MenuIds == DOMAIN Styles
Kinds == {"return", "menu", "script", "wipe", "toggle", "file"}

ASSUME MenusAssumption ==
  /\ Styles \in [MenuIds -> {"main", "loop", "once", "chooser"}]
  /\ \A m \in MenuIds :
       /\ Items[m] \in Seq([kind : Kinds, to : MenuIds])
       /\ Items[m] # <<>> /\ Headers[m] \in Nat /\ Headers[m] < Rows
       /\ \A i \in DOMAIN Items[m] :
            Items[m][i].kind = "file" => Styles[m] = "chooser"
       \* get_file_selection takes the first item for the way back.
       /\ Styles[m] = "chooser" => Items[m][1].kind = "return"
  /\ Main \in MenuIds /\ Styles[Main] = "main"
  /\ {Rows, MenuMax, QueueMax} \subseteq Nat \ {0} /\ MenuMax >= Rows
  /\ MaxKeys \in Nat

VARIABLES
  queue,    \* key_queue; of each key also when it was pressed
  held,     \* key_pressed, of the keys of the reboot chord
  text,     \* show_text
  input,    \* the event the input thread has still to look at for hot keys
  screen,   \* the menu of ui.c: show_menu, menu_top, menu_items, menu_sel, ...
  stack,    \* the calls of the main thread: menu function and "selected"
  main,     \* where the main thread is; whether its menu was shown before
  asleep,   \* it waits for key_queue_cond
  pressed   \* how many keys were pressed

vars == <<queue, held, text, input, screen, stack, main, asleep, pressed>>

\* "text" is the key that completes Alt+L or Home+End, and any key without an
\* action.
Keys == {"up", "down", "select", "back", "text"}
Chord == {"up", "down", "select"}
NoEvent == [key |-> "text", down |-> FALSE]

Frame == stack[1]
Style == Styles[Frame.menu]
Item == Items[Frame.menu][Frame.selected + 1]
At(pc) == main.pc = pc

Smaller(a, b) == IF a < b THEN a ELSE b

\* ui_start_menu
Screen(m) ==
  [show |-> TRUE, menu |-> m, top |-> Headers[m],
   items |-> Smaller(Len(Items[m]), MenuMax - Headers[m]),
   sel |-> 0, start |-> 0]

\* The history of the keys: what is on the screen is no longer what it was.
Stale(keys) == [i \in DOMAIN keys |-> [keys[i] EXCEPT !.fresh = FALSE]]

\* main() has a command to run before the first prompt.
Init ==
  /\ queue = <<>> /\ held = {} /\ text = TRUE /\ input = NoEvent
  /\ screen = [Screen(Main) EXCEPT !.show = FALSE]
  /\ stack = <<[menu |-> Main, selected |-> 0]>>
  /\ main = [pc |-> "command", again |-> FALSE]
  /\ asleep = FALSE /\ pressed = 0

-----------------------------------------------------------------------------
(* input_thread                                                            *)

Busy == At("command") \/ At("running")

Queued(k) == Append(queue, [key |-> k, fresh |-> TRUE, busy |-> Busy])

\* Mutants of Enqueue: one key too many, and a missing pthread_cond_signal.
EnqueueOneMore(k) ==
  IF Len(queue) <= QueueMax
  THEN queue' = Queued(k) /\ asleep' = FALSE
  ELSE UNCHANGED <<queue, asleep>>
EnqueueSilently(k) ==
  /\ queue' = IF Len(queue) < QueueMax THEN Queued(k) ELSE queue
  /\ UNCHANGED asleep

\* A key is dropped when the queue is full.
Enqueue(k) ==
  IF Len(queue) < QueueMax
  THEN queue' = Queued(k) /\ asleep' = FALSE
  ELSE UNCHANGED <<queue, asleep>>

\* The keys that a trackball or the touch screen fake are not recorded.
Press(k) ==
  /\ input = NoEvent /\ pressed < MaxKeys /\ ~At("rebooted")
  /\ Enqueue(k)
  /\ \/ held' = held \cup ({k} \cap Chord)
     \/ k \in {"up", "down"} /\ held' = held
  /\ input' = [key |-> k, down |-> TRUE]
  /\ pressed' = pressed + 1
  /\ UNCHANGED <<text, screen, stack, main>>

Release(k) ==
  /\ input = NoEvent /\ k \in held /\ ~At("rebooted")
  /\ held' = held \ {k}
  /\ input' = [key |-> k, down |-> FALSE]
  /\ UNCHANGED <<queue, text, screen, stack, main, asleep, pressed>>

\* With the queue unlocked again: the text toggle and the reboot chord.
HotKeys ==
  /\ input # NoEvent /\ ~At("rebooted")
  /\ input' = NoEvent
  /\ text' = IF input.key = "text" THEN ~text ELSE text
  /\ main' = IF input.key = "select" /\ {"up", "down"} \subseteq held
             THEN [main EXCEPT !.pc = "rebooted"] ELSE main
  /\ UNCHANGED <<queue, held, screen, stack, asleep, pressed>>

-----------------------------------------------------------------------------
(* ui_menu_select                                                          *)

Wrapped(sel) ==
  LET s == IF sel < 0 THEN screen.items + sel ELSE sel
  IN  IF s >= screen.items THEN s - screen.items ELSE s

\* Mutant of MenuSelect: the version that ui.c has in a comment, with the
\* scrolling by one row and the wrapping around.
ScrolledByOne(sel) ==
  LET s == Wrapped(sel)
      up == IF s < screen.start THEN screen.start - 1 ELSE screen.start
  IN  [screen EXCEPT
         !.sel = s,
         !.start = IF s - up + screen.top >= Rows THEN up + 1 ELSE up]

MenuSelect(sel) ==
  LET s == Wrapped(sel)
      up == IF s < screen.start /\ screen.start > 0 THEN s ELSE screen.start
  IN  [screen EXCEPT
         !.sel = s,
         !.start = IF s - up + screen.top >= Rows
                   THEN s + screen.top - Rows + 1 ELSE up]

-----------------------------------------------------------------------------
(* The menu functions                                                      *)

Goto(pc) == main' = [main EXCEPT !.pc = pc]
Quiet == UNCHANGED <<held, text, input, pressed>>

\* main()'s command ends; no key is thrown away.
CommandEnds ==
  /\ At("command") /\ Goto("start")
  /\ Quiet /\ UNCHANGED <<queue, screen, stack, asleep>>

\* get_file_selection throws away keys before it shows its menu.
Discard ==
  /\ At("discard") /\ Goto("start")
  /\ queue' = <<>>
  /\ Quiet /\ UNCHANGED <<screen, stack, asleep>>

StartMenu ==
  /\ At("start")
  /\ screen' = Screen(Frame.menu)
  /\ stack' = [stack EXCEPT ![1].selected = 0]
  /\ queue' = Stale(queue)
  /\ Goto(IF Style = "chooser" THEN "wait" ELSE "shown")
  /\ Quiet /\ UNCHANGED asleep

\* Mutant of ThrowAway: ui_clear_key_queue is not called.
KeepKeys ==
  /\ At("shown") /\ Goto("wait")
  /\ Quiet /\ UNCHANGED <<queue, screen, stack, asleep>>

\* finish_recovery(NULL) has run; a menu shown again throws away keys.
ThrowAway ==
  /\ At("shown") /\ Goto("wait")
  /\ queue' = IF main.again THEN <<>> ELSE queue
  /\ Quiet /\ UNCHANGED <<screen, stack, asleep>>

\* ui_wait_key with an empty queue.
Sleep ==
  /\ At("wait") \/ At("asked")
  /\ queue = <<>> /\ ~asleep
  /\ asleep' = TRUE
  /\ Quiet /\ UNCHANGED <<queue, screen, stack, main>>

\* The function that shows the menu on top returns to the one below it.
Return ==
  IF Len(stack) = 1 THEN Goto("done") /\ UNCHANGED stack
  ELSE Goto("ran") /\ stack' = Tail(stack)

Highlight(sel) ==
  /\ screen' = MenuSelect(sel)
  /\ stack' = [stack EXCEPT ![1].selected = screen'.sel]
  /\ UNCHANGED main

\* ui_wait_key in a menu; device_handle_key knows no action without text.
TakeKey ==
  /\ At("wait") /\ queue # <<>> /\ ~asleep
  /\ queue' = Tail(queue)
  /\ LET action == IF text THEN Head(queue).key ELSE "text"
     IN  CASE action = "up" -> Highlight(Frame.selected - 1)
           [] action = "down" -> Highlight(Frame.selected + 1)
           [] action = "select" ->
                Goto("chosen") /\ UNCHANGED <<screen, stack>>
           [] action = "back" /\ Style \in {"loop", "once"} ->
                Return /\ UNCHANGED screen
           [] action = "back" /\ Style = "chooser" ->
                /\ stack' = [stack EXCEPT ![1].selected = 0]
                /\ Goto("chosen") /\ UNCHANGED screen
           [] OTHER -> UNCHANGED <<screen, stack, main>>
  /\ Quiet /\ UNCHANGED asleep

\* ui_end_menu; the lists of backups leave themselves on the screen.
EndMenu ==
  /\ At("chosen") /\ Goto("ended")
  /\ IF Style = "once" /\ Item.kind \in {"return", "menu"}
     THEN UNCHANGED <<screen, queue>>
     ELSE screen' = [screen EXCEPT !.show = FALSE] /\ queue' = Stale(queue)
  /\ Quiet /\ UNCHANGED <<stack, asleep>>

ReturnItem ==
  /\ At("ended") /\ Item.kind = "return"
  /\ Return
  /\ queue' = IF Style = "chooser" THEN <<>> ELSE queue
  /\ Quiet /\ UNCHANGED <<screen, asleep>>

SubMenu ==
  /\ At("ended") /\ Item.kind = "menu"
  /\ stack' = <<[menu |-> Item.to, selected |-> 0]>> \o stack
  /\ main' = [pc |-> IF Styles[Item.to] = "chooser" THEN "discard" ELSE "start",
              again |-> FALSE]
  /\ queue' = IF Style = "chooser" THEN <<>> ELSE queue
  /\ Quiet /\ UNCHANGED <<screen, asleep>>

\* The sdcard cannot be mounted, or there is nothing to choose from.
SubMenuFails ==
  /\ At("ended") /\ Item.kind = "menu" /\ Goto("ran")
  /\ Styles[Item.to] \in {"once", "chooser"}
  /\ queue' = IF Style = "chooser" THEN <<>> ELSE queue
  /\ Quiet /\ UNCHANGED <<screen, stack, asleep>>

\* The choosers return, and show_choose_zip_menu goes on with the file.
Callers ==
  LET IsChooser(i) == Styles[stack[i].menu] = "chooser"
      caller == CHOOSE n \in DOMAIN stack :
                  ~IsChooser(n) /\ \A i \in 1..(n - 1) : IsChooser(i)
  IN  SubSeq(stack, caller, Len(stack))

\* Mutant of Ask: ui_clear_key_queue is not called.
AskAtOnce ==
  /\ At("ended") /\ Item.kind \in {"script", "wipe", "file"} /\ Goto("asked")
  /\ stack' = Callers
  /\ Quiet /\ UNCHANGED <<queue, screen, asleep>>

\* "Press ... to confirm, any other key to abort."
Ask ==
  /\ At("ended") /\ Item.kind \in {"script", "wipe", "file"} /\ Goto("asked")
  /\ stack' = Callers
  /\ queue' = <<>>
  /\ Quiet /\ UNCHANGED <<screen, asleep>>

\* The answer counts whether or not the text is visible.
Answer ==
  /\ At("asked") /\ queue # <<>> /\ ~asleep
  /\ queue' = Tail(queue)
  /\ Goto(IF Head(queue).key = "select" THEN "running" ELSE "ran")
  /\ Quiet /\ UNCHANGED <<screen, stack, asleep>>

Toggle ==
  /\ At("ended") /\ Item.kind = "toggle" /\ Goto("running")
  /\ Quiet /\ UNCHANGED <<queue, screen, stack, asleep>>

RunEnds ==
  /\ At("running") /\ Goto("ran")
  /\ Quiet /\ UNCHANGED <<queue, screen, stack, asleep>>

\* "If we didn't return from this function to reboot, show the menu again."
AfterItem ==
  /\ At("ran")
  /\ IF Style = "once" \/ (Item.kind = "wipe" /\ ~text) THEN Return
     ELSE /\ main' = [pc |-> IF Style = "chooser" THEN "discard" ELSE "start",
                      again |-> TRUE]
          /\ UNCHANGED stack
  /\ Quiet /\ UNCHANGED <<queue, screen, asleep>>

-----------------------------------------------------------------------------
(* The specification                                                       *)

MainThread ==
  \/ CommandEnds \/ Discard \/ StartMenu \/ ThrowAway \/ Sleep \/ TakeKey
  \/ EndMenu \/ ReturnItem \/ SubMenu \/ SubMenuFails \/ Ask \/ Answer
  \/ Toggle \/ RunEnds \/ AfterItem

Next ==
  \/ \E k \in Keys : Press(k) \/ Release(k)
  \/ HotKeys \/ MainThread

Spec == Init /\ [][Next]_vars

\* Both threads run on, and the commands end.  Nobody has to press a key.
FairSpec == Spec /\ WF_vars(MainThread) /\ WF_vars(HotKeys)

-----------------------------------------------------------------------------
(* Properties                                                              *)

TypeOK ==
  /\ queue \in Seq([key : Keys, fresh : BOOLEAN, busy : BOOLEAN])
  /\ Len(queue) <= QueueMax
  /\ held \subseteq Chord
  /\ text \in BOOLEAN
  /\ input \in [key : Keys, down : BOOLEAN]
  /\ screen \in [show : BOOLEAN, menu : MenuIds, top : 0..Rows,
                 items : 0..MenuMax, sel : Int, start : Int]
  /\ stack \in Seq([menu : MenuIds, selected : Nat]) /\ stack # <<>>
  /\ main \in [pc : {"command", "discard", "start", "shown", "wait", "chosen",
                     "ended", "asked", "running", "ran", "done", "rebooted"},
               again : BOOLEAN]
  /\ asleep \in BOOLEAN
  /\ pressed \in 0..MaxKeys

\* The menu function that waits for a key has its own menu on the screen; the
\* highlighted row is one that is drawn, and is the item it would run.
Highlighted ==
  At("wait") =>
    /\ screen.show /\ screen.menu = Frame.menu
    /\ screen.sel = Frame.selected
    /\ screen.sel \in 0..(screen.items - 1)
    /\ screen.top + screen.sel - screen.start \in screen.top..(Rows - 1)

\* recovery.c, line 3477: "throw away keys pressed while the command was running,
\* so user doesn't accidentally trigger menu items".  A menu that is shown
\* again takes only keys that were pressed while it was there.
NotByAccident ==
  [][TakeKey /\ main.again /\ Style # "chooser" => Head(queue).fresh]_vars

\* What asks for a confirmation is confirmed by a key that was pressed after
\* the item had been chosen, never by one that was typed ahead.
ConfirmedKnowingly ==
  [][Answer /\ main'.pc = "running" => Head(queue).fresh]_vars

\* No key is left lying: a main thread that waits is woken for it.
KeysAreTaken ==
  queue # <<>> ~> queue = <<>> \/ At("done") \/ At("rebooted")

=============================================================================
