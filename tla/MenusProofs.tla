----------------------------- MODULE MenusProofs -----------------------------
(***************************************************************************)
(* Proofs about Menus, for every set of menus, every size of the screen    *)
(* and of the queue, and any number of key presses: type correctness, that *)
(* the highlighted row is the item that would run, and that neither a menu *)
(* shown again nor a confirmation takes a key pressed before it.           *)
(***************************************************************************)
EXTENDS Menus, SequenceTheorems, TLAPS

-----------------------------------------------------------------------------
(* The inductive invariant, part by part                                   *)

KeyRecords == [key : Keys, fresh : BOOLEAN, busy : BOOLEAN]
Frames == [menu : MenuIds, selected : Nat]
Kept(keys) == keys \in Seq(KeyRecords) /\ Len(keys) <= QueueMax
AllFresh(keys) == \A i \in DOMAIN keys : keys[i].fresh

\* The first frame from k on that is no chooser is n.
IsChooser(calls, i) == Styles[calls[i].menu] = "chooser"
FirstCaller(calls, k, n) ==
  /\ n \in k..Len(calls)
  /\ ~IsChooser(calls, n)
  /\ \A i \in k..(n - 1) : IsChooser(calls, i)

\* Below every chooser is a menu that is none, to which it can return.
Anchored(calls) == \A k \in DOMAIN calls : \E n \in Nat : FirstCaller(calls, k, n)

Calls(calls) == calls \in Seq(Frames) /\ calls # <<>> /\ Anchored(calls)

\* The screen shows the menu of a frame, and its selected item.
Fits(scr, frame) ==
  /\ scr.show /\ scr.menu = frame.menu /\ scr.top = Headers[frame.menu]
  /\ scr.items = Smaller(Len(Items[frame.menu]), MenuMax - Headers[frame.menu])
  /\ scr.sel = frame.selected /\ frame.selected < scr.items
  /\ scr.start \in 0..scr.sel
  /\ scr.sel - scr.start + scr.top < Rows

Window == main.pc \in {"shown", "wait"} => Fits(screen, Frame)

InRange ==
  main.pc \in {"shown", "wait", "chosen", "ended"} =>
    Frame.selected < Len(Items[Frame.menu])

FreshAnswer == At("asked") => AllFresh(queue)
FreshChoice == At("wait") /\ main.again /\ Style # "chooser" => AllFresh(queue)

MenusInv ==
  /\ TypeOK /\ Anchored(stack)
  /\ Window /\ InRange
  /\ FreshAnswer /\ FreshChoice

-----------------------------------------------------------------------------
(* The key queue                                                           *)

\* The queue after a key press: bounded, and as fresh as it was.
LEMMA EnqueueKeeps ==
  ASSUME TypeOK, NEW k \in Keys, Enqueue(k)
  PROVE  /\ Kept(queue') /\ asleep' \in BOOLEAN
         /\ AllFresh(queue) => AllFresh(queue')
<1> DEFINE new == [key |-> k, fresh |-> TRUE, busy |-> Busy]
<1>1. queue \in Seq(KeyRecords) /\ Len(queue) <= QueueMax /\ asleep \in BOOLEAN
  BY DEF TypeOK, KeyRecords
<1>2. new \in KeyRecords
  BY DEF KeyRecords, Busy, At
<1>3. CASE Len(queue) < QueueMax
  <2>1. queue' = Append(queue, new) /\ asleep' = FALSE
    BY <1>3 DEF Enqueue, Queued
  <2> HIDE DEF new
  <2>2. /\ queue' \in Seq(KeyRecords)
        /\ Len(queue') = Len(queue) + 1
        /\ \A i \in 1..Len(queue) : queue'[i] = queue[i]
        /\ queue'[Len(queue) + 1] = new
    BY <1>1, <1>2, <2>1, AppendProperties
  <2>3. DOMAIN queue = 1..Len(queue) /\ DOMAIN queue' = 1..Len(queue')
        /\ Len(queue) \in Nat
    BY <1>1, <2>2, LenProperties
  <2>4. Len(queue') <= QueueMax
    BY <1>3, <2>2, <2>3, MenusAssumption
  <2>5. new.fresh
    BY DEF new
  <2>6. AllFresh(queue) => AllFresh(queue')
    BY <2>2, <2>3, <2>5 DEF AllFresh
  <2> QED BY <2>1, <2>2, <2>4, <2>6 DEF Kept
<1>4. CASE ~(Len(queue) < QueueMax)
  BY <1>1, <1>4 DEF Enqueue, Kept, AllFresh
<1> QED BY <1>3, <1>4

\* What the main thread leaves in the queue: nothing, the rest, or all of it.
LEMMA EmptyKept == Kept(<<>>) /\ AllFresh(<<>>)
<1>1. <<>> \in Seq(KeyRecords) /\ Len(<<>>) = 0
  BY EmptySeq
<1> QED BY <1>1, MenusAssumption DEF Kept, AllFresh

\* The rest of a queue is one, and no staler.
LEMMA TailKept ==
  ASSUME NEW keys, Kept(keys), keys # <<>>
  PROVE  Kept(Tail(keys)) /\ (AllFresh(keys) => AllFresh(Tail(keys)))
<1>1. keys \in Seq(KeyRecords) /\ Len(keys) \in Nat /\ Len(keys) <= QueueMax
  BY LenProperties DEF Kept
<1>2. /\ Tail(keys) \in Seq(KeyRecords)
      /\ Len(Tail(keys)) = Len(keys) - 1
      /\ \A i \in 1..Len(Tail(keys)) : Tail(keys)[i] = keys[i + 1]
  BY <1>1, HeadTailProperties
<1>3. DOMAIN keys = 1..Len(keys) /\ DOMAIN Tail(keys) = 1..Len(Tail(keys))
  BY <1>1, <1>2, LenProperties
<1>4. Len(Tail(keys)) <= QueueMax
  BY <1>1, <1>2, MenusAssumption
<1>5. AllFresh(keys) => AllFresh(Tail(keys))
  BY <1>1, <1>2, <1>3 DEF AllFresh
<1> QED BY <1>2, <1>4, <1>5 DEF Kept

\* So is a queue whose keys have all become stale.
LEMMA StaleKept ==
  ASSUME NEW keys, Kept(keys)
  PROVE  Kept(Stale(keys))
<1>1. keys \in Seq(KeyRecords) /\ Len(keys) \in Nat /\ DOMAIN keys = 1..Len(keys)
      /\ keys \in [1..Len(keys) -> KeyRecords]
  BY LenProperties DEF Kept
<1>2. \A i \in 1..Len(keys) : [keys[i] EXCEPT !.fresh = FALSE] \in KeyRecords
  BY <1>1 DEF KeyRecords
<1>3. Stale(keys) \in [1..Len(keys) -> KeyRecords]
  BY <1>1, <1>2 DEF Stale
<1>4. Stale(keys) \in Seq(KeyRecords) /\ Len(Stale(keys)) = Len(keys)
  BY <1>1, <1>3
<1> QED BY <1>4 DEF Kept

-----------------------------------------------------------------------------
(* The calls of the main thread                                            *)

\* A suffix of the calls that is not empty is again one.
LEMMA SuffixIsCalls ==
  ASSUME NEW calls, Calls(calls), NEW m \in 1..Len(calls)
  PROVE  Calls(SubSeq(calls, m, Len(calls)))
<1> DEFINE rest == SubSeq(calls, m, Len(calls))
<1>1. calls \in Seq(Frames) /\ Len(calls) \in Nat /\ DOMAIN calls = 1..Len(calls)
      /\ calls \in [1..Len(calls) -> Frames]
  BY LenProperties DEF Calls
<1>2. /\ rest \in Seq(Frames)
      /\ Len(rest) = Len(calls) - m + 1
      /\ \A i \in 1..(Len(calls) - m + 1) : rest[i] = calls[m + i - 1]
  <2>1. \A i \in m..Len(calls) : calls[i] \in Frames
    BY <1>1
  <2> QED BY <1>1, <2>1, SubSeqProperties
<1>3. DOMAIN rest = 1..Len(rest)
  BY <1>2, LenProperties
<1> HIDE DEF rest
<1>4. rest # <<>>
  BY <1>1, <1>2
<1>5. ASSUME NEW k \in DOMAIN rest
      PROVE  \E n \in Nat : FirstCaller(rest, k, n)
  <2>1. k + m - 1 \in DOMAIN calls
    BY <1>1, <1>2, <1>3
  <2>2. PICK n \in Nat : FirstCaller(calls, k + m - 1, n)
    BY <2>1 DEF Calls, Anchored
  <2>3. n \in (k + m - 1)..Len(calls) /\ n - m + 1 \in k..Len(rest)
        /\ n - m + 1 \in Nat
    BY <1>1, <1>2, <1>3, <2>2 DEF FirstCaller
  <2>4. rest[n - m + 1] = calls[n]
    BY <1>1, <1>2, <1>3, <2>3
  <2>5. \A i \in k..(n - m) : rest[i] = calls[i + m - 1]
    BY <1>1, <1>2, <1>3, <2>3
  <2>6. \A i \in k..(n - m) : i + m - 1 \in (k + m - 1)..(n - 1)
    BY <1>1, <1>2, <1>3, <2>3
  <2>7. (n - m + 1) - 1 = n - m
    BY <1>1, <2>3
  <2>8. FirstCaller(rest, k, n - m + 1)
    BY <2>2, <2>3, <2>4, <2>5, <2>6, <2>7 DEF FirstCaller, IsChooser
  <2> QED BY <2>3, <2>8
<1> QED BY <1>2, <1>4, <1>5 DEF Calls, Anchored, rest

\* Returning to the caller.
LEMMA TailIsCalls ==
  ASSUME NEW calls, Calls(calls), Len(calls) # 1
  PROVE  Calls(Tail(calls))
<1>1. calls \in Seq(Frames) /\ calls # <<>>
  BY DEF Calls
<1>2. 2 \in 1..Len(calls)
  <2>1. Len(calls) \in Nat \ {0}
    BY <1>1, EmptySeq
  <2>2. \A n \in Nat \ {0} : n # 1 => 2 \in 1..n
    OBVIOUS
  <2> QED BY <2>1, <2>2
<1>3. Tail(calls) = SubSeq(calls, 2, Len(calls))
  BY <1>1, TailIsSubSeq
<1> QED BY <1>2, <1>3, SuffixIsCalls

\* The choosers on top return at once.
LEMMA CallersIsCalls ==
  ASSUME Calls(stack)
  PROVE  Calls(Callers)
<1> DEFINE Caller(n) ==
      ~IsChooser(stack, n) /\ \A i \in 1..(n - 1) : IsChooser(stack, i)
<1> DEFINE caller == CHOOSE n \in DOMAIN stack : Caller(n)
<1>1. stack \in Seq(Frames) /\ stack # <<>> /\ DOMAIN stack = 1..Len(stack)
      /\ Len(stack) \in Nat \ {0}
  BY EmptySeq, LenProperties DEF Calls
<1>2. Callers = SubSeq(stack, caller, Len(stack))
  BY DEF Callers, IsChooser
<1>3. PICK n \in Nat : FirstCaller(stack, 1, n)
  BY <1>1 DEF Calls, Anchored
<1>4. n \in DOMAIN stack /\ Caller(n)
  BY <1>1, <1>3 DEF FirstCaller
<1>5. caller \in DOMAIN stack
  BY <1>4
<1> QED BY <1>1, <1>2, <1>5, SuffixIsCalls

\* Calling the function of another menu.
LEMMA PushIsCalls ==
  ASSUME NEW calls, Calls(calls), NEW frame \in Frames
  PROVE  Calls(<<frame>> \o calls)
<1> DEFINE more == <<frame>> \o calls
<1>1. calls \in Seq(Frames) /\ Len(calls) \in Nat \ {0} /\ DOMAIN calls = 1..Len(calls)
  BY EmptySeq, LenProperties DEF Calls
<1>2. /\ more \in Seq(Frames)
      /\ Len(more) = Len(calls) + 1
      /\ more[1] = frame
      /\ \A i \in 1..Len(calls) : more[i + 1] = calls[i]
  <2>1. <<frame>> \in Seq(Frames) /\ Len(<<frame>>) = 1 /\ <<frame>>[1] = frame
    OBVIOUS
  <2>2. /\ more \in Seq(Frames)
        /\ Len(more) = 1 + Len(calls)
        /\ \A i \in 1..(1 + Len(calls)) :
             more[i] = IF i <= 1 THEN <<frame>>[i] ELSE calls[i - 1]
    BY <1>1, <2>1, ConcatProperties
  <2> HIDE DEF more
  <2>3. more[1] = frame
    BY <1>1, <2>1, <2>2
  <2>4. ASSUME NEW i \in 1..Len(calls) PROVE more[i + 1] = calls[i]
    <3>1. i + 1 \in 1..(1 + Len(calls)) /\ ~(i + 1 <= 1) /\ (i + 1) - 1 = i
      BY <1>1
    <3>2. more[i + 1] = calls[(i + 1) - 1]
      BY <2>2, <3>1
    <3> QED BY <3>1, <3>2
  <2> QED BY <1>1, <2>2, <2>3, <2>4
<1> HIDE DEF more
<1>3. DOMAIN more = 1..Len(more) /\ more # <<>>
  BY <1>1, <1>2, LenProperties
<1>4. ASSUME NEW k \in 1..Len(calls)
      PROVE  \E n \in Nat : FirstCaller(more, k + 1, n)
  <2>1. PICK n \in Nat : FirstCaller(calls, k, n)
    BY <1>1 DEF Calls, Anchored
  <2>2. n \in k..Len(calls) /\ ~IsChooser(calls, n)
        /\ \A i \in k..(n - 1) : IsChooser(calls, i)
    BY <2>1 DEF FirstCaller
  <2>3. n + 1 \in (k + 1)..Len(more) /\ more[n + 1] = calls[n]
    BY <1>1, <1>2, <2>2
  <2>4. ASSUME NEW i \in (k + 1)..((n + 1) - 1) PROVE IsChooser(more, i)
    <3>1. i - 1 \in k..(n - 1) /\ i - 1 \in 1..Len(calls) /\ (i - 1) + 1 = i
      BY <1>1, <2>2
    <3>2. more[i] = calls[i - 1]
      BY <1>2, <3>1
    <3> QED BY <2>2, <3>1, <3>2 DEF IsChooser
  <2>5. FirstCaller(more, k + 1, n + 1)
    BY <2>2, <2>3, <2>4 DEF FirstCaller, IsChooser
  <2> QED BY <2>5
<1>5. \E n \in Nat : FirstCaller(more, 1, n)
  <2>1. CASE ~IsChooser(more, 1)
    <3>1. FirstCaller(more, 1, 1)
      BY <1>1, <1>2, <2>1 DEF FirstCaller
    <3> QED BY <3>1
  <2>2. CASE IsChooser(more, 1)
    <3>1. PICK n \in Nat : FirstCaller(more, 2, n)
      BY <1>1, <1>4
    <3>2. FirstCaller(more, 1, n)
      BY <1>2, <2>2, <3>1 DEF FirstCaller
    <3> QED BY <3>2
  <2> QED BY <2>1, <2>2
<1>6. ASSUME NEW k \in DOMAIN more PROVE \E n \in Nat : FirstCaller(more, k, n)
  <2>1. k = 1 \/ (k - 1 \in 1..Len(calls) /\ (k - 1) + 1 = k)
    BY <1>1, <1>2, <1>3
  <2> QED BY <1>4, <1>5, <2>1
<1> QED BY <1>2, <1>3, <1>6 DEF Calls, Anchored, more

\* Another item of the same menu.
LEMMA SelectIsCalls ==
  ASSUME NEW calls, Calls(calls), NEW s \in Nat
  PROVE  LET new == [calls EXCEPT ![1].selected = s]
         IN  Calls(new) /\ new[1] = [calls[1] EXCEPT !.selected = s]
<1> DEFINE frame == [calls[1] EXCEPT !.selected = s]
           new == [calls EXCEPT ![1] = frame]
<1>1. calls \in Seq(Frames) /\ Len(calls) \in Nat \ {0} /\ DOMAIN calls = 1..Len(calls)
      /\ calls \in [1..Len(calls) -> Frames]
  BY EmptySeq, LenProperties DEF Calls
<1>2. calls[1] \in Frames /\ frame \in Frames /\ frame.menu = calls[1].menu
  BY <1>1 DEF Frames
<1> HIDE DEF frame
<1>3. /\ new \in Seq(Frames) /\ Len(new) = Len(calls)
      /\ \A j \in 1..Len(calls) : new[j] = IF j = 1 THEN frame ELSE calls[j]
  BY <1>1, <1>2, ExceptSeq
<1>4. DOMAIN new = 1..Len(calls) /\ new[1] = frame
  BY <1>1
<1> HIDE DEF new
<1>5. \A j \in 1..Len(calls) : new[j].menu = calls[j].menu
  BY <1>2, <1>3
<1>6. ASSUME NEW k \in DOMAIN new PROVE \E n \in Nat : FirstCaller(new, k, n)
  <2>1. PICK n \in Nat : FirstCaller(calls, k, n)
    BY <1>1, <1>4 DEF Calls, Anchored
  <2>2. n \in 1..Len(calls) /\ \A i \in k..(n - 1) : i \in 1..Len(calls)
    BY <1>1, <1>4, <2>1 DEF FirstCaller
  <2>3. FirstCaller(new, k, n)
    BY <1>3, <1>5, <2>1, <2>2 DEF FirstCaller, IsChooser
  <2> QED BY <2>3
<1>7. new # <<>>
  BY <1>1, <1>3
<1>8. Calls(new)
  BY <1>3, <1>6, <1>7 DEF Calls, Anchored
<1> QED BY <1>4, <1>8 DEF new, frame

-----------------------------------------------------------------------------
(* The screen                                                              *)

ScreenTypes ==
  [show : BOOLEAN, menu : MenuIds, top : 0..Rows, items : 0..MenuMax,
   sel : Int, start : Int]
MainTypes ==
  [pc : {"command", "discard", "start", "shown", "wait", "chosen", "ended",
         "asked", "running", "ran", "done", "rebooted"},
   again : BOOLEAN]
InputTypes == [key : Keys, down : BOOLEAN]

\* What the constants say of a menu.
LEMMA MenuConstants ==
  ASSUME NEW m \in MenuIds
  PROVE  /\ Styles[m] \in {"main", "loop", "once", "chooser"}
         /\ Items[m] \in Seq([kind : Kinds, to : MenuIds])
         /\ Len(Items[m]) \in Nat \ {0}
         /\ Headers[m] \in Nat /\ Headers[m] < Rows
         /\ Rows \in Nat /\ MenuMax \in Nat /\ Rows <= MenuMax
         /\ QueueMax \in Nat
<1>1. Items[m] \in Seq([kind : Kinds, to : MenuIds]) /\ Items[m] # <<>>
  BY MenusAssumption
<1>2. Len(Items[m]) \in Nat \ {0}
  BY <1>1, EmptySeq
<1> QED BY <1>1, <1>2, MenusAssumption

\* A menu that has just been started fits its screen.
LEMMA StartedFits ==
  ASSUME NEW m \in MenuIds, NEW frame \in Frames,
         frame.menu = m, frame.selected = 0
  PROVE  Screen(m) \in ScreenTypes /\ Fits(Screen(m), frame)
<1> DEFINE n == Len(Items[m])  h == Headers[m]
<1>1. n \in Nat \ {0} /\ h \in Nat /\ h < Rows
      /\ Rows \in Nat /\ MenuMax \in Nat /\ Rows <= MenuMax
  BY MenuConstants
<1> HIDE DEF n, h
<1>2. Smaller(n, MenuMax - h) \in 1..MenuMax
  BY <1>1 DEF Smaller
<1>3. Screen(m) = [show |-> TRUE, menu |-> m, top |-> h,
                   items |-> Smaller(n, MenuMax - h), sel |-> 0, start |-> 0]
  BY DEF Screen, n, h
<1>4. Screen(m) \in ScreenTypes
  BY <1>1, <1>2, <1>3 DEF ScreenTypes
<1>5. Smaller(n, MenuMax - h)
        = Smaller(Len(Items[frame.menu]), MenuMax - Headers[frame.menu])
  BY DEF n, h
<1>6. h = Headers[frame.menu]
  BY DEF h
<1>7. Fits(Screen(m), frame)
  BY <1>1, <1>2, <1>3, <1>5, <1>6 DEF Fits
<1> QED BY <1>4, <1>7

\* Moving the highlight by one keeps it on the items and on the screen: it
\* wraps around at both ends, and the window follows it.
LEMMA SelectFits ==
  ASSUME screen \in ScreenTypes, NEW frame \in Frames, Fits(screen, frame),
         NEW s \in {frame.selected - 1, frame.selected + 1}
  PROVE  LET new == MenuSelect(s)
         IN  /\ new \in ScreenTypes /\ new.sel \in Nat
             /\ new.sel < Len(Items[frame.menu])
             /\ Fits(new, [frame EXCEPT !.selected = new.sel])
<1> DEFINE w == Wrapped(s)  new == MenuSelect(s)
           up == IF w < screen.start /\ screen.start > 0 THEN w ELSE screen.start
           start == IF w - up + screen.top >= Rows
                    THEN w + screen.top - Rows + 1 ELSE up
           n == Len(Items[frame.menu])  h == Headers[frame.menu]
<1>1. frame.menu \in MenuIds /\ frame.selected \in Nat
  BY DEF Frames
<1>2. n \in Nat \ {0} /\ h \in Nat /\ h < Rows
      /\ Rows \in Nat /\ MenuMax \in Nat /\ Rows <= MenuMax
  BY <1>1, MenuConstants
<1>3. /\ screen.show /\ screen.menu = frame.menu /\ screen.top = h
      /\ screen.items = Smaller(n, MenuMax - h)
      /\ screen.sel = frame.selected /\ frame.selected < screen.items
      /\ screen.start \in 0..screen.sel
      /\ screen.sel - screen.start + screen.top < Rows
  BY DEF Fits
<1>4. new = [screen EXCEPT !.sel = w, !.start = start]
  BY DEF MenuSelect
<1>5. w = LET v == IF s < 0 THEN screen.items + s ELSE s
          IN  IF v >= screen.items THEN v - screen.items ELSE v
  BY DEF Wrapped
<1>6. screen.items \in Nat /\ screen.items <= n
  BY <1>2, <1>3 DEF Smaller, ScreenTypes
<1> HIDE DEF w, new, n, h
<1>7. w \in 0..(screen.items - 1)
  BY <1>1, <1>3, <1>5, <1>6
<1>8. start \in 0..w /\ w - start + screen.top < Rows
  BY <1>2, <1>3, <1>7
<1> HIDE DEF up, start
<1>9. w \in Int /\ start \in Int
  BY <1>6, <1>7, <1>8
<1>10. /\ new.show = screen.show /\ new.menu = screen.menu /\ new.top = screen.top
       /\ new.items = screen.items /\ new.sel = w /\ new.start = start
       /\ new \in ScreenTypes
  BY <1>4, <1>9 DEF ScreenTypes
<1>11. new.sel \in Nat /\ new.sel < n
  BY <1>2, <1>6, <1>7, <1>10
<1>12. Fits(new, [frame EXCEPT !.selected = w])
  <2> DEFINE f == [frame EXCEPT !.selected = w]
  <2>1. f.menu = frame.menu /\ f.selected = w
    BY DEF Frames
  <2> HIDE DEF f
  <2>2. new.items = Smaller(Len(Items[f.menu]), MenuMax - Headers[f.menu])
    BY <1>3, <1>10, <2>1 DEF n, h
  <2>3. new.show /\ new.menu = f.menu /\ new.top = Headers[f.menu]
    BY <1>3, <1>10, <2>1 DEF h
  <2>4. new.sel = f.selected /\ f.selected < new.items
    BY <1>6, <1>7, <1>10, <2>1
  <2>5. new.start \in 0..new.sel /\ new.sel - new.start + new.top < Rows
    BY <1>8, <1>10
  <2> QED BY <2>2, <2>3, <2>4, <2>5 DEF Fits, f
<1> QED BY <1>10, <1>11, <1>12 DEF new, n

-----------------------------------------------------------------------------
(* The steps                                                               *)

\* The invariant, with the calls, the queue and the screen taken together.
LEMMA InvParts ==
  MenusInv <=>
    /\ Kept(queue) /\ Calls(stack) /\ screen \in ScreenTypes
    /\ held \subseteq Chord /\ text \in BOOLEAN /\ input \in InputTypes
    /\ main \in MainTypes /\ asleep \in BOOLEAN /\ pressed \in 0..MaxKeys
    /\ Window /\ InRange /\ FreshAnswer /\ FreshChoice
BY DEF MenusInv, TypeOK, Kept, KeyRecords, Calls, Frames, ScreenTypes,
       MainTypes, InputTypes

\* The frame on top, and the item it selects.
LEMMA TopFrame ==
  ASSUME MenusInv
  PROVE  /\ stack[1] \in Frames /\ Frame.menu \in MenuIds
         /\ Frame.selected \in Nat /\ Style \in {"main", "loop", "once", "chooser"}
<1>1. stack \in Seq(Frames) /\ Len(stack) \in Nat \ {0}
  BY InvParts, EmptySeq DEF Calls
<1>2. stack[1] \in Frames
  BY <1>1, ElementOfSeq
<1> QED BY <1>2, MenuConstants DEF Frame, Frames, Style

\* The item the frame on top selects is one of its menu.
LEMMA TopItem ==
  ASSUME MenusInv, main.pc \in {"shown", "wait", "chosen", "ended"}
  PROVE  Item.kind \in Kinds /\ Item.to \in MenuIds
<1>1. Frame.menu \in MenuIds /\ Frame.selected \in Nat
  BY TopFrame
<1>2. Frame.selected < Len(Items[Frame.menu])
  BY DEF MenusInv, InRange
<1>3. /\ Items[Frame.menu] \in Seq([kind : Kinds, to : MenuIds])
      /\ Len(Items[Frame.menu]) \in Nat
  BY <1>1, MenuConstants
<1>4. Frame.selected + 1 \in 1..Len(Items[Frame.menu])
  BY <1>1, <1>2, <1>3
<1>5. Item \in [kind : Kinds, to : MenuIds]
  BY <1>3, <1>4, ElementOfSeq DEF Item
<1> QED BY <1>5

\* A step that leaves the screen and the calls alone, and goes to no place
\* where they would have to agree.
LEMMA SameScreen ==
  ASSUME MenusInv, UNCHANGED <<screen, stack>>,
         Kept(queue'), held' \subseteq Chord, text' \in BOOLEAN,
         input' \in InputTypes, main' \in MainTypes, asleep' \in BOOLEAN,
         pressed' \in 0..MaxKeys,
         main'.pc \in {"shown", "wait"} => main.pc \in {"shown", "wait"},
         main'.pc \in {"chosen", "ended"} =>
           main.pc \in {"shown", "wait", "chosen", "ended"},
         FreshAnswer', FreshChoice'
  PROVE  MenusInv'
<1>1. Calls(stack)' /\ (screen \in ScreenTypes)'
  BY InvParts
<1>2. Window'
  BY DEF MenusInv, Window, Frame
<1>3. InRange'
  BY DEF MenusInv, InRange, Frame
<1> QED
  BY <1>1, <1>2, <1>3 DEF MenusInv, TypeOK, Kept, KeyRecords, Calls, Frames,
     ScreenTypes, MainTypes, InputTypes

\* A step of the main thread to a place where no menu waits.
LEMMA Elsewhere ==
  ASSUME MenusInv, Quiet, UNCHANGED asleep,
         Kept(queue'), Calls(stack'), screen' \in ScreenTypes, main' \in MainTypes,
         main'.pc \notin {"shown", "wait", "chosen", "ended"},
         main'.pc = "asked" => AllFresh(queue')
  PROVE  MenusInv'
<1>1. /\ held' \subseteq Chord /\ text' \in BOOLEAN /\ input' \in InputTypes
      /\ asleep' \in BOOLEAN /\ pressed' \in 0..MaxKeys
  BY InvParts DEF Quiet
<1>2. (Window /\ InRange /\ FreshAnswer /\ FreshChoice)'
  BY DEF Window, InRange, FreshAnswer, FreshChoice, At
<1> QED
  BY <1>1, <1>2 DEF MenusInv, TypeOK, Kept, KeyRecords, Calls, Frames,
     ScreenTypes, MainTypes, InputTypes

\* Goto keeps what main says of the menu.
LEMMA GotoType ==
  ASSUME main \in MainTypes, NEW pc, Goto(pc),
         pc \in {"command", "discard", "start", "shown", "wait", "chosen", "ended",
                "asked", "running", "ran", "done", "rebooted"}
  PROVE  main' \in MainTypes /\ main'.pc = pc /\ main'.again = main.again
BY DEF MainTypes, Goto

\* The invariant holds at the start, in the main menu.
LEMMA InitInv == Init => MenusInv
<1> SUFFICES ASSUME Init PROVE MenusInv
  OBVIOUS
<1>1. Main \in MenuIds /\ Styles[Main] = "main"
  BY MenusAssumption
<1> DEFINE frame == [menu |-> Main, selected |-> 0]
<1>2. frame \in Frames /\ frame.menu = Main /\ frame.selected = 0
  BY <1>1 DEF Frames
<1>3. Screen(Main) \in ScreenTypes
  BY <1>1, <1>2, StartedFits
<1>4. [Screen(Main) EXCEPT !.show = FALSE] \in ScreenTypes
  BY <1>3 DEF ScreenTypes
<1> HIDE DEF frame
<1>5. Calls(<<frame>>)
  <2>1. <<frame>> \in Seq(Frames) /\ Len(<<frame>>) = 1 /\ <<frame>>[1] = frame
        /\ DOMAIN <<frame>> = 1..1 /\ <<frame>> # <<>>
    BY <1>2
  <2>2. ~IsChooser(<<frame>>, 1)
    BY <1>1, <1>2, <2>1 DEF IsChooser
  <2>3. FirstCaller(<<frame>>, 1, 1)
    BY <2>1, <2>2 DEF FirstCaller
  <2>4. \A k \in DOMAIN <<frame>> : k = 1
    BY <2>1
  <2> QED BY <2>1, <2>3, <2>4 DEF Calls, Anchored
<1>6. NoEvent \in InputTypes /\ 0 \in 0..MaxKeys
  BY MenusAssumption DEF NoEvent, InputTypes, Keys
<1>7. stack = <<frame>> /\ main.pc = "command" /\ main \in MainTypes
  BY DEF Init, frame, MainTypes
<1>8. Window /\ InRange /\ FreshAnswer /\ FreshChoice
  BY <1>7 DEF Window, InRange, FreshAnswer, FreshChoice, At
<1> QED BY <1>4, <1>5, <1>6, <1>7, <1>8, EmptyKept, InvParts DEF Init

-----------------------------------------------------------------------------
(* The input thread                                                        *)

\* A key press is queued as fresh, and changes nothing else main looks at.
LEMMA PressInv ==
  ASSUME MenusInv, NEW k \in Keys, Press(k)
  PROVE  MenusInv'
<1>1. Enqueue(k) /\ UNCHANGED <<text, screen, stack, main>>
      /\ pressed < MaxKeys /\ pressed' = pressed + 1
      /\ input' = [key |-> k, down |-> TRUE]
      /\ (held' = held \cup ({k} \cap Chord) \/ held' = held)
  BY DEF Press
<1>2. Kept(queue') /\ asleep' \in BOOLEAN /\ (AllFresh(queue) => AllFresh(queue'))
  BY <1>1, EnqueueKeeps DEF MenusInv
<1>3. held' \subseteq Chord /\ text' \in BOOLEAN /\ input' \in InputTypes
      /\ main' \in MainTypes /\ pressed' \in 0..MaxKeys
  <2>1. pressed' \in 0..MaxKeys
    BY <1>1, InvParts, MenusAssumption
  <2> QED BY <1>1, <2>1, InvParts DEF InputTypes
<1>4. FreshAnswer' /\ FreshChoice'
  BY <1>1, <1>2 DEF MenusInv, FreshAnswer, FreshChoice, At, Style, Frame
<1> QED BY <1>1, <1>2, <1>3, <1>4, SameScreen

\* A key release changes only what is pressed.
LEMMA ReleaseInv ==
  ASSUME MenusInv, NEW k \in Keys, Release(k)
  PROVE  MenusInv'
<1>1. UNCHANGED <<queue, text, screen, stack, main, asleep, pressed>>
      /\ held' = held \ {k} /\ input' = [key |-> k, down |-> FALSE]
  BY DEF Release
<1>2. /\ Kept(queue') /\ held' \subseteq Chord /\ text' \in BOOLEAN
      /\ input' \in InputTypes /\ main' \in MainTypes /\ asleep' \in BOOLEAN
      /\ pressed' \in 0..MaxKeys
  BY <1>1, InvParts DEF InputTypes
<1>3. FreshAnswer' /\ FreshChoice'
  BY <1>1 DEF MenusInv, FreshAnswer, FreshChoice, At, Style, Frame
<1> QED BY <1>1, <1>2, <1>3, SameScreen

\* The keys the input thread handles itself: the text toggle and the reboot.
LEMMA HotKeysInv ==
  ASSUME MenusInv, HotKeys
  PROVE  MenusInv'
<1>1. UNCHANGED <<queue, held, screen, stack, asleep, pressed>>
      /\ input' = NoEvent /\ text' = (IF input.key = "text" THEN ~text ELSE text)
      /\ (main' = main \/ main' = [main EXCEPT !.pc = "rebooted"])
  BY DEF HotKeys
<1>2. main \in MainTypes /\ text \in BOOLEAN
  BY InvParts
<1>3. main' \in MainTypes /\ (main' = main \/ main'.pc = "rebooted")
  BY <1>1, <1>2 DEF MainTypes
<1>4. text' \in BOOLEAN
  BY <1>1, <1>2
<1>5. /\ Kept(queue') /\ held' \subseteq Chord /\ asleep' \in BOOLEAN
      /\ pressed' \in 0..MaxKeys /\ input' \in InputTypes
  BY <1>1, InvParts DEF InputTypes, NoEvent, Keys
<1>6. FreshAnswer' /\ FreshChoice'
  BY <1>1, <1>3 DEF MenusInv, FreshAnswer, FreshChoice, At, Style, Frame
<1> QED BY <1>1, <1>3, <1>4, <1>5, <1>6, SameScreen

-----------------------------------------------------------------------------
(* The main thread: steps that leave the screen and the calls alone        *)

\* The steps of main that only go elsewhere.
LEMMA PlainStepsInv ==
  ASSUME MenusInv,
         CommandEnds \/ Discard \/ SubMenuFails \/ Answer \/ Toggle \/ RunEnds
  PROVE  MenusInv'
<1>1. /\ Quiet /\ UNCHANGED <<screen, stack, asleep>>
      /\ \E pc \in {"start", "ran", "running"} : Goto(pc)
  BY DEF CommandEnds, Discard, SubMenuFails, Answer, Toggle, RunEnds
<1>2. queue' \in {queue, <<>>} \/ (queue # <<>> /\ queue' = Tail(queue))
  BY DEF CommandEnds, Discard, SubMenuFails, Answer, Toggle, RunEnds
<1>3. Kept(queue')
  BY <1>2, EmptyKept, TailKept, InvParts
<1>4. main' \in MainTypes /\ main'.pc \in {"start", "ran", "running"}
  BY <1>1, GotoType, InvParts
<1>5. Calls(stack') /\ screen' \in ScreenTypes
  BY <1>1, InvParts
<1> QED BY <1>1, <1>3, <1>4, <1>5, Elsewhere

\* finish_recovery has run: a menu shown again starts with no key queued.
LEMMA ThrowAwayInv ==
  ASSUME MenusInv, ThrowAway
  PROVE  MenusInv'
<1>1. At("shown") /\ Goto("wait") /\ Quiet /\ UNCHANGED <<screen, stack, asleep>>
      /\ queue' = (IF main.again THEN <<>> ELSE queue)
  BY DEF ThrowAway
<1>2. main \in MainTypes /\ main.pc = "shown"
  BY <1>1, InvParts DEF At
<1>3. main' \in MainTypes /\ main'.pc = "wait" /\ main'.again = main.again
  BY <1>1, <1>2, GotoType
<1>4. Kept(queue') /\ (main'.again => AllFresh(queue'))
  BY <1>1, <1>3, EmptyKept, InvParts
<1>5. /\ held' \subseteq Chord /\ text' \in BOOLEAN /\ input' \in InputTypes
      /\ asleep' \in BOOLEAN /\ pressed' \in 0..MaxKeys
  BY <1>1, InvParts DEF Quiet
<1>6. FreshAnswer' /\ FreshChoice'
  BY <1>3, <1>4 DEF FreshAnswer, FreshChoice, At
<1> QED BY <1>1, <1>2, <1>3, <1>4, <1>5, <1>6, SameScreen

\* ui_wait_key with an empty queue.
LEMMA SleepInv ==
  ASSUME MenusInv, Sleep
  PROVE  MenusInv'
<1>1. Quiet /\ UNCHANGED <<queue, screen, stack, main>> /\ asleep' = TRUE
  BY DEF Sleep
<1>2. /\ Kept(queue') /\ held' \subseteq Chord /\ text' \in BOOLEAN
      /\ input' \in InputTypes /\ main' \in MainTypes /\ asleep' \in BOOLEAN
      /\ pressed' \in 0..MaxKeys
  BY <1>1, InvParts DEF Quiet
<1>3. FreshAnswer' /\ FreshChoice'
  BY <1>1 DEF MenusInv, FreshAnswer, FreshChoice, At, Style, Frame
<1> QED BY <1>1, <1>2, <1>3, SameScreen

-----------------------------------------------------------------------------
(* The main thread: steps that change the screen or the calls              *)

\* Another item is on top of the calls.
LEMMA SelectedFrame ==
  ASSUME MenusInv, NEW s \in Nat, stack' = [stack EXCEPT ![1].selected = s]
  PROVE  /\ Calls(stack') /\ Frame' = [Frame EXCEPT !.selected = s]
         /\ Frame'.menu = Frame.menu /\ Frame'.selected = s
<1>1. Calls(stack)
  BY InvParts
<1>2. Calls(stack') /\ stack'[1] = [stack[1] EXCEPT !.selected = s]
  BY <1>1, SelectIsCalls
<1>3. stack[1] \in Frames
  BY TopFrame
<1> QED BY <1>2, <1>3 DEF Frame, Frames

\* ui_start_menu draws the menu of the frame on top.
LEMMA StartMenuInv ==
  ASSUME MenusInv, StartMenu
  PROVE  MenusInv'
<1>1. /\ screen' = Screen(Frame.menu) /\ stack' = [stack EXCEPT ![1].selected = 0]
      /\ queue' = Stale(queue) /\ Quiet /\ UNCHANGED asleep
      /\ Goto(IF Style = "chooser" THEN "wait" ELSE "shown")
  BY DEF StartMenu
<1>2. Frame.menu \in MenuIds /\ stack[1] \in Frames
  BY TopFrame
<1>3. Calls(stack') /\ Frame'.menu = Frame.menu /\ Frame'.selected = 0
      /\ Frame' \in Frames
  <2>1. Calls(stack') /\ Frame' = [Frame EXCEPT !.selected = 0]
        /\ Frame'.menu = Frame.menu /\ Frame'.selected = 0
    BY <1>1, SelectedFrame
  <2> QED BY <1>2, <2>1 DEF Frames, Frame
<1>4. screen' \in ScreenTypes /\ Fits(screen', Frame')
  BY <1>1, <1>2, <1>3, StartedFits
<1>5. Kept(queue')
  BY <1>1, StaleKept, InvParts
<1>6. main' \in MainTypes
      /\ main'.pc = (IF Style = "chooser" THEN "wait" ELSE "shown")
  BY <1>1, GotoType, InvParts
<1>7. /\ held' \subseteq Chord /\ text' \in BOOLEAN /\ input' \in InputTypes
      /\ asleep' \in BOOLEAN /\ pressed' \in 0..MaxKeys
  BY <1>1, InvParts DEF Quiet
<1>8. Style' = Style
  BY <1>3 DEF Style
<1>9. (Window /\ InRange /\ FreshAnswer /\ FreshChoice)'
  <2>1. Window'
    BY <1>4 DEF Window
  <2>2. InRange'
    <3>1. Len(Items[Frame'.menu]) \in Nat \ {0}
      BY <1>2, <1>3, MenuConstants
    <3> QED BY <1>3, <3>1 DEF InRange
  <2>3. FreshAnswer'
    BY <1>6 DEF FreshAnswer, At
  <2>4. FreshChoice'
    BY <1>6, <1>8 DEF FreshChoice, At
  <2> QED BY <2>1, <2>2, <2>3, <2>4
<1> QED
  BY <1>3, <1>4, <1>5, <1>6, <1>7, <1>9 DEF MenusInv, TypeOK, Kept, KeyRecords,
     Calls, Frames, ScreenTypes, MainTypes, InputTypes

\* What a function leaves when it returns, wherever it does.
LEMMA ReturnKeeps ==
  ASSUME MenusInv, Return
  PROVE  Calls(stack') /\ main' \in MainTypes /\ main'.pc \in {"done", "ran"}
<1>1. Calls(stack) /\ main \in MainTypes
  BY InvParts
<1>2. CASE Len(stack) = 1
  <2>1. Goto("done") /\ UNCHANGED stack
    BY <1>2 DEF Return
  <2> QED BY <1>1, <2>1, GotoType
<1>3. CASE Len(stack) # 1
  <2>1. Goto("ran") /\ stack' = Tail(stack)
    BY <1>3 DEF Return
  <2>2. Calls(Tail(stack))
    BY <1>1, <1>3, TailIsCalls
  <2> QED BY <1>1, <2>1, <2>2, GotoType
<1> QED BY <1>2, <1>3

\* A movement key moves the highlight of the menu on the screen.
LEMMA HighlightInv ==
  ASSUME MenusInv, At("wait"), queue # <<>>, queue' = Tail(queue),
         Quiet, UNCHANGED asleep,
         NEW s \in {Frame.selected - 1, Frame.selected + 1}, Highlight(s)
  PROVE  MenusInv'
<1>1. /\ screen' = MenuSelect(s) /\ UNCHANGED main
      /\ stack' = [stack EXCEPT ![1].selected = screen'.sel]
  BY DEF Highlight
<1>2. Frame \in Frames /\ screen \in ScreenTypes /\ Fits(screen, Frame)
  BY TopFrame, InvParts DEF Window, At, Frame
<1>3. /\ screen' \in ScreenTypes /\ screen'.sel \in Nat
      /\ screen'.sel < Len(Items[Frame.menu])
      /\ Fits(screen', [Frame EXCEPT !.selected = screen'.sel])
  BY <1>1, <1>2, SelectFits
<1>4. /\ Calls(stack') /\ Frame' = [Frame EXCEPT !.selected = screen'.sel]
      /\ Frame'.menu = Frame.menu /\ Frame'.selected = screen'.sel
  BY <1>1, <1>3, SelectedFrame
<1>5. Kept(queue') /\ (AllFresh(queue) => AllFresh(queue'))
  BY TailKept, InvParts
<1>6. /\ held' \subseteq Chord /\ text' \in BOOLEAN /\ input' \in InputTypes
      /\ asleep' \in BOOLEAN /\ pressed' \in 0..MaxKeys /\ main' \in MainTypes
  BY <1>1, InvParts DEF Quiet
<1>7. Style' = Style
  BY <1>4 DEF Style
<1>8. (Window /\ InRange /\ FreshAnswer /\ FreshChoice)'
  <2>1. Window'
    BY <1>3, <1>4 DEF Window
  <2>2. InRange'
    BY <1>3, <1>4 DEF InRange
  <2>3. FreshAnswer'
    BY <1>1 DEF FreshAnswer, At
  <2>4. FreshChoice'
    BY <1>1, <1>5, <1>7 DEF MenusInv, FreshChoice, At
  <2> QED BY <2>1, <2>2, <2>3, <2>4
<1> QED
  BY <1>3, <1>4, <1>5, <1>6, <1>8 DEF MenusInv, TypeOK, Kept, KeyRecords,
     Calls, Frames, ScreenTypes, MainTypes, InputTypes

\* ui_wait_key in a menu: the key is the oldest queued.
LEMMA TakeKeyInv ==
  ASSUME MenusInv, TakeKey
  PROVE  MenusInv'
<1> DEFINE action == IF text THEN Head(queue).key ELSE "text"
<1>1. At("wait") /\ queue # <<>> /\ queue' = Tail(queue) /\ Quiet /\ UNCHANGED asleep
  BY DEF TakeKey
<1>2. \/ Highlight(Frame.selected - 1)
      \/ Highlight(Frame.selected + 1)
      \/ Goto("chosen") /\ UNCHANGED <<screen, stack>>
      \/ Return /\ UNCHANGED screen
      \/ /\ stack' = [stack EXCEPT ![1].selected = 0]
         /\ Goto("chosen") /\ UNCHANGED screen
      \/ UNCHANGED <<screen, stack, main>>
  <2>1. (CASE action = "up" -> Highlight(Frame.selected - 1)
          [] action = "down" -> Highlight(Frame.selected + 1)
          [] action = "select" -> Goto("chosen") /\ UNCHANGED <<screen, stack>>
          [] action = "back" /\ Style \in {"loop", "once"} ->
               Return /\ UNCHANGED screen
          [] action = "back" /\ Style = "chooser" ->
               /\ stack' = [stack EXCEPT ![1].selected = 0]
               /\ Goto("chosen") /\ UNCHANGED screen
          [] OTHER -> UNCHANGED <<screen, stack, main>>)
    BY DEF TakeKey
  <2> HIDE DEF action
  <2>2. CASE action = "up"
    BY <2>1, <2>2
  <2>3. CASE action = "down"
    BY <2>1, <2>3
  <2>4. CASE action = "select"
    BY <2>1, <2>4
  <2>5. CASE action = "back" /\ Style \in {"loop", "once"}
    BY <2>1, <2>5
  <2>6. CASE action = "back" /\ Style = "chooser"
    BY <2>1, <2>6
  <2>7. CASE /\ action \notin {"up", "down", "select"}
             /\ ~(action = "back" /\ Style \in {"loop", "once"})
             /\ ~(action = "back" /\ Style = "chooser")
    BY <2>1, <2>7
  <2> QED BY <2>2, <2>3, <2>4, <2>5, <2>6, <2>7
<1>3. Kept(queue') /\ (AllFresh(queue) => AllFresh(queue'))
  BY <1>1, TailKept, InvParts
<1>4. /\ held' \subseteq Chord /\ text' \in BOOLEAN /\ input' \in InputTypes
      /\ asleep' \in BOOLEAN /\ pressed' \in 0..MaxKeys
      /\ main \in MainTypes /\ main.pc = "wait"
  BY <1>1, InvParts DEF Quiet, At
<1>5. CASE Highlight(Frame.selected - 1) \/ Highlight(Frame.selected + 1)
  BY <1>1, <1>5, HighlightInv
<1>6. CASE Goto("chosen") /\ UNCHANGED <<screen, stack>>
  <2>1. main' \in MainTypes /\ main'.pc = "chosen"
    BY <1>4, <1>6, GotoType
  <2>2. FreshAnswer' /\ FreshChoice'
    BY <2>1 DEF FreshAnswer, FreshChoice, At
  <2> QED BY <1>3, <1>4, <1>6, <2>1, <2>2, SameScreen
<1>7. CASE Return /\ UNCHANGED screen
  <2>1. Calls(stack') /\ main' \in MainTypes /\ main'.pc \in {"done", "ran"}
    BY <1>7, ReturnKeeps
  <2>2. screen' \in ScreenTypes
    BY <1>7, InvParts
  <2> QED BY <1>1, <1>3, <2>1, <2>2, Elsewhere
<1>8. CASE /\ stack' = [stack EXCEPT ![1].selected = 0]
           /\ Goto("chosen") /\ UNCHANGED screen
  <2>1. main' \in MainTypes /\ main'.pc = "chosen"
    BY <1>4, <1>8, GotoType
  <2>2. Calls(stack') /\ Frame'.menu = Frame.menu /\ Frame'.selected = 0
    BY <1>8, SelectedFrame
  <2>3. Len(Items[Frame.menu]) \in Nat \ {0}
    BY TopFrame, MenuConstants
  <2>4. (Window /\ InRange /\ FreshAnswer /\ FreshChoice)'
    BY <2>1, <2>2, <2>3 DEF Window, InRange, FreshAnswer, FreshChoice, At
  <2>5. screen' \in ScreenTypes
    BY <1>8, InvParts
  <2> QED
    BY <1>3, <1>4, <2>1, <2>2, <2>4, <2>5 DEF MenusInv, TypeOK, Kept, KeyRecords,
       Calls, Frames, ScreenTypes, MainTypes, InputTypes
<1>9. CASE UNCHANGED <<screen, stack, main>>
  <2>1. FreshAnswer' /\ FreshChoice'
    BY <1>3, <1>9 DEF MenusInv, FreshAnswer, FreshChoice, At, Style, Frame
  <2> QED BY <1>3, <1>4, <1>9, <2>1, SameScreen
<1> QED BY <1>2, <1>5, <1>6, <1>7, <1>8, <1>9

\* Only Window speaks of the screen, and only where a menu is up.
LEMMA EndMenuInv ==
  ASSUME MenusInv, EndMenu
  PROVE  MenusInv'
<1>1. /\ At("chosen") /\ Goto("ended") /\ Quiet /\ UNCHANGED <<stack, asleep>>
      /\ screen' \in {screen, [screen EXCEPT !.show = FALSE]}
      /\ queue' \in {queue, Stale(queue)}
  BY DEF EndMenu
<1>2. main' \in MainTypes /\ main'.pc = "ended" /\ main.pc = "chosen"
  BY <1>1, GotoType, InvParts DEF At
<1>3. screen' \in ScreenTypes /\ Kept(queue') /\ Calls(stack')
  BY <1>1, StaleKept, InvParts DEF ScreenTypes
<1>4. /\ held' \subseteq Chord /\ text' \in BOOLEAN /\ input' \in InputTypes
      /\ asleep' \in BOOLEAN /\ pressed' \in 0..MaxKeys
  BY <1>1, InvParts DEF Quiet
<1>5. (Window /\ InRange /\ FreshAnswer /\ FreshChoice)'
  BY <1>1, <1>2 DEF MenusInv, Window, InRange, FreshAnswer, FreshChoice, At, Frame
<1> QED
  BY <1>2, <1>3, <1>4, <1>5 DEF MenusInv, TypeOK, Kept, KeyRecords, Calls, Frames,
     ScreenTypes, MainTypes, InputTypes

\* An item that returns to the caller.
LEMMA ReturnItemInv ==
  ASSUME MenusInv, ReturnItem
  PROVE  MenusInv'
<1>1. Return /\ Quiet /\ UNCHANGED <<screen, asleep>> /\ queue' \in {queue, <<>>}
  BY DEF ReturnItem
<1>2. Kept(queue') /\ screen' \in ScreenTypes
  BY <1>1, EmptyKept, InvParts
<1>3. Calls(stack') /\ main' \in MainTypes /\ main'.pc \in {"done", "ran"}
  BY <1>1, ReturnKeeps
<1> QED BY <1>1, <1>2, <1>3, Elsewhere

\* An item that calls the function of another menu.
LEMMA SubMenuInv ==
  ASSUME MenusInv, SubMenu
  PROVE  MenusInv'
<1> DEFINE frame == [menu |-> Item.to, selected |-> 0]
<1>1. /\ At("ended") /\ stack' = <<frame>> \o stack
      /\ Quiet /\ UNCHANGED <<screen, asleep>> /\ queue' \in {queue, <<>>}
      /\ main' \in MainTypes /\ main'.pc \in {"discard", "start"}
  BY DEF SubMenu, MainTypes
<1>2. frame \in Frames
  BY <1>1, TopItem DEF Frames, At
<1> HIDE DEF frame
<1>3. Calls(stack')
  BY <1>1, <1>2, PushIsCalls, InvParts
<1>4. Kept(queue') /\ screen' \in ScreenTypes
  BY <1>1, EmptyKept, InvParts
<1> QED BY <1>1, <1>3, <1>4, Elsewhere

\* The question is asked with an empty queue.
LEMMA AskInv ==
  ASSUME MenusInv, Ask
  PROVE  MenusInv'
<1>1. /\ Goto("asked") /\ stack' = Callers /\ queue' = <<>>
      /\ Quiet /\ UNCHANGED <<screen, asleep>>
  BY DEF Ask
<1>2. main' \in MainTypes /\ main'.pc = "asked"
  BY <1>1, GotoType, InvParts
<1>3. Kept(queue') /\ AllFresh(queue') /\ Calls(stack') /\ screen' \in ScreenTypes
  BY <1>1, EmptyKept, CallersIsCalls, InvParts
<1> QED BY <1>1, <1>2, <1>3, Elsewhere

\* What a menu function does after its item: go on, or return.
LEMMA AfterItemInv ==
  ASSUME MenusInv, AfterItem
  PROVE  MenusInv'
<1>1. Quiet /\ UNCHANGED <<queue, screen, asleep>>
  BY DEF AfterItem
<1>2. Calls(stack') /\ main' \in MainTypes
      /\ main'.pc \in {"done", "ran", "discard", "start"}
  <2>1. CASE Return
    BY <2>1, ReturnKeeps
  <2>2. CASE ~Return
    <3>1. UNCHANGED stack
          /\ main' = [pc |-> IF Style = "chooser" THEN "discard" ELSE "start",
                      again |-> TRUE]
      BY <2>2 DEF AfterItem
    <3> QED BY <3>1, InvParts DEF MainTypes
  <2> QED BY <2>1, <2>2
<1>3. Kept(queue') /\ screen' \in ScreenTypes
  BY <1>1, InvParts
<1> QED BY <1>1, <1>2, <1>3, Elsewhere

-----------------------------------------------------------------------------
(* The theorems                                                            *)

\* Every step keeps the invariant.
LEMMA NextInv == MenusInv /\ [Next]_vars => MenusInv'
<1> SUFFICES ASSUME MenusInv, [Next]_vars PROVE MenusInv'
  OBVIOUS
<1>1. ASSUME NEW k \in Keys, Press(k) PROVE MenusInv'
  BY <1>1, PressInv
<1>2. ASSUME NEW k \in Keys, Release(k) PROVE MenusInv'
  BY <1>2, ReleaseInv
<1>3. CASE HotKeys
  BY <1>3, HotKeysInv
<1>4. CASE MainThread
  BY <1>4, PlainStepsInv, ThrowAwayInv, SleepInv, StartMenuInv, TakeKeyInv,
     EndMenuInv, ReturnItemInv, SubMenuInv, AskInv, AfterItemInv DEF MainThread
<1>5. CASE UNCHANGED vars
  BY <1>5 DEF vars, MenusInv, TypeOK, Window, InRange, FreshAnswer, FreshChoice,
     At, Style, Frame, Busy
<1> QED BY <1>1, <1>2, <1>3, <1>4, <1>5 DEF Next

\* Every reachable state of the two threads satisfies the inductive invariant.
THEOREM MenusInvariant == Spec => []MenusInv
<1>1. Init => MenusInv
  BY InitInv
<1>2. MenusInv /\ [Next]_vars => MenusInv'
  BY NextInv
<1> QED BY <1>1, <1>2, PTL DEF Spec

\* The key queue never exceeds its array, and the main thread always has a
\* menu function to return to.
THEOREM TypeCorrect == Spec => []TypeOK
<1>1. MenusInv => TypeOK
  BY DEF MenusInv
<1> QED BY <1>1, MenusInvariant, PTL

\* The highlighted row of ui_menu_select is on the screen, and is the item
\* that KEY_SELECT runs.
THEOREM HighlightedAlways == Spec => []Highlighted
<1>1. MenusInv => Highlighted
  <2> SUFFICES ASSUME MenusInv, At("wait") PROVE Highlighted
    BY DEF Highlighted
  <2>1. Fits(screen, Frame) /\ screen \in ScreenTypes /\ Frame.selected \in Nat
    BY TopFrame, InvParts DEF Window, At
  <2>2. Rows \in Nat /\ Headers[Frame.menu] \in Nat
    BY TopFrame, MenuConstants
  <2>3. screen.sel \in 0..(screen.items - 1)
    BY <2>1 DEF Fits, ScreenTypes
  <2>4. screen.top + screen.sel - screen.start \in screen.top..(Rows - 1)
    BY <2>1, <2>2 DEF Fits, ScreenTypes
  <2> QED BY <2>1, <2>3, <2>4 DEF Fits, Highlighted
<1> QED BY <1>1, MenusInvariant, PTL

\* A menu shown again takes no key pressed before it was shown: the promise
\* of ui_clear_key_queue in get_menu_selection.
THEOREM NeverByAccident == Spec => NotByAccident
<1> DEFINE Fresh == TakeKey /\ main.again /\ Style # "chooser" => Head(queue).fresh
<1>1. MenusInv => Fresh
  <2> SUFFICES ASSUME MenusInv, TakeKey, main.again, Style # "chooser"
               PROVE  Head(queue).fresh
    OBVIOUS
  <2>1. AllFresh(queue) /\ queue # <<>> /\ queue \in Seq(KeyRecords)
    BY InvParts DEF MenusInv, FreshChoice, TakeKey, Kept
  <2>2. 1 \in DOMAIN queue /\ Head(queue) = queue[1]
    BY <2>1, EmptySeq, LenProperties
  <2> QED BY <2>1, <2>2 DEF AllFresh
<1>2. MenusInv /\ [Next]_vars => [Fresh]_vars
  BY <1>1
<1> QED BY <1>2, MenusInvariant, PTL DEF NotByAccident, Spec

\* A script or a wipe that asks is confirmed by a key pressed after the
\* question.
THEOREM AlwaysConfirmedKnowingly == Spec => ConfirmedKnowingly
<1> DEFINE Fresh == Answer /\ main'.pc = "running" => Head(queue).fresh
<1>1. MenusInv => Fresh
  <2> SUFFICES ASSUME MenusInv, Answer PROVE Head(queue).fresh
    OBVIOUS
  <2>1. AllFresh(queue) /\ queue # <<>> /\ queue \in Seq(KeyRecords)
    BY InvParts DEF MenusInv, FreshAnswer, Answer, Kept
  <2>2. 1 \in DOMAIN queue /\ Head(queue) = queue[1]
    BY <2>1, EmptySeq, LenProperties
  <2> QED BY <2>1, <2>2 DEF AllFresh
<1>2. MenusInv /\ [Next]_vars => [Fresh]_vars
  BY <1>1
<1> QED BY <1>2, MenusInvariant, PTL DEF ConfirmedKnowingly, Spec

=============================================================================
