-------------------------- MODULE SceneEditorProofs --------------------------
(***************************************************************************)
(* Proofs about SceneEditor for any entities, stack capacity and bounds:   *)
(* undo and redo restore exact documents, a session that is not dirty      *)
(* shows the saved document, a save overwrites no version of the file the  *)
(* session does not know, and every binding asks for its asset.  The last  *)
(* part is about ProbeCapture, which runs beside the session: the history  *)
(* survives captures, what the Catalog lists has its source, and no scene  *)
(* file on disk references an environment that a rollback or a removal     *)
(* took away.                                                              *)
(***************************************************************************)
EXTENDS ProbeCapture, SequenceTheorems, TLAPS

-----------------------------------------------------------------------------
(* Documents and bindings. *)

World == [doc : Doc, bind : [Entity -> Binding]]

LEMMA DocsTyped ==
  /\ EmptyDoc \in Doc /\ FirstDoc \in Doc
  /\ \A d \in Doc, e \in Entity : \A c \in ContentOf(e) : [d EXCEPT ![e] = c] \in Doc
<1>1. EmptyDoc \in Doc
  BY DEF EmptyDoc, Doc, Content, ContentOf
<1>2. FirstDoc \in Doc
  BY DEF FirstDoc, Doc, Content, ContentOf
<1>3. ASSUME NEW d \in Doc, NEW e \in Entity, NEW c \in ContentOf(e)
      PROVE  [d EXCEPT ![e] = c] \in Doc
  BY DEF Doc, Content, ContentOf
<1>. QED BY <1>1, <1>2, <1>3

LEMMA MovedTyped ==
  ASSUME world \in World, NEW e \in Entity, Movable(e)
  PROVE  MovedAt(e) \in Doc
<1>1. world.doc \in Doc
  BY DEF World
<1>. QED BY <1>1 DEF MovedAt, Movable, Doc, Content, ContentOf

LEMMA RequestedTyped ==
  ASSUME NEW d \in Doc, NEW bind \in [Entity -> Binding], NEW asked \in Requested(d, bind)
  PROVE  asked \in [Entity -> Binding] /\ \A e \in Entity : asked[e] # "unresolved"
<1>1. PICK answer \in [Entity -> {"loading", "failed"}] :
        asked = [e \in Entity |-> IF bind[e] = "unresolved" THEN answer[e] ELSE bind[e]]
  BY DEF Requested
<1>. QED BY <1>1 DEF Binding

LEMMA EditedTyped ==
  ASSUME world \in World, NEW d \in Doc, WorldEdited(d)
  PROVE  world' \in World /\ world'.doc = d /\ \A e \in Entity : world'.bind[e] # "unresolved"
<1>1. BindingsAfterEdit(d) \in [Entity -> Binding]
  BY DEF BindingsAfterEdit, World, Binding
<1>2. PICK bind \in Requested(d, BindingsAfterEdit(d)) : world' = [doc |-> d, bind |-> bind]
  BY DEF WorldEdited
<1>. QED BY <1>1, <1>2, RequestedTyped DEF World

LEMMA ReplacedTyped ==
  ASSUME world \in World, NEW d \in Doc, WorldReplaced(d)
  PROVE  world' \in World /\ world'.doc = d /\ \A e \in Entity : world'.bind[e] # "unresolved"
<1>1. BindingsAfterReplace(d) \in [Entity -> Binding]
  BY DEF BindingsAfterReplace, Binding
<1>2. PICK bind \in Requested(d, BindingsAfterReplace(d)) : world' = [doc |-> d, bind |-> bind]
  BY DEF WorldReplaced
<1>. QED BY <1>1, <1>2, RequestedTyped DEF World

-----------------------------------------------------------------------------
(* The command stack. *)

Stack == [commands : Seq(Command), cursor : Nat, next : 1 .. MaxPushes + 1,
          current : Nat, saved : Nat]

\* How many of the oldest commands a push takes from the stack.
Extra == IF stack.cursor + 1 > MaxCommands THEN stack.cursor + 1 - MaxCommands ELSE 0

\* The first c elements of s, then e, without the oldest x.
LEMMA PushedSequence ==
  ASSUME NEW S, NEW s \in Seq(S), NEW c \in 0 .. Len(s), NEW e \in S, NEW x \in 0 .. c,
         NEW made, made = Append(SubSeq(s, 1, c), e)
  PROVE  /\ Len(made) = c + 1
         /\ SubSeq(made, 1 + x, Len(made)) \in Seq(S)
         /\ Len(SubSeq(made, 1 + x, Len(made))) = c + 1 - x
         /\ \A k \in 1 .. c - x :
                /\ k + x \in 1 .. c
                /\ SubSeq(made, 1 + x, Len(made))[k] = s[k + x]
         /\ SubSeq(made, 1 + x, Len(made))[c + 1 - x] = e
<1>. DEFINE top == SubSeq(made, 1 + x, Len(made))
            kept == SubSeq(s, 1, c)
<1>1. kept \in Seq(S) /\ Len(kept) = c /\ \A k \in 1 .. c : kept[k] = s[k]
  OBVIOUS
<1>. HIDE DEF kept
<1>2. made = Append(kept, e)
  BY DEF kept
<1>3. made \in Seq(S) /\ Len(made) = c + 1 /\ made[c + 1] = e
      /\ \A k \in 1 .. c : made[k] = s[k]
  BY <1>1, <1>2, AppendProperties
<1>4. \A i \in 1 + x .. c + 1 : made[i] \in S
  BY <1>3
<1>5. /\ top \in Seq(S) /\ Len(top) = c + 1 - x
      /\ \A k \in 1 .. c + 1 - x : top[k] = made[k + x]
  <2>1. top = SubSeq(made, 1 + x, c + 1)
    BY <1>3
  <2>. HIDE DEF top
  <2>2. /\ top \in Seq(S) /\ Len(top) = IF 1 + x <= c + 1 THEN (c + 1) - (1 + x) + 1 ELSE 0
        /\ \A i \in 1 .. (c + 1) - (1 + x) + 1 : top[i] = made[(1 + x) + i - 1]
    BY <2>1, <1>3
  <2>3. (c + 1) - (1 + x) + 1 = c + 1 - x /\ 1 + x <= c + 1
    OBVIOUS
  <2>4. ASSUME NEW k \in 1 .. c + 1 - x PROVE top[k] = made[k + x]
    <3>1. top[k] = made[(1 + x) + k - 1]
      BY <2>2, <2>3, Zenon
    <3>2. (1 + x) + k - 1 = k + x
      OBVIOUS
    <3>. QED BY <3>1, <3>2, Zenon
  <2>. QED BY <2>2, <2>3, <2>4, Zenon
<1>. HIDE DEF top
<1>6. ASSUME NEW k \in 1 .. c - x PROVE k + x \in 1 .. c /\ top[k] = s[k + x]
  <2>1. k \in 1 .. c + 1 - x /\ k + x \in 1 .. c
    OBVIOUS
  <2>. QED BY <1>3, <1>5, <2>1
<1>7. top[c + 1 - x] = e
  <2>1. c + 1 - x \in 1 .. c + 1 - x /\ (c + 1 - x) + x = c + 1
    OBVIOUS
  <2>. QED BY <1>3, <1>5, <2>1
<1>. QED BY <1>3, <1>5, <1>6, <1>7, Zenon DEF top

NewCommand(b, a) ==
  [before |-> b, after |-> a, beforeId |-> stack.current, afterId |-> stack.next]
Made(b, a) == Append(SubSeq(stack.commands, 1, stack.cursor), NewCommand(b, a))
Cut(b, a) == IF Len(Made(b, a)) > MaxCommands THEN Len(Made(b, a)) - MaxCommands ELSE 0
Top(b, a, x) == SubSeq(Made(b, a), 1 + x, Len(Made(b, a)))

StackTyped ==
  /\ stack \in Stack
  /\ stack.cursor <= Len(stack.commands) /\ Len(stack.commands) <= MaxCommands

\* push keeps the commands below the cursor but the oldest of a full stack, and
\* puts the new command, which starts from the current state id, on top.
LEMMA PushShape ==
  ASSUME StackTyped, stack.next <= MaxPushes, NEW b \in Doc, NEW a \in Doc,
         stack' = Pushed(b, a)
  PROVE  /\ StackTyped'
         /\ Extra \in Nat /\ Extra <= stack.cursor
         /\ stack'.cursor = stack.cursor + 1 - Extra
         /\ Len(stack'.commands) = stack'.cursor
         /\ stack'.cursor \in 1 .. MaxCommands
         /\ \A k \in 1 .. stack'.cursor - 1 :
                /\ k + Extra \in 1 .. stack.cursor
                /\ stack'.commands[k] = stack.commands[k + Extra]
         /\ stack'.commands[stack'.cursor] = NewCommand(b, a)
         /\ stack'.next = stack.next + 1 /\ stack'.current = stack.next
         /\ stack'.saved = stack.saved
<1>1. NewCommand(b, a) \in Command
  BY BoundsAssumption DEF NewCommand, Command, Stack, StackTyped
<1>2. stack.cursor \in 0 .. Len(stack.commands) /\ stack.commands \in Seq(Command)
  BY DEF Stack, StackTyped
<1>3. Extra \in 0 .. stack.cursor /\ stack.cursor + 1 - Extra \in 1 .. MaxCommands
  BY <1>2, MaxCommandsAssumption DEF Extra, StackTyped
<1>4. /\ Len(Made(b, a)) = stack.cursor + 1
      /\ Top(b, a, Extra) \in Seq(Command)
      /\ Len(Top(b, a, Extra)) = stack.cursor + 1 - Extra
      /\ \A k \in 1 .. stack.cursor - Extra :
            /\ k + Extra \in 1 .. stack.cursor
            /\ Top(b, a, Extra)[k] = stack.commands[k + Extra]
      /\ Top(b, a, Extra)[stack.cursor + 1 - Extra] = NewCommand(b, a)
  <2>1. Made(b, a) = Append(SubSeq(stack.commands, 1, stack.cursor), NewCommand(b, a))
    BY DEF Made
  <2>. DEFINE made == Made(b, a)
              top == SubSeq(made, 1 + Extra, Len(made))
  <2>2. Len(made) = stack.cursor + 1
    BY <1>1, <1>2, <1>3, <2>1, PushedSequence
  <2>3. top \in Seq(Command) /\ Len(top) = stack.cursor + 1 - Extra
    BY <1>1, <1>2, <1>3, <2>1, PushedSequence, SMTT(30)
  <2>4. \A k \in 1 .. stack.cursor - Extra :
          k + Extra \in 1 .. stack.cursor /\ top[k] = stack.commands[k + Extra]
    BY <1>1, <1>2, <1>3, <2>1, PushedSequence, SMTT(30)
  <2>5. top[stack.cursor + 1 - Extra] = NewCommand(b, a)
    BY <1>1, <1>2, <1>3, <2>1, PushedSequence, SMTT(30)
  <2>. QED BY <2>2, <2>3, <2>4, <2>5, Zenon DEF Top
<1>5. Cut(b, a) = Extra
  BY <1>2, <1>4, MaxCommandsAssumption, SMTT(30) DEF Cut, Extra
<1>6. stack' = [commands |-> Top(b, a, Cut(b, a)), cursor |-> Len(Made(b, a)) - Cut(b, a),
                next |-> stack.next + 1, current |-> stack.next, saved |-> stack.saved]
  BY Zenon DEF Pushed, Top, Made, Cut, NewCommand
<1>7. stack' = [commands |-> Top(b, a, Extra), cursor |-> stack.cursor + 1 - Extra,
                next |-> stack.next + 1, current |-> stack.next, saved |-> stack.saved]
  <2>1. Len(Made(b, a)) - Cut(b, a) = stack.cursor + 1 - Extra
    BY <1>2, <1>3, <1>4, <1>5
  <2>. QED BY <1>5, <1>6, <2>1, Zenon
<1>8. StackTyped'
  BY <1>2, <1>3, <1>4, <1>7, BoundsAssumption, MaxCommandsAssumption, SMTT(30) DEF Stack, StackTyped
<1>9. stack'.cursor - 1 = stack.cursor - Extra
  BY <1>2, <1>3, <1>7
<1>. QED BY <1>3, <1>4, <1>7, <1>8, <1>9

-----------------------------------------------------------------------------
(* Types. *)

Session == [open : BOOLEAN, before : Doc \cup {NoDoc}, saved : Doc, stamp : 0 .. MaxVersions]
Ui == [held : {"nothing", "gizmo"} \cup Widget, editing : SUBSET {"transform", "light"},
       manipulating : BOOLEAN, changed : BOOLEAN]
Disk == [doc : Doc, version : 1 .. MaxVersions, registered : BOOLEAN, pinned : BOOLEAN]
Load == [at : {"requested", "parsed", "ready"}, doc : Doc,
         version : 0 .. MaxVersions, stamp : 0 .. MaxVersions]
Ghost == [base : 0 .. MaxVersions, raced : BOOLEAN, adrift : BOOLEAN, midway : BOOLEAN]

\* The type invariant with the type of every variable named.
TypeParts ==
  /\ world \in World /\ session \in Session /\ StackTyped /\ ui \in Ui
  /\ disk \in Disk /\ (call = Idle \/ call \in Call)
  /\ (load = Idle \/ load \in Load) /\ ghost \in Ghost

LEMMA TypesNamed == (TypeOK <=> TypeParts) /\ (TypeOK' <=> TypeParts')
BY DEF TypeOK, TypeParts, World, Session, StackTyped, Stack, Ui, Disk, Call, Load, Ghost

LEMMA WorldParts ==
  ASSUME TypeOK PROVE TypeParts /\ world.doc \in Doc
<1>1. TypeParts
  BY TypesNamed
<1>2. world \in World => world.doc \in Doc
  BY DEF World
<1>. QED BY <1>1, <1>2, Zenon DEF TypeParts

\* undo and redo move the cursor and the current state id.
LEMMA CursorMoves ==
  ASSUME StackTyped, NEW c \in 0 .. Len(stack.commands), NEW id \in Nat,
         stack' = [stack EXCEPT !.current = id, !.cursor = c]
  PROVE  /\ StackTyped' /\ stack'.cursor = c /\ stack'.current = id
         /\ stack'.commands = stack.commands /\ stack'.next = stack.next
         /\ stack'.saved = stack.saved
<1>1. stack \in Stack
  BY DEF StackTyped
<1>2. /\ stack'.cursor = c /\ stack'.current = id /\ stack'.commands = stack.commands
      /\ stack'.next = stack.next /\ stack'.saved = stack.saved
  BY <1>1 DEF Stack
<1>3. stack' \in Stack
  <2>. DEFINE half == [stack EXCEPT !.current = id]
  <2>1. half \in Stack
    BY <1>1 DEF Stack
  <2>2. stack' = [half EXCEPT !.cursor = c]
    OBVIOUS
  <2>3. c \in Nat
    OBVIOUS
  <2>. HIDE DEF half
  <2>. QED BY <2>1, <2>2, <2>3 DEF Stack
<1>4. c <= Len(stack.commands) /\ Len(stack.commands) <= MaxCommands
  BY <1>1 DEF StackTyped, Stack
<1>5. stack'.cursor <= Len(stack'.commands) /\ Len(stack'.commands) <= MaxCommands
  BY <1>2, <1>4, Zenon
<1>6. StackTyped'
  BY <1>3, <1>5, Zenon DEF StackTyped
<1>. QED BY <1>2, <1>6

LEMMA EmptyStackTyped ==
  /\ EmptyStack \in Stack
  /\ EmptyStack.cursor = 0 /\ Len(EmptyStack.commands) = 0
  /\ EmptyStack.next = 1 /\ EmptyStack.current = 0 /\ EmptyStack.saved = 0
  /\ stack' = EmptyStack => StackTyped'
<1>1. << >> \in Seq(Command) /\ Len(<< >>) = 0
  OBVIOUS
<1>2. EmptyStack \in Stack
  BY <1>1, BoundsAssumption DEF EmptyStack, Stack
<1>3. /\ EmptyStack.cursor = 0 /\ Len(EmptyStack.commands) = 0
      /\ EmptyStack.next = 1 /\ EmptyStack.current = 0 /\ EmptyStack.saved = 0
  BY <1>1 DEF EmptyStack
<1>4. 0 <= 0 /\ 0 <= MaxCommands
  BY MaxCommandsAssumption
<1>5. stack' = EmptyStack => StackTyped'
  BY <1>2, <1>3, <1>4, Zenon DEF StackTyped
<1>. QED BY <1>2, <1>3, <1>5, Zenon

LEMMA InitTyped == Init => TypeOK
<1>. SUFFICES ASSUME Init PROVE TypeOK
  OBVIOUS
<1>1. world \in World
  BY DocsTyped DEF Init, World, Binding
<1>2. session \in Session /\ disk \in Disk /\ ghost \in Ghost
  BY DocsTyped, BoundsAssumption DEF Init, Session, Disk, Ghost
<1>3. StackTyped
  BY MaxCommandsAssumption, BoundsAssumption DEF Init, EmptyStack, Stack, StackTyped
<1>4. ui \in Ui
  BY DEF Init, Ui
<1>. QED BY <1>1, <1>2, <1>3, <1>4, TypesNamed DEF Init, TypeParts

LEMMA RecordedTyped ==
  ASSUME TypeOK, stack.next <= MaxPushes, NEW b \in Doc, NEW a \in Doc, Recorded(b, a)
  PROVE  /\ world' \in World /\ world'.doc = a /\ StackTyped' /\ stack' = Pushed(b, a)
         /\ \A e \in Entity : world'.bind[e] # "unresolved"
<1>1. world \in World /\ StackTyped
  BY TypesNamed DEF TypeParts
<1>. QED BY <1>1, EditedTyped, PushShape DEF Recorded

LEMMA ExecuteTyped ==
  ASSUME TypeOK, NEW d \in Doc, Execute(d)
  PROVE  world' \in World /\ world'.doc = d /\ session' = session /\ StackTyped'
<1>1. world.doc \in Doc
  BY WorldParts
<1>. QED BY <1>1, RecordedTyped DEF Execute

\* What a setter makes of an entity is a content the entity may have.
LEMMA ChangesTyped ==
  ASSUME TypeOK, NEW e \in Entity, NEW c, c \in Changed(e) \/ c \in Set(e)
  PROVE  [world.doc EXCEPT ![e] = c] \in Doc
<1>1. world.doc \in Doc /\ world.doc[e] \in ContentOf(e)
  BY WorldParts DEF Doc
<1>2. Set(e) \subseteq ContentOf(e)
  BY <1>1 DEF Set, ContentOf
<1>3. Changed(e) \subseteq ContentOf(e)
  BY <1>1, <1>2 DEF Changed, ContentOf
<1>. QED BY <1>1, <1>2, <1>3, DocsTyped

\* Undo and redo note when they leave the history behind.
LEMMA AsideTyped ==
  ASSUME TypeOK, SteppedAside
  PROVE  /\ ghost' \in Ghost /\ ghost'.base = ghost.base /\ ghost'.raced = ghost.raced
         /\ ghost'.midway = ghost.midway
         /\ ghost'.adrift = (ghost.adrift \/ session.before # NoDoc)
<1>1. ghost \in Ghost
  BY WorldParts DEF TypeParts
<1>2. (ghost.adrift \/ session.before # NoDoc) \in BOOLEAN
  BY Zenon
<1>. QED BY <1>1, <1>2 DEF SteppedAside, Ghost
\* Every step of the session keeps the types.
LEMMA CommandsTyped ==
  ASSUME TypeOK, EditEntity \/ RejectedEdit \/ Undo \/ Redo
  PROVE  TypeOK'
<1>1. TypeParts /\ world.doc \in Doc
  BY WorldParts
<1>. SUFFICES TypeParts'
  BY TypesNamed
<1>. USE DEF TypeParts
<1>2. CASE EditEntity
  <2>0. PICK e \in Entity : \E c \in Changed(e) : Execute([world.doc EXCEPT ![e] = c])
    BY <1>2 DEF EditEntity
  <2>1. PICK c \in Changed(e) : Execute([world.doc EXCEPT ![e] = c])
    BY <2>0
  <2>3. [world.doc EXCEPT ![e] = c] \in Doc
    BY ChangesTyped
  <2>4. world' \in World /\ StackTyped'
    BY <2>1, <2>3, ExecuteTyped
  <2>5. UNCHANGED <<session, ui, disk, call, load, ghost>>
    BY <1>2, <2>1 DEF EditEntity, Execute
  <2>. QED BY <1>1, <2>4, <2>5
<1>3. CASE RejectedEdit
  <2>1. world' \in World
    BY <1>1, <1>3, ReplacedTyped DEF RejectedEdit
  <2>. QED BY <1>1, <1>3, <2>1 DEF RejectedEdit, StackTyped
<1>4. CASE Undo
  <2>1. stack.cursor \in 1 .. Len(stack.commands)
    BY <1>1, <1>4 DEF Undo, CanUndo, StackTyped, Stack
  <2>2. stack.commands[stack.cursor] \in Command
    BY <1>1, <2>1 DEF StackTyped, Stack
  <2>3. world' \in World
    BY <1>1, <1>4, <2>2, ReplacedTyped DEF Undo, Command
  <2>4. stack' = [stack EXCEPT !.current = stack.commands[stack.cursor].beforeId,
                               !.cursor = stack.cursor - 1]
    BY <1>4 DEF Undo
  <2>5. /\ stack.commands[stack.cursor].beforeId \in Nat
        /\ stack.cursor - 1 \in 0 .. Len(stack.commands)
    BY <1>1, <2>1, <2>2 DEF Command, StackTyped, Stack
  <2>6. StackTyped'
    BY <1>1, <2>4, <2>5, CursorMoves
  <2>. QED BY <1>1, <1>4, <2>3, <2>6, AsideTyped DEF Undo
<1>5. CASE Redo
  <2>1. stack.cursor + 1 \in 1 .. Len(stack.commands)
    BY <1>1, <1>5 DEF Redo, CanRedo, StackTyped, Stack
  <2>2. stack.commands[stack.cursor + 1] \in Command
    BY <1>1, <2>1 DEF StackTyped, Stack
  <2>3. world' \in World
    BY <1>1, <1>5, <2>2, ReplacedTyped DEF Redo, Command
  <2>4. stack' = [stack EXCEPT !.current = stack.commands[stack.cursor + 1].afterId,
                               !.cursor = stack.cursor + 1]
    BY <1>5 DEF Redo
  <2>5. /\ stack.commands[stack.cursor + 1].afterId \in Nat
        /\ stack.cursor + 1 \in 0 .. Len(stack.commands)
    BY <1>1, <2>1, <2>2 DEF Command, StackTyped, Stack
  <2>6. StackTyped'
    BY <1>1, <2>4, <2>5, CursorMoves
  <2>. QED BY <1>1, <1>5, <2>3, <2>6, AsideTyped DEF Redo
<1>. QED BY <1>2, <1>3, <1>4, <1>5

LEMMA BegunTyped ==
  ASSUME TypeOK
  PROVE  /\ Begun \in Session /\ Begun.before # NoDoc
         /\ Begun.before = Settled /\ Begun.saved = session.saved
         /\ Begun.open = session.open /\ Begun.stamp = session.stamp
BY WorldParts, NoneAssumption DEF TypeParts, Begun, Settled, Session

LEMMA FlagsTyped ==
  ASSUME TypeOK, NEW w \in Widget
  PROVE  /\ FlagOf(w) \in {"transform", "light"}
         /\ w # "nothing" /\ w # "gizmo"
         /\ LET drawn == [ui EXCEPT !.held = w, !.editing = @ \cup {FlagOf(w)}] IN
              /\ drawn \in Ui /\ drawn.held = w
              /\ drawn.editing = ui.editing \cup {FlagOf(w)}
              /\ drawn.manipulating = ui.manipulating
         /\ LET freed == [ui EXCEPT !.held = "nothing", !.editing = @ \ {FlagOf(w)}] IN
              freed \in Ui /\ freed.held = "nothing"
BY WorldParts, WidgetAssumption DEF TypeParts, FlagOf, Ui

LEMMA CancelledTyped ==
  ASSUME TypeOK, Cancelled
  PROVE  /\ world' \in World /\ session' \in Session
         /\ world'.doc = Settled /\ session' = [session EXCEPT !.before = NoDoc]
<1>1. /\ world \in World /\ world.doc \in Doc /\ session \in Session
  BY WorldParts DEF TypeParts
<1>2. CASE session.before = NoDoc
  <2>1. UNCHANGED <<world, session>>
    BY <1>2 DEF Cancelled
  <2>2. session = [session EXCEPT !.before = NoDoc]
    BY <1>1, <1>2 DEF Session
  <2>. QED BY <1>1, <1>2, <2>1, <2>2 DEF Settled
<1>3. CASE session.before # NoDoc
  <2>1. session.before \in Doc
    BY <1>1, <1>3 DEF Session
  <2>2. session' = [session EXCEPT !.before = NoDoc] /\ WorldReplaced(session.before)
    BY <1>3 DEF Cancelled
  <2>3. session' \in Session
    BY <1>1, <2>2 DEF Session
  <2>. QED BY <1>1, <1>3, <2>1, <2>2, <2>3, ReplacedTyped DEF Settled
<1>. QED BY <1>2, <1>3

\* A commit closes the edit: its command is recorded, or it is taken back.
LEMMA CommittedTyped ==
  ASSUME TypeOK, EditsAreHeld, Committed
  PROVE  /\ world' \in World /\ session' \in Session /\ StackTyped'
         /\ session' = [session EXCEPT !.before = NoDoc]
         /\ \/ /\ session.before \in Doc /\ stack.next <= MaxPushes
               /\ stack' = Pushed(session.before, world.doc) /\ world'.doc = world.doc
            \/ Cancelled /\ stack' = stack
<1>1. /\ world.doc \in Doc /\ session \in Session /\ StackTyped
  BY WorldParts DEF TypeParts
<1>2. CASE /\ session.before # NoDoc /\ Recorded(session.before, world.doc)
           /\ session' = [session EXCEPT !.before = NoDoc]
  <2>1. session.before \in Doc /\ stack.next <= MaxPushes
    BY <1>1, <1>2 DEF Session, EditsAreHeld
  <2>2. session' \in Session
    BY <1>1, <1>2 DEF Session
  <2>. QED BY <1>1, <1>2, <2>1, <2>2, RecordedTyped
<1>3. CASE Cancelled /\ UNCHANGED stack
  BY <1>1, <1>3, CancelledTyped DEF StackTyped
<1>. QED BY <1>2, <1>3 DEF Committed

\* A widget moves an entity: in place, in an open edit or behind the history's
\* back, or by a command of its own.
LEMMA DragParts ==
  ASSUME TypeOK, InspectorDrag
  PROVE  /\ session' \in {session, Begun} /\ stack.next <= MaxPushes
         /\ ~ui.manipulating /\ UNCHANGED <<disk, call, load>>
         /\ \E w \in Widget :
              /\ ui' = [ui EXCEPT !.held = w, !.editing = @ \cup {FlagOf(w)}]
              /\ session' = IF FlagOf(w) \in ui.editing THEN session ELSE Begun
         /\ \E e \in Entity :
              /\ Movable(e)
              /\ \/ /\ world' = [world EXCEPT !.doc = MovedAt(e)] /\ stack' = stack
                    /\ ghost' = [ghost EXCEPT !.adrift = @ \/ session'.before = NoDoc]
                 \/ /\ session'.before = NoDoc /\ session' = session
                    /\ Recorded(world.doc, MovedAt(e)) /\ ghost' = ghost
<1>1. PICK w \in Widget, e \in Entity :
        /\ Movable(e)
        /\ session' = IF FlagOf(w) \in ui.editing THEN session ELSE Begun
        /\ ui' = [ui EXCEPT !.held = w, !.editing = @ \cup {FlagOf(w)}]
        /\ \/ /\ world' = [world EXCEPT !.doc = MovedAt(e)]
              /\ ghost' = [ghost EXCEPT !.adrift = @ \/ session'.before = NoDoc]
              /\ UNCHANGED stack
           \/ /\ session'.before = NoDoc
              /\ Recorded(world.doc, MovedAt(e))
              /\ UNCHANGED ghost
  BY DEF InspectorDrag
<1>2. session' = session \/ session' = Begun
  BY <1>1
<1>3. session'.before = NoDoc => session' = session
  BY <1>2, BegunTyped
<1>4. stack.next <= MaxPushes /\ ~ui.manipulating /\ UNCHANGED <<disk, call, load>>
  BY DEF InspectorDrag
<1>. QED BY <1>1, <1>2, <1>3, <1>4

LEMMA MovedWorld ==
  ASSUME TypeOK, NEW e \in Entity, Movable(e), world' = [world EXCEPT !.doc = MovedAt(e)]
  PROVE  world' \in World /\ world'.bind = world.bind
<1>1. world \in World
  BY WorldParts DEF TypeParts
<1>. QED BY <1>1, MovedTyped DEF World

LEMMA DragTyped ==
  ASSUME TypeOK, InspectorDrag
  PROVE  TypeOK'
<1>1. TypeParts /\ world.doc \in Doc
  BY WorldParts
<1>. SUFFICES TypeParts'
  BY TypesNamed
<1>. USE DEF TypeParts
<1>2. session' \in Session /\ ui' \in Ui /\ UNCHANGED <<disk, call, load>>
  BY <1>1, DragParts, BegunTyped, FlagsTyped
<1>3. PICK e \in Entity :
        /\ Movable(e)
        /\ \/ /\ world' = [world EXCEPT !.doc = MovedAt(e)] /\ stack' = stack
              /\ ghost' = [ghost EXCEPT !.adrift = @ \/ session'.before = NoDoc]
           \/ /\ session'.before = NoDoc /\ session' = session
              /\ Recorded(world.doc, MovedAt(e)) /\ ghost' = ghost
  BY DragParts
<1>4. MovedAt(e) \in Doc /\ stack.next <= MaxPushes
  BY <1>1, <1>3, MovedTyped, DragParts
<1>5. CASE /\ world' = [world EXCEPT !.doc = MovedAt(e)] /\ stack' = stack
           /\ ghost' = [ghost EXCEPT !.adrift = @ \/ session'.before = NoDoc]
  <2>1. (ghost.adrift \/ session'.before = NoDoc) \in BOOLEAN
    BY Zenon
  <2>2. ghost' \in Ghost
    BY <1>1, <1>5, <2>1 DEF Ghost
  <2>. QED BY <1>1, <1>2, <1>3, <1>5, <2>2, MovedWorld DEF StackTyped
<1>6. CASE Recorded(world.doc, MovedAt(e)) /\ ghost' = ghost
  BY <1>1, <1>2, <1>4, <1>6, RecordedTyped
<1>. QED BY <1>3, <1>5, <1>6

\* An entity is set in place, and nobody is asked for its asset.
LEMMA SetParts ==
  ASSUME TypeOK, SetInPlace
  PROVE  /\ world' \in World /\ session.before # NoDoc
         /\ UNCHANGED <<session, stack, ui, disk, call, load, ghost>>
<1>1. PICK e \in Entity : \E c \in Set(e) :
        world' = [doc |-> [world.doc EXCEPT ![e] = c],
                  bind |-> BindingsAfterEdit([world.doc EXCEPT ![e] = c])]
  BY DEF SetInPlace
<1>2. PICK c \in Set(e) :
        world' = [doc |-> [world.doc EXCEPT ![e] = c],
                  bind |-> BindingsAfterEdit([world.doc EXCEPT ![e] = c])]
  BY <1>1
<1>. DEFINE d == [world.doc EXCEPT ![e] = c]
<1>3. d \in Doc
  BY ChangesTyped
<1>. HIDE DEF d
<1>4. world \in World
  BY WorldParts DEF TypeParts
<1>5. BindingsAfterEdit(d) \in [Entity -> Binding]
  BY <1>4 DEF BindingsAfterEdit, World, Binding
<1>6. world' \in World
  BY <1>2, <1>3, <1>5 DEF World, d
<1>. QED BY <1>6 DEF SetInPlace

LEMMA ContinuousTyped ==
  ASSUME TypeOK, EditsAreHeld,
         \/ InspectorDrag \/ InspectorRelease \/ GroupedRelease \/ WidgetLost \/ SetInPlace
         \/ GizmoGrab \/ GizmoDrag \/ GizmoRelease \/ GizmoCancel
  PROVE  TypeOK'
<1>1. TypeParts /\ world.doc \in Doc
  BY WorldParts
<1>. SUFFICES ASSUME ~InspectorDrag PROVE TypeParts'
  BY TypesNamed, DragTyped
<1>. USE DEF TypeParts
<1>b. \A h \in {"nothing", "gizmo"}, m, c \in BOOLEAN :
        /\ [ui EXCEPT !.held = h, !.manipulating = m, !.changed = c] \in Ui
        /\ [ui EXCEPT !.held = h] \in Ui
        /\ [ui EXCEPT !.changed = c] \in Ui
  BY <1>1 DEF Ui
<1>2. CASE SetInPlace
  BY <1>1, <1>2, SetParts DEF StackTyped
<1>3. CASE InspectorRelease
  <2>1. ui.held \in Widget
    BY <1>1, <1>3 DEF InspectorRelease, LastOfGroup, Ui
  <2>2. ui' \in Ui
    BY <1>3, <2>1, FlagsTyped DEF InspectorRelease
  <2>. QED BY <1>1, <1>3, <2>2, CommittedTyped DEF InspectorRelease
<1>4. CASE WidgetLost \/ GroupedRelease
  <2>1. ui' \in Ui
    BY <1>1, <1>4, <1>b DEF WidgetLost, GroupedRelease
  <2>. QED BY <1>1, <1>4, <2>1 DEF WidgetLost, GroupedRelease, StackTyped
<1>5. CASE GizmoGrab
  <2>1. session' \in Session /\ ui' \in Ui
    BY <1>1, <1>5, <1>b, BegunTyped DEF GizmoGrab
  <2>. QED BY <1>1, <1>5, <2>1 DEF GizmoGrab, StackTyped
<1>6. CASE GizmoDrag
  <2>1. world' \in World /\ ui' \in Ui
    BY <1>1, <1>6, <1>b, MovedWorld DEF GizmoDrag
  <2>. QED BY <1>1, <1>6, <2>1 DEF GizmoDrag, StackTyped
<1>7. CASE GizmoRelease
  <2>1. ui' \in Ui
    BY <1>7, <1>b DEF GizmoRelease
  <2>2. world' \in World /\ session' \in Session /\ StackTyped'
    BY <1>1, <1>7, CommittedTyped, CancelledTyped DEF GizmoRelease, StackTyped
  <2>. QED BY <1>1, <1>7, <2>1, <2>2 DEF GizmoRelease
<1>8. CASE GizmoCancel
  <2>1. ui' \in Ui
    BY <1>8, <1>b DEF GizmoCancel
  <2>. QED BY <1>1, <1>8, <2>1, CancelledTyped DEF GizmoCancel, StackTyped
<1>. QED BY <1>2, <1>3, <1>4, <1>5, <1>6, <1>7, <1>8

LEMMA WorldMade ==
  ASSUME NEW d \in Doc, NEW bind \in [Entity -> Binding]
  PROVE  [doc |-> d, bind |-> bind] \in World
BY DEF World

LEMMA SessionChanges ==
  ASSUME session \in Session, NEW d \in Doc, NEW v \in 0 .. MaxVersions
  PROVE  [session EXCEPT !.stamp = v, !.saved = d] \in Session
BY DEF Session

LEMMA GhostChanges ==
  ASSUME ghost \in Ghost, NEW v \in 0 .. MaxVersions, NEW r \in BOOLEAN, NEW m \in BOOLEAN
  PROVE  /\ [ghost EXCEPT !.base = v, !.raced = r] \in Ghost
         /\ [ghost EXCEPT !.midway = m] \in Ghost
         /\ [ghost EXCEPT !.adrift = r, !.midway = m] \in Ghost
         /\ [ghost EXCEPT !.base = v, !.adrift = r, !.midway = m] \in Ghost
BY DEF Ghost

LEMMA FilesTyped ==
  ASSUME TypeOK, CallsRunAlone,
         \/ SaveBegins \/ SaveRechecks \/ SaveReplaces \/ SaveEnds \/ SaveAs
         \/ ReloadBegins \/ ReloadEnds \/ ForeignWrite
  PROVE  TypeOK'
<1>1. TypeParts /\ world.doc \in Doc
  BY WorldParts
<1>. SUFFICES TypeParts'
  BY TypesNamed
<1>. USE BoundsAssumption DEF TypeParts
<1>2. CASE SaveBegins
  <2>1. call' \in Call
    BY <1>1, <1>2 DEF SaveBegins, Call, Disk
  <2>. QED BY <1>1, <1>2, <2>1 DEF SaveBegins, StackTyped
<1>3. CASE SaveRechecks
  <2>1. call' = Idle \/ call' \in Call
    BY <1>1, <1>3 DEF SaveRechecks, Call
  <2>. QED BY <1>1, <1>3, <2>1 DEF SaveRechecks, StackTyped
<1>4. CASE SaveReplaces
  <2>1. disk.version + 1 \in 1 .. MaxVersions /\ call \in Call
    BY <1>1, <1>4 DEF SaveReplaces, CallsRunAlone, Disk
  <2>2. disk' \in Disk
    BY <1>1, <1>4, <2>1 DEF SaveReplaces, Disk, Call
  <2>3. call' \in Call
    BY <1>4, <2>1 DEF SaveReplaces, Call
  <2>4. ghost' \in Ghost
    <3>1. (ghost.raced \/ (load # Idle /\ load.at = "parsed")) \in BOOLEAN
      BY Zenon
    <3>2. disk.version + 1 \in 0 .. MaxVersions
      BY <2>1
    <3>3. ghost' = [ghost EXCEPT !.base = disk.version + 1,
                      !.raced = ghost.raced \/ (load # Idle /\ load.at = "parsed")]
      BY <1>4 DEF SaveReplaces
    <3>. QED BY <1>1, <3>1, <3>2, <3>3, GhostChanges, Zenon
  <2>. QED BY <1>1, <1>4, <2>2, <2>3, <2>4 DEF SaveReplaces, StackTyped
<1>5. CASE SaveEnds
  <2>0. call.doc \in Doc /\ disk.version \in 0 .. MaxVersions
    BY <1>1, <1>5 DEF SaveEnds, Call, Disk
  <2>1. session' \in Session
    BY <1>1, <1>5, <2>0, SessionChanges DEF SaveEnds
  <2>2. StackTyped'
    BY <1>1, <1>5 DEF SaveEnds, StackTyped, Stack
  <2>3. ghost' \in Ghost
    <3>1. (session.before # NoDoc) \in BOOLEAN
      BY Zenon
    <3>. QED BY <1>1, <1>5, <3>1 DEF SaveEnds, Ghost
  <2>. QED BY <1>1, <1>5, <2>1, <2>2, <2>3 DEF SaveEnds
<1>6. CASE SaveAs
  <2>1. disk.version + 1 \in 1 .. MaxVersions
    BY <1>1, <1>6 DEF SaveAs, Disk
  <2>2. disk' \in Disk
    BY <1>1, <1>6, <2>1 DEF SaveAs, Disk
  <2>3. world' \in World
    BY <1>1, <1>6 DEF SaveAs, World, BindingsAfterReplace, Binding
  <2>4. session' \in Session
    BY <1>1, <1>6, <2>1 DEF SaveAs, Session
  <2>5. ghost' \in Ghost
    <3>1. ghost' = [ghost EXCEPT !.base = disk.version + 1, !.adrift = FALSE, !.midway = FALSE]
      BY <1>6 DEF SaveAs
    <3>2. disk.version + 1 \in 0 .. MaxVersions
      BY <2>1
    <3>. QED BY <1>1, <3>1, <3>2, GhostChanges
  <2>. QED BY <1>1, <1>6, <2>2, <2>3, <2>4, <2>5, EmptyStackTyped DEF SaveAs
<1>7. CASE ReloadBegins
  <2>1. call' \in Call
    BY <1>1, <1>7 DEF ReloadBegins, Call, Disk
  <2>. QED BY <1>1, <1>7, <2>1 DEF ReloadBegins, StackTyped
<1>8. CASE ReloadEnds
  <2>1. call \in Call /\ call.doc \in Doc /\ call.version \in 0 .. MaxVersions
    BY <1>1, <1>8 DEF ReloadEnds, Call
  <2>2. world' \in World
    BY <1>1, <1>8, <2>1, ReplacedTyped DEF ReloadEnds
  <2>3. disk.version \in 0 .. MaxVersions
    BY <1>1 DEF Disk
  <2>4. session' \in Session
    BY <1>1, <1>8, <2>1, <2>3, SessionChanges DEF ReloadEnds
  <2>5. ghost' \in Ghost
    <3>1. (session.before # NoDoc) \in BOOLEAN
      BY Zenon
    <3>. QED BY <1>1, <1>8, <2>1, <3>1 DEF ReloadEnds, Ghost
  <2>. QED BY <1>1, <1>8, <2>2, <2>4, <2>5, EmptyStackTyped DEF ReloadEnds
<1>9. CASE ForeignWrite
  <2>1. disk.version + 1 \in 1 .. MaxVersions
    BY <1>1, <1>9 DEF ForeignWrite, Disk
  <2>2. disk' \in Disk
    BY <1>1, <1>9, <2>1, DocsTyped DEF ForeignWrite, Disk
  <2>3. ghost' \in Ghost
    BY <1>1, <1>9 DEF ForeignWrite, Ghost
  <2>. QED BY <1>1, <1>9, <2>2, <2>3 DEF ForeignWrite, StackTyped
<1>. QED BY <1>2, <1>3, <1>4, <1>5, <1>6, <1>7, <1>8, <1>9

LEMMA LoadsTyped ==
  ASSUME TypeOK,
         \/ RequestLoad \/ DiscardAndLoad \/ WorkerParses \/ WorkerStamps \/ Publish
         \/ CloseScene \/ BindingSettles
  PROVE  TypeOK'
<1>1. TypeParts /\ world.doc \in Doc
  BY WorldParts
<1>. SUFFICES TypeParts'
  BY TypesNamed
<1>. USE BoundsAssumption DEF TypeParts
<1>a. NewLoad \in Load
  BY DocsTyped DEF NewLoad, Load
<1>2. CASE RequestLoad
  BY <1>1, <1>2, <1>a DEF RequestLoad, StackTyped
<1>3. CASE DiscardAndLoad
  <2>1. session.saved \in Doc
    BY <1>1 DEF Session
  <2>2. world' \in World
    BY <1>1, <1>3, <2>1, ReplacedTyped DEF DiscardAndLoad
  <2>3. session' \in Session
    BY <1>1, <1>3 DEF DiscardAndLoad, Session
  <2>4. ghost' \in Ghost
    BY <1>1, <1>3 DEF DiscardAndLoad, Ghost
  <2>. QED BY <1>1, <1>3, <1>a, <2>2, <2>3, <2>4, EmptyStackTyped DEF DiscardAndLoad
<1>4. CASE WorkerParses
  <2>1. load' = Idle \/ load' \in Load
    <3>1. load \in Load /\ disk.doc \in Doc /\ disk.version \in 0 .. MaxVersions
      BY <1>1, <1>4 DEF WorkerParses, Disk
    <3>2. [load EXCEPT !.at = "parsed", !.doc = disk.doc, !.version = disk.version] \in Load
      BY <3>1 DEF Load
    <3>. QED BY <1>4, <3>2, Zenon DEF WorkerParses
  <2>. QED BY <1>1, <1>4, <2>1 DEF WorkerParses, StackTyped
<1>5. CASE WorkerStamps
  <2>1. load' = Idle \/ load' \in Load
    <3>1. load \in Load /\ disk.version \in 0 .. MaxVersions
      BY <1>1, <1>5 DEF WorkerStamps, Disk
    <3>2. [load EXCEPT !.at = "ready", !.stamp = disk.version] \in Load
      BY <3>1 DEF Load
    <3>. QED BY <1>5, <3>2 DEF WorkerStamps
  <2>. QED BY <1>1, <1>5, <2>1 DEF WorkerStamps, StackTyped
<1>6. CASE Publish
  <2>0. load \in Load /\ load.doc \in Doc
    BY <1>1, <1>6 DEF Publish, Load
  <2>1. CASE session.open /\ Dirty
    BY <1>1, <1>6, <2>1 DEF Publish, StackTyped
  <2>2. CASE ~(session.open /\ Dirty)
    <3>1. world' \in World
      <4>. DEFINE ready == [e \in Entity |->
                              IF NeedsAsset(load.doc, e) THEN "ready" ELSE "none"]
      <4>1. ready \in [Entity -> Binding]
        BY DEF Binding
      <4>2. world' = [doc |-> load.doc, bind |-> ready]
        BY <1>6, <2>2 DEF Publish
      <4>. HIDE DEF ready
      <4>. QED BY <2>0, <4>1, <4>2, WorldMade
    <3>2. session' \in Session
      <4>1. load.stamp \in 0 .. MaxVersions /\ TRUE \in BOOLEAN
        BY <2>0 DEF Load
      <4>2. session' = [open |-> TRUE, before |-> NoDoc, saved |-> load.doc,
                        stamp |-> load.stamp]
        BY <1>6, <2>2 DEF Publish
      <4>. QED BY <2>0, <4>1, <4>2 DEF Session
    <3>3. ui' \in Ui
      BY <1>1, <1>6, <2>2 DEF Publish, Ui
    <3>4. ghost' \in Ghost
      BY <1>1, <1>6, <2>0, <2>2 DEF Publish, Ghost, Load
    <3>. QED BY <1>1, <1>6, <2>2, <3>1, <3>2, <3>3, <3>4, EmptyStackTyped DEF Publish
  <2>. QED BY <2>1, <2>2
<1>7. CASE CloseScene
  <2>1. world' \in World
    BY <1>7, DocsTyped DEF CloseScene, World, Binding
  <2>2. session' \in Session
    BY <1>7, DocsTyped DEF CloseScene, Session
  <2>3. ghost' \in Ghost
    BY <1>1, <1>7 DEF CloseScene, Ghost
  <2>. QED BY <1>1, <1>7, <2>1, <2>2, <2>3, EmptyStackTyped DEF CloseScene
<1>8. CASE BindingSettles
  <2>1. PICK e \in Entity, answer \in {"ready", "failed"} :
          world' = [world EXCEPT !.bind[e] = answer]
    BY <1>8 DEF BindingSettles
  <2>2. world' \in World
    BY <1>1, <2>1 DEF World, Binding
  <2>. QED BY <1>1, <1>8, <2>2 DEF BindingSettles, StackTyped
<1>. QED BY <1>2, <1>3, <1>4, <1>5, <1>6, <1>7, <1>8

LEMMA StepTyped ==
  ASSUME TypeOK, EditsAreHeld, CallsRunAlone, [EditorNext]_editorVars
  PROVE  TypeOK'
<1>1. CASE EditorNext
  BY <1>1, CommandsTyped, ContinuousTyped, FilesTyped, LoadsTyped, Zenon DEF EditorNext
<1>2. CASE UNCHANGED editorVars
  BY <1>2 DEF editorVars, TypeOK
<1>. QED BY <1>1, <1>2

-----------------------------------------------------------------------------
(* Who holds an edit, and what runs beside a file operation. *)

\* What EditsAreHeld speaks of stays, but that a fresh stack has made no command.
HoldersSame ==
  /\ ui' = ui /\ session'.before = session.before
  /\ stack'.next \in {1, stack.next} \/ session.before = NoDoc

LEMMA HoldersSameKept ==
  ASSUME TypeOK, EditsAreHeld, HoldersSame
  PROVE  EditsAreHeld'
<1>1. stack.next \in 1 .. MaxPushes + 1
  BY WorldParts DEF TypeParts, StackTyped, Stack
<1>. QED BY <1>1, BoundsAssumption DEF EditsAreHeld, HoldersSame

\* With no edit open and neither a widget nor the gizmo held, there is nothing
\* to hold.
LEMMA NobodyHolds ==
  ASSUME session'.before = NoDoc, ui'.held = "nothing"
  PROVE  EditsAreHeld'
BY WidgetAssumption DEF EditsAreHeld

LEMMA CommandsHold ==
  ASSUME TypeOK, EditsAreHeld, EditEntity \/ RejectedEdit \/ Undo \/ Redo
  PROVE  EditsAreHeld'
<1>1. stack \in Stack
  BY WorldParts DEF TypeParts, StackTyped
<1>2. UNCHANGED <<session, ui>> /\ (session.before = NoDoc \/ stack'.next = stack.next)
  <2>1. CASE EditEntity
    BY <2>1 DEF EditEntity, Execute
  <2>2. CASE RejectedEdit
    BY <2>2 DEF RejectedEdit
  <2>3. CASE Undo
    BY <1>1, <2>3 DEF Undo, Stack
  <2>4. CASE Redo
    BY <1>1, <2>4 DEF Redo, Stack
  <2>. QED BY <2>1, <2>2, <2>3, <2>4
<1>. QED BY <1>2, HoldersSameKept DEF HoldersSame

LEMMA DragHolds ==
  ASSUME TypeOK, EditsAreHeld, InspectorDrag
  PROVE  EditsAreHeld'
<1>1. PICK w \in Widget : ui' = [ui EXCEPT !.held = w, !.editing = @ \cup {FlagOf(w)}]
  BY DragParts
<1>2. /\ ui'.held = w /\ ui'.editing = ui.editing \cup {FlagOf(w)} /\ ~ui'.manipulating
      /\ w # "gizmo" /\ w # "nothing"
  BY <1>1, DragParts, FlagsTyped
<1>3. CASE stack' = stack
  BY <1>2, <1>3, DragParts DEF EditsAreHeld
<1>4. CASE session'.before = NoDoc
  BY <1>2, <1>4 DEF EditsAreHeld
<1>. QED BY <1>3, <1>4, DragParts

LEMMA ContinuousHold ==
  ASSUME TypeOK, EditsAreHeld,
         \/ InspectorDrag \/ InspectorRelease \/ GroupedRelease \/ WidgetLost \/ SetInPlace
         \/ GizmoGrab \/ GizmoDrag \/ GizmoRelease \/ GizmoCancel
  PROVE  EditsAreHeld'
<1>1. TypeParts /\ world.doc # NoDoc
  BY WorldParts, NoneAssumption
<1>2. ui \in Ui /\ session \in Session
  BY <1>1 DEF TypeParts
<1>4. [session EXCEPT !.before = NoDoc].before = NoDoc
  BY <1>2 DEF Session
<1>5. CASE InspectorDrag
  BY <1>5, DragHolds
<1>6. CASE InspectorRelease \/ GizmoRelease \/ GizmoCancel
  <2>1. ui'.held = "nothing"
    BY <1>2, <1>6 DEF InspectorRelease, GizmoRelease, GizmoCancel, Ui
  <2>2. session'.before = NoDoc
    BY <1>4, <1>6, CommittedTyped, CancelledTyped DEF InspectorRelease, GizmoRelease,
       GizmoCancel
  <2>. QED BY <2>1, <2>2, NobodyHolds
<1>7. CASE WidgetLost \/ GroupedRelease
  <2>1. ui'.held = "nothing" /\ ui'.editing = ui.editing /\ ui.held \in Widget
        /\ UNCHANGED <<session, stack>>
    BY <1>2, <1>7 DEF WidgetLost, GroupedRelease, LastOfGroup, Ui
  <2>2. ui.held # "gizmo" /\ ui'.held \notin Widget /\ ui'.held # "gizmo"
    BY <2>1, WidgetAssumption
  <2>. QED BY <2>1, <2>2 DEF EditsAreHeld
<1>8. CASE GizmoGrab
  <2>1. ui'.held = "gizmo" /\ ui'.manipulating /\ ui'.held \notin Widget
    BY <1>2, <1>8, WidgetAssumption DEF GizmoGrab, Ui
  <2>2. session' = Begun /\ stack' = stack /\ stack.next <= MaxPushes
    BY <1>8 DEF GizmoGrab
  <2>. QED BY <2>1, <2>2, BegunTyped DEF EditsAreHeld
<1>9. CASE GizmoDrag
  <2>1. ui'.held = ui.held /\ ui'.manipulating = ui.manipulating /\ ui'.editing = ui.editing
        /\ UNCHANGED <<session, stack>>
    BY <1>2, <1>9 DEF GizmoDrag, Ui
  <2>. QED BY <2>1 DEF EditsAreHeld
<1>10. CASE SetInPlace
  BY <1>10, HoldersSameKept DEF SetInPlace, HoldersSame
<1>. QED BY <1>5, <1>6, <1>7, <1>8, <1>9, <1>10

LEMMA FilesHold ==
  ASSUME TypeOK, EditsAreHeld,
         \/ SaveBegins \/ SaveRechecks \/ SaveReplaces \/ SaveEnds \/ SaveAs
         \/ ReloadBegins \/ ReloadEnds \/ ForeignWrite
  PROVE  EditsAreHeld'
<1>1. session \in Session /\ stack \in Stack
  BY WorldParts DEF TypeParts, StackTyped
<1>2. CASE SaveAs
  <2>1. session'.before = NoDoc /\ ui' = ui /\ ui.held = "nothing"
    BY <1>1, <1>2 DEF SaveAs, UserFree
  <2>. QED BY <2>1, NobodyHolds
<1>3. CASE ~SaveAs
  <2>1. ui' = ui
    BY <1>3 DEF SaveBegins, SaveRechecks, SaveReplaces, SaveEnds, ReloadBegins, ReloadEnds,
       ForeignWrite
  <2>2. session'.before = session.before
    BY <1>1, <1>3 DEF SaveBegins, SaveRechecks, SaveReplaces, SaveEnds, ReloadBegins,
       ReloadEnds, ForeignWrite, Session
  <2>3. stack'.next \in {1, stack.next}
    BY <1>1, <1>3, EmptyStackTyped DEF SaveBegins, SaveRechecks, SaveReplaces, SaveEnds,
       ReloadBegins, ReloadEnds, ForeignWrite, Stack
  <2>. QED BY <2>1, <2>2, <2>3, HoldersSameKept DEF HoldersSame
<1>. QED BY <1>2, <1>3

LEMMA LoadsHold ==
  ASSUME TypeOK, EditsAreHeld,
         \/ RequestLoad \/ DiscardAndLoad \/ WorkerParses \/ WorkerStamps \/ Publish
         \/ CloseScene \/ BindingSettles
  PROVE  EditsAreHeld'
<1>1. session \in Session /\ ui \in Ui
  BY WorldParts DEF TypeParts
<1>2. CASE DiscardAndLoad \/ CloseScene
  <2>1. session'.before = NoDoc /\ ui' = ui /\ ui.held = "nothing"
    BY <1>1, <1>2 DEF DiscardAndLoad, CloseScene, UserFree, Session
  <2>. QED BY <2>1, NobodyHolds
<1>3. CASE Publish
  <2>1. CASE session.open /\ Dirty
    BY <1>3, <2>1, HoldersSameKept DEF Publish, HoldersSame
  <2>2. CASE ~(session.open /\ Dirty)
    <3>1. session'.before = NoDoc /\ ui'.held = "nothing"
      BY <1>1, <1>3, <2>2 DEF Publish, Ui
    <3>. QED BY <3>1, NobodyHolds
  <2>. QED BY <2>1, <2>2
<1>4. CASE RequestLoad \/ WorkerParses \/ WorkerStamps \/ BindingSettles
  BY <1>4, HoldersSameKept DEF RequestLoad, WorkerParses, WorkerStamps, BindingSettles,
     HoldersSame
<1>. QED BY <1>2, <1>3, <1>4

LEMMA StepHolds ==
  ASSUME TypeOK, EditsAreHeld, EditorNext PROVE EditsAreHeld'
BY CommandsHold, ContinuousHold, FilesHold, LoadsHold, Zenon DEF EditorNext

\* No step but those of the file operation itself changes the document or the
\* session's hold while one runs, and another program leaves it a version.
LEMMA CallsKept ==
  ASSUME TypeOK, CallsRunAlone, EditorNext PROVE CallsRunAlone'
<1>1. TypeParts
  BY WorldParts
<1>2. session \in Session /\ disk \in Disk /\ (call = Idle \/ call \in Call)
  BY <1>1 DEF TypeParts
<1>3. CASE call' = Idle
  BY <1>3 DEF CallsRunAlone
<1>4. CASE call' # Idle /\ call = Idle
  <2>1. CASE SaveBegins
    <3>1. call'.doc = world.doc /\ UNCHANGED <<world, session, ui, disk>>
      BY <2>1 DEF SaveBegins
    <3>. QED BY <2>1, <3>1 DEF SaveBegins, UserFree, CallsRunAlone
  <2>2. CASE ReloadBegins
    <3>1. call'.at = "parsed" /\ UNCHANGED <<world, session, ui, disk>>
      BY <2>2 DEF ReloadBegins
    <3>. QED BY <2>2, <3>1 DEF ReloadBegins, UserFree, CallsRunAlone
  <2>3. CASE ~SaveBegins /\ ~ReloadBegins
    BY <1>4, <2>3 DEF EditorNext, EditEntity, RejectedEdit, Undo, Redo, InspectorDrag,
       InspectorRelease, GroupedRelease, WidgetLost, SetInPlace,
       GizmoGrab, GizmoDrag, GizmoRelease, GizmoCancel,
       SaveRechecks, SaveReplaces, SaveEnds, SaveAs, ReloadEnds, ForeignWrite, RequestLoad,
       DiscardAndLoad, WorkerParses, WorkerStamps, Publish, CloseScene, BindingSettles, Execute
  <2>. QED BY <2>1, <2>2, <2>3
<1>5. CASE call' # Idle /\ call # Idle
  <2>1. \/ SaveRechecks \/ SaveReplaces \/ ForeignWrite \/ WorkerParses \/ WorkerStamps
    BY <1>5 DEF EditorNext, EditEntity, RejectedEdit, Undo, Redo, InspectorDrag,
       InspectorRelease, GroupedRelease, WidgetLost, SetInPlace,
       GizmoGrab, GizmoDrag, GizmoRelease, GizmoCancel,
       SaveBegins, SaveEnds, SaveAs, ReloadBegins, ReloadEnds, RequestLoad,
       DiscardAndLoad, Publish, CloseScene, BindingSettles, UserFree
  <2>2. CASE SaveRechecks
    <3>1. call'.doc = call.doc /\ call.at = "checked" /\ UNCHANGED <<world, session, ui, disk>>
      BY <1>2, <1>5, <2>2 DEF SaveRechecks, Call
    <3>. QED BY <1>5, <3>1 DEF CallsRunAlone
  <2>3. CASE SaveReplaces
    <3>1. call'.doc = call.doc /\ call.at = "rechecked" /\ call'.at = "replaced"
          /\ UNCHANGED <<world, session, ui>>
      BY <1>2, <1>5, <2>3 DEF SaveReplaces, Call
    <3>. QED BY <1>5, <3>1 DEF CallsRunAlone
  <2>4. CASE ForeignWrite
    <3>1. disk'.version = disk.version + 1 /\ disk.version + 1 < MaxVersions
          /\ UNCHANGED <<world, session, ui, call>>
      BY <1>2, <1>5, <2>4 DEF ForeignWrite, Disk
    <3>. QED BY <1>5, <3>1 DEF CallsRunAlone
  <2>5. CASE WorkerParses \/ WorkerStamps
    BY <1>5, <2>5 DEF WorkerParses, WorkerStamps, CallsRunAlone
  <2>. QED BY <2>1, <2>2, <2>3, <2>4, <2>5
<1>. QED BY <1>3, <1>4, <1>5

-----------------------------------------------------------------------------
(* What a step does to the history: it stays, a command is pushed on it, the *)
(* cursor moves over a command, it is marked saved, or it starts afresh.     *)

LEMMA CommandParts ==
  ASSUME StackTyped
  PROVE  /\ \A k \in 1 .. Len(stack.commands) :
              /\ stack.commands[k] \in Command
              /\ stack.commands[k].before \in Doc /\ stack.commands[k].after \in Doc
              /\ stack.commands[k].beforeId \in Nat /\ stack.commands[k].afterId \in Nat
         /\ Len(stack.commands) \in Nat /\ stack.cursor \in 0 .. Len(stack.commands)
         /\ stack.next \in Nat /\ stack.current \in Nat /\ stack.saved \in Nat
<1>1. stack \in Stack /\ stack.cursor <= Len(stack.commands)
  BY DEF StackTyped
<1>2. \A k \in 1 .. Len(stack.commands) : stack.commands[k] \in Command
  BY <1>1 DEF Stack
<1>3. \A k \in 1 .. Len(stack.commands) :
        /\ stack.commands[k].before \in Doc /\ stack.commands[k].after \in Doc
        /\ stack.commands[k].beforeId \in Nat /\ stack.commands[k].afterId \in Nat
  BY <1>2 DEF Command
<1>4. /\ Len(stack.commands) \in Nat /\ stack.cursor \in 0 .. Len(stack.commands)
      /\ stack.next \in Nat /\ stack.current \in Nat /\ stack.saved \in Nat
  BY <1>1, BoundsAssumption DEF Stack
<1>. QED BY <1>2, <1>3, <1>4

\* What a step does to the document the history speaks of, unless the history
\* has broken or breaks.
Unbroken(P) == ~ghost'.adrift => ~ghost.adrift /\ P

SavedStays == session'.saved = session.saved /\ ghost'.midway = ghost.midway

Keeps == stack' = stack /\ SavedStays /\ Unbroken(Settled' = Settled)

PushesOne ==
  /\ stack.next <= MaxPushes
  /\ \E b, a \in Doc : stack' = Pushed(b, a) /\ Unbroken(b = Settled /\ Settled' = a)
  /\ SavedStays

Undoes ==
  /\ CanUndo
  /\ stack' = [stack EXCEPT !.current = stack.commands[stack.cursor].beforeId,
                            !.cursor = stack.cursor - 1]
  /\ SavedStays
  /\ Unbroken(Settled' = stack.commands[stack.cursor].before)

Redoes ==
  /\ CanRedo
  /\ stack' = [stack EXCEPT !.current = stack.commands[stack.cursor + 1].afterId,
                            !.cursor = stack.cursor + 1]
  /\ SavedStays
  /\ Unbroken(Settled' = stack.commands[stack.cursor + 1].after)

MarksSaved ==
  /\ stack' = [stack EXCEPT !.saved = stack.current]
  /\ ~ghost'.midway => session'.saved = Settled
  /\ Unbroken(Settled' = Settled)

StartsAfresh ==
  /\ stack' = EmptyStack
  /\ ~ghost'.midway => Settled' = session'.saved

HistoryStep ==
  Keeps \/ PushesOne \/ Undoes \/ Redoes \/ MarksSaved \/ StartsAfresh

LEMMA CommandsShape ==
  ASSUME TypeOK, EditEntity \/ RejectedEdit \/ Undo \/ Redo
  PROVE  HistoryStep
<1>1. TypeParts /\ world.doc \in Doc
  BY WorldParts
<1>2. world \in World /\ StackTyped /\ stack \in Stack
  BY <1>1 DEF TypeParts, StackTyped
<1>3. CASE EditEntity
  <2>0. PICK e \in Entity : \E c \in Changed(e) : Execute([world.doc EXCEPT ![e] = c])
    BY <1>3 DEF EditEntity
  <2>1. PICK c \in Changed(e) : Execute([world.doc EXCEPT ![e] = c])
    BY <2>0
  <2>. DEFINE d == [world.doc EXCEPT ![e] = c]
  <2>3. d \in Doc
    BY ChangesTyped
  <2>. HIDE DEF d
  <2>4. Execute(d)
    BY <2>1 DEF d
  <2>5. world'.doc = d /\ session' = session /\ session.before = NoDoc /\ ghost' = ghost
        /\ stack' = Pushed(world.doc, d) /\ stack.next <= MaxPushes
    BY <1>1, <2>3, <2>4, ExecuteTyped DEF Execute, Recorded
  <2>. QED BY <1>1, <2>3, <2>5 DEF HistoryStep, PushesOne, SavedStays, Unbroken, Settled
<1>4. CASE RejectedEdit
  <2>1. world'.doc = world.doc /\ session' = session /\ stack' = stack /\ ghost' = ghost
    BY <1>1, <1>2, <1>4, ReplacedTyped DEF RejectedEdit
  <2>. QED BY <2>1 DEF HistoryStep, Keeps, SavedStays, Unbroken, Settled
<1>5. CASE Undo
  <2>1. stack.cursor \in 1 .. Len(stack.commands)
    BY <1>2, <1>5 DEF Undo, CanUndo, StackTyped, Stack
  <2>2. stack.commands[stack.cursor].before \in Doc
    BY <1>2, <2>1, CommandParts
  <2>3. world'.doc = stack.commands[stack.cursor].before /\ session' = session
    BY <1>2, <1>5, <2>2, ReplacedTyped DEF Undo
  <2>4. ghost'.midway = ghost.midway
        /\ (~ghost'.adrift => ~ghost.adrift /\ session.before = NoDoc)
    BY <1>5, AsideTyped DEF Undo
  <2>5. stack' = [stack EXCEPT !.current = stack.commands[stack.cursor].beforeId,
                               !.cursor = stack.cursor - 1]
    BY <1>5 DEF Undo
  <2>. QED BY <1>5, <2>3, <2>4, <2>5 DEF HistoryStep, Undoes, Undo, SavedStays, Unbroken, Settled
<1>6. CASE Redo
  <2>1. stack.cursor + 1 \in 1 .. Len(stack.commands)
    BY <1>2, <1>6 DEF Redo, CanRedo, StackTyped, Stack
  <2>2. stack.commands[stack.cursor + 1].after \in Doc
    BY <1>2, <2>1, CommandParts
  <2>3. world'.doc = stack.commands[stack.cursor + 1].after /\ session' = session
    BY <1>2, <1>6, <2>2, ReplacedTyped DEF Redo
  <2>4. ghost'.midway = ghost.midway
        /\ (~ghost'.adrift => ~ghost.adrift /\ session.before = NoDoc)
    BY <1>6, AsideTyped DEF Redo
  <2>5. stack' = [stack EXCEPT !.current = stack.commands[stack.cursor + 1].afterId,
                               !.cursor = stack.cursor + 1]
    BY <1>6 DEF Redo
  <2>. QED BY <1>6, <2>3, <2>4, <2>5 DEF HistoryStep, Redoes, Redo, SavedStays, Unbroken, Settled
<1>. QED BY <1>3, <1>4, <1>5, <1>6

\* A drag that opens an edit, or goes on in one, leaves the document it began
\* with; one behind the history's back breaks it.
LEMMA DragShape ==
  ASSUME TypeOK, InspectorDrag
  PROVE  HistoryStep
<1>1. world.doc \in Doc /\ ghost \in Ghost
  BY WorldParts DEF TypeParts
<1>2. /\ session'.saved = session.saved /\ stack.next <= MaxPushes
      /\ session'.before # NoDoc => Settled' = Settled
  <2>1. session' = session \/ session' = Begun
    BY DragParts
  <2>2. stack.next <= MaxPushes
    BY DragParts
  <2>. QED BY <2>1, <2>2, BegunTyped DEF Settled
<1>3. PICK e \in Entity :
        /\ Movable(e)
        /\ \/ /\ world' = [world EXCEPT !.doc = MovedAt(e)] /\ stack' = stack
              /\ ghost' = [ghost EXCEPT !.adrift = @ \/ session'.before = NoDoc]
           \/ /\ session'.before = NoDoc /\ session' = session
              /\ Recorded(world.doc, MovedAt(e)) /\ ghost' = ghost
  BY DragParts
<1>4. CASE /\ stack' = stack
           /\ ghost' = [ghost EXCEPT !.adrift = @ \/ session'.before = NoDoc]
  <2>1. ghost'.midway = ghost.midway
    BY <1>1, <1>4 DEF Ghost
  <2>2. ghost'.adrift = (ghost.adrift \/ session'.before = NoDoc)
    BY <1>1, <1>4 DEF Ghost
  <2>. QED BY <1>2, <1>4, <2>1, <2>2 DEF HistoryStep, Keeps, SavedStays, Unbroken
<1>5. CASE /\ session'.before = NoDoc /\ session' = session
           /\ Recorded(world.doc, MovedAt(e)) /\ ghost' = ghost
  <2>1. MovedAt(e) \in Doc
    BY <1>3, MovedTyped, WorldParts DEF TypeParts
  <2>2. world'.doc = MovedAt(e) /\ stack' = Pushed(world.doc, MovedAt(e))
    BY <1>1, <1>2, <1>5, <2>1, RecordedTyped
  <2>. QED BY <1>1, <1>2, <1>5, <2>1, <2>2 DEF HistoryStep, PushesOne, SavedStays, Unbroken,
       Settled
<1>. QED BY <1>3, <1>4, <1>5

LEMMA ContinuousShape ==
  ASSUME TypeOK, EditsAreHeld,
         \/ InspectorDrag \/ InspectorRelease \/ GroupedRelease \/ WidgetLost \/ SetInPlace
         \/ GizmoGrab \/ GizmoDrag \/ GizmoRelease \/ GizmoCancel
  PROVE  HistoryStep
<1>1. world.doc \in Doc /\ session \in Session
  BY WorldParts DEF TypeParts
<1>2. ASSUME Cancelled, stack' = stack, ghost' = ghost PROVE HistoryStep
  <2>1. world'.doc = Settled /\ session'.before = NoDoc /\ session'.saved = session.saved
    BY <1>1, <1>2, CancelledTyped DEF Session
  <2>2. Settled' = Settled
    BY <2>1 DEF Settled
  <2>. QED BY <1>2, <2>1, <2>2 DEF HistoryStep, Keeps, SavedStays, Unbroken
<1>3. ASSUME Committed, ghost' = ghost PROVE HistoryStep
  <2>1. session'.before = NoDoc /\ session'.saved = session.saved
    BY <1>1, <1>3, CommittedTyped DEF Session
  <2>2. CASE /\ session.before \in Doc /\ stack.next <= MaxPushes
             /\ stack' = Pushed(session.before, world.doc) /\ world'.doc = world.doc
    <3>1. session.before # NoDoc
      BY <2>2, NoneAssumption
    <3>. QED BY <1>1, <1>3, <2>1, <2>2, <3>1 DEF HistoryStep, PushesOne, SavedStays, Unbroken,
         Settled
  <2>3. CASE Cancelled /\ stack' = stack
    BY <1>2, <1>3, <2>3
  <2>. QED BY <1>3, <2>2, <2>3, CommittedTyped
<1>6. CASE InspectorDrag
  BY <1>6, DragShape
<1>7. CASE InspectorRelease
  BY <1>3, <1>7 DEF InspectorRelease
<1>8. CASE WidgetLost \/ GroupedRelease
  BY <1>8 DEF WidgetLost, GroupedRelease, HistoryStep, Keeps, SavedStays, Unbroken, Settled
<1>9. CASE GizmoGrab
  <2>1. session' = Begun /\ UNCHANGED <<stack, ghost>>
    BY <1>9 DEF GizmoGrab
  <2>2. session'.saved = session.saved /\ Settled' = Settled
    BY <2>1, BegunTyped DEF Settled
  <2>. QED BY <2>1, <2>2 DEF HistoryStep, Keeps, SavedStays, Unbroken
<1>10. CASE GizmoDrag
  <2>1. UNCHANGED <<session, stack, ghost>> /\ session.before # NoDoc
    BY <1>10 DEF GizmoDrag, EditsAreHeld
  <2>. QED BY <2>1 DEF HistoryStep, Keeps, SavedStays, Unbroken, Settled
<1>11. CASE GizmoRelease
  BY <1>2, <1>3, <1>11 DEF GizmoRelease
<1>12. CASE GizmoCancel
  BY <1>2, <1>12 DEF GizmoCancel
<1>13. CASE SetInPlace
  <2>1. UNCHANGED <<session, stack, ghost>> /\ session.before # NoDoc
    BY <1>13 DEF SetInPlace
  <2>. QED BY <2>1 DEF HistoryStep, Keeps, SavedStays, Unbroken, Settled
<1>. QED BY <1>6, <1>7, <1>8, <1>9, <1>10, <1>11, <1>12, <1>13

LEMMA FilesShape ==
  ASSUME TypeOK, CallsRunAlone,
         \/ SaveBegins \/ SaveRechecks \/ SaveReplaces \/ SaveEnds \/ SaveAs
         \/ ReloadBegins \/ ReloadEnds \/ ForeignWrite
  PROVE  HistoryStep
<1>1. world \in World /\ session \in Session /\ (call = Idle \/ call \in Call) /\ ghost \in Ghost
  BY WorldParts DEF TypeParts
<1>2. CASE SaveBegins \/ SaveRechecks \/ SaveReplaces \/ ReloadBegins \/ ForeignWrite
  <2>1. UNCHANGED <<world, session, stack>>
    BY <1>2 DEF SaveBegins, SaveRechecks, SaveReplaces, ReloadBegins, ForeignWrite
  <2>2. ghost'.adrift = ghost.adrift /\ ghost'.midway = ghost.midway
    BY <1>1, <1>2 DEF SaveBegins, SaveRechecks, SaveReplaces, ReloadBegins, ForeignWrite, Ghost
  <2>. QED BY <2>1, <2>2 DEF HistoryStep, Keeps, SavedStays, Unbroken, Settled
<1>3. CASE SaveEnds
  <2>1. session'.before = session.before /\ session'.saved = call.doc /\ world' = world
        /\ stack' = [stack EXCEPT !.saved = stack.current]
    BY <1>1, <1>3 DEF SaveEnds, Session
  <2>2. ghost'.adrift = ghost.adrift /\ (~ghost'.midway => session.before = NoDoc)
    <3>1. ghost' = [ghost EXCEPT !.midway = (session.before # NoDoc)]
      BY <1>3 DEF SaveEnds
    <3>2. ghost'.midway = (session.before # NoDoc)
      BY <1>1, <3>1 DEF Ghost
    <3>. QED BY <1>1, <3>1, <3>2 DEF Ghost
  <2>3. call.doc = world.doc
    BY <1>3 DEF SaveEnds, CallsRunAlone
  <2>. QED BY <2>1, <2>2, <2>3 DEF HistoryStep, MarksSaved, Unbroken, Settled
<1>4. CASE SaveAs
  <2>1. session'.before = NoDoc /\ session'.saved = world.doc /\ world'.doc = world.doc
        /\ stack' = EmptyStack
    BY <1>1, <1>4 DEF SaveAs, World
  <2>. QED BY <2>1 DEF HistoryStep, StartsAfresh, Settled
<1>5. CASE ReloadEnds
  <2>1. call.doc \in Doc
    BY <1>1, <1>5 DEF ReloadEnds, Call
  <2>2. world'.doc = call.doc
    BY <1>1, <1>5, <2>1, ReplacedTyped DEF ReloadEnds
  <2>3. session'.before = session.before /\ session'.saved = call.doc /\ stack' = EmptyStack
    BY <1>1, <1>5 DEF ReloadEnds, Session
  <2>4. ~ghost'.midway => session.before = NoDoc
    <3>1. ghost'.midway = (session.before # NoDoc)
      BY <1>1, <1>5 DEF ReloadEnds, Ghost
    <3>. QED BY <3>1
  <2>. QED BY <2>2, <2>3, <2>4 DEF HistoryStep, StartsAfresh, Settled
<1>. QED BY <1>2, <1>3, <1>4, <1>5

LEMMA LoadsShape ==
  ASSUME TypeOK,
         \/ RequestLoad \/ DiscardAndLoad \/ WorkerParses \/ WorkerStamps \/ Publish
         \/ CloseScene \/ BindingSettles
  PROVE  HistoryStep
<1>1. world \in World /\ session \in Session
  BY WorldParts DEF TypeParts
<1>2. CASE RequestLoad \/ WorkerParses \/ WorkerStamps
  BY <1>2 DEF RequestLoad, WorkerParses, WorkerStamps, HistoryStep, Keeps, SavedStays,
     Unbroken, Settled
<1>3. CASE DiscardAndLoad
  <2>1. session.saved \in Doc
    BY <1>1 DEF Session
  <2>2. world'.doc = session.saved
    BY <1>1, <1>3, <2>1, ReplacedTyped DEF DiscardAndLoad
  <2>3. session'.before = NoDoc /\ session'.saved = session.saved /\ stack' = EmptyStack
    BY <1>1, <1>3 DEF DiscardAndLoad, Session
  <2>. QED BY <2>2, <2>3 DEF HistoryStep, StartsAfresh, Settled
<1>4. CASE Publish
  <2>1. CASE session.open /\ Dirty
    BY <1>4, <2>1 DEF Publish, HistoryStep, Keeps, SavedStays, Unbroken, Settled
  <2>2. CASE ~(session.open /\ Dirty)
    BY <1>4, <2>2 DEF Publish, HistoryStep, StartsAfresh, Settled
  <2>. QED BY <2>1, <2>2
<1>5. CASE CloseScene
  BY <1>5 DEF CloseScene, HistoryStep, StartsAfresh, Settled
<1>6. CASE BindingSettles
  <2>1. world'.doc = world.doc
    BY <1>1, <1>6 DEF BindingSettles, World
  <2>. QED BY <1>6, <2>1 DEF BindingSettles, HistoryStep, Keeps, SavedStays, Unbroken, Settled
<1>. QED BY <1>2, <1>3, <1>4, <1>5, <1>6

LEMMA StepShape ==
  ASSUME TypeOK, EditsAreHeld, CallsRunAlone, EditorNext PROVE HistoryStep
BY CommandsShape, ContinuousShape, FilesShape, LoadsShape, Zenon DEF EditorNext

-----------------------------------------------------------------------------
(* The ids along the history. *)

\* The current id separates the ids below the cursor from those above it.
LEMMA IdsAroundCursor ==
  ASSUME StackTyped, IdsOrdered, NEW k \in 1 .. Len(stack.commands)
  PROVE  /\ k < stack.cursor => stack.commands[k].afterId < stack.current
         /\ k = stack.cursor => stack.commands[k].afterId = stack.current
         /\ k <= stack.cursor => stack.commands[k].beforeId < stack.current
         /\ k = stack.cursor + 1 => stack.commands[k].beforeId = stack.current
         /\ k > stack.cursor + 1 => stack.commands[k].beforeId > stack.current
         /\ k > stack.cursor => stack.commands[k].afterId > stack.current
<1>. DEFINE c == stack.cursor
            n == Len(stack.commands)
            low(i) == stack.commands[i].beforeId
            high(i) == stack.commands[i].afterId
            current == stack.current
<1>1. n \in Nat /\ c \in 0 .. n /\ current \in Nat
      /\ \A i \in 1 .. n : low(i) \in Nat /\ high(i) \in Nat
  BY CommandParts
<1>2. /\ \A i \in 1 .. n : low(i) < high(i)
      /\ \A i, j \in 1 .. n : i < j => high(i) <= low(j)
      /\ c > 0 => current = high(c)
      /\ c < n => current = low(c + 1)
  BY DEF IdsOrdered, CanUndo, CanRedo
<1>. HIDE DEF c, n, low, high, current
<1>3. /\ k < c => high(k) < current
      /\ k = c => high(k) = current
      /\ k <= c => low(k) < current
      /\ k = c + 1 => low(k) = current
      /\ k > c + 1 => low(k) > current
      /\ k > c => high(k) > current
  <2>0. k \in 1 .. n
    BY DEF n
  <2>1. CASE k < c
    <3>1. c \in 1 .. n /\ c > 0
      BY <1>1, <2>0, <2>1
    <3>. QED BY <1>1, <1>2, <2>0, <2>1, <3>1
  <2>2. CASE k = c
    BY <1>1, <1>2, <2>0, <2>2
  <2>3. CASE k = c + 1
    BY <1>1, <1>2, <2>0, <2>3
  <2>4. CASE k > c + 1
    <3>1. c + 1 \in 1 .. n /\ c < n
      BY <1>1, <2>0, <2>4
    <3>. QED BY <1>1, <1>2, <2>0, <2>4, <3>1
  <2>. QED BY <1>1, <2>0, <2>1, <2>2, <2>3, <2>4
<1>. QED BY <1>3 DEF c, n, low, high, current

LEMMA IdsKept ==
  ASSUME StackTyped, IdsOrdered, HistoryStep
  PROVE  IdsOrdered'
<1>. DEFINE n == Len(stack.commands)
<1>0. n \in Nat /\ stack.cursor \in 0 .. n /\ stack.next \in Nat
      /\ stack.current \in Nat /\ stack.saved \in Nat
      /\ \A i \in 1 .. n : /\ stack.commands[i].beforeId \in Nat
                           /\ stack.commands[i].afterId \in Nat
  BY CommandParts
<1>1. CASE Keeps
  BY <1>1 DEF Keeps, IdsOrdered, CanUndo, CanRedo
<1>2. CASE PushesOne
  <2>1. PICK b \in Doc, a \in Doc : stack' = Pushed(b, a)
    BY <1>2 DEF PushesOne
  <2>. DEFINE top == stack'.cursor
  <2>2. /\ Extra \in Nat /\ Extra <= stack.cursor /\ top = stack.cursor + 1 - Extra
        /\ Len(stack'.commands) = top
        /\ \A k \in 1 .. top - 1 : /\ k + Extra \in 1 .. stack.cursor
                                   /\ stack'.commands[k] = stack.commands[k + Extra]
        /\ stack'.commands[top] = NewCommand(b, a)
        /\ stack'.next = stack.next + 1 /\ stack'.current = stack.next
        /\ stack'.saved = stack.saved
    BY <1>2, <2>1, PushShape DEF PushesOne
  <2>3. stack'.commands[top].beforeId = stack.current
        /\ stack'.commands[top].afterId = stack.next
    BY <2>2 DEF NewCommand
  <2>. HIDE DEF top
  <2>4. top \in Nat /\ top >= 1
    BY <1>0, <2>2
  <2>5. stack.current < stack.next /\ stack.saved < stack.next
    BY DEF IdsOrdered
  <2>6. ASSUME NEW k \in 1 .. top - 1
        PROVE  /\ stack'.commands[k].beforeId \in Nat /\ stack'.commands[k].afterId \in Nat
               /\ stack'.commands[k].beforeId < stack'.commands[k].afterId
               /\ stack'.commands[k].afterId < stack.next
               /\ stack'.commands[k].afterId <= stack.current
               /\ k = top - 1 => stack'.commands[k].afterId = stack.current
    <3>1. k + Extra \in 1 .. stack.cursor /\ k + Extra \in 1 .. n
          /\ stack'.commands[k] = stack.commands[k + Extra]
      BY <1>0, <2>2, SMTT(30)
    <3>2. k = top - 1 => k + Extra = stack.cursor
      BY <1>0, <2>2, SMTT(30)
    <3>3. /\ k + Extra < stack.cursor => stack.commands[k + Extra].afterId < stack.current
          /\ k + Extra = stack.cursor => stack.commands[k + Extra].afterId = stack.current
      BY <3>1, IdsAroundCursor
    <3>4. stack.commands[k + Extra].beforeId < stack.commands[k + Extra].afterId
          /\ stack.commands[k + Extra].afterId < stack.next
      BY <3>1 DEF IdsOrdered
    <3>. QED BY <1>0, <3>1, <3>2, <3>3, <3>4
  <2>7. ASSUME NEW k \in 1 .. top
        PROVE  /\ stack'.commands[k].beforeId < stack'.commands[k].afterId
               /\ stack'.commands[k].afterId < stack'.next
    <3>1. CASE k = top
      BY <1>0, <2>2, <2>3, <2>5, <3>1
    <3>2. CASE k # top
      <4>1. k \in 1 .. top - 1
        BY <2>4, <3>2
      <4>2. stack'.commands[k].afterId \in Nat /\ stack'.commands[k].afterId < stack.next
            /\ stack'.commands[k].beforeId < stack'.commands[k].afterId
        BY <2>6, <4>1
      <4>3. stack'.next = stack.next + 1
        BY <2>2
      <4>. QED BY <1>0, <4>2, <4>3
    <3>. QED BY <3>1, <3>2
  <2>8. ASSUME NEW k \in 1 .. top - 1
        PROVE  stack'.commands[k].afterId = stack'.commands[k + 1].beforeId
    <3>1. CASE k = top - 1
      BY <2>3, <2>4, <2>6, <3>1
    <3>2. CASE k # top - 1
      <4>1. k + 1 \in 1 .. top - 1 /\ k + 1 + Extra = (k + Extra) + 1
        BY <2>2, <2>4, <3>2
      <4>2. stack'.commands[k] = stack.commands[k + Extra]
            /\ stack'.commands[k + 1] = stack.commands[(k + Extra) + 1]
            /\ k + Extra \in 1 .. stack.cursor /\ (k + Extra) + 1 \in 1 .. stack.cursor
        <5>1. /\ stack'.commands[k + 1] = stack.commands[k + 1 + Extra]
              /\ k + 1 + Extra \in 1 .. stack.cursor
          BY <2>2, <4>1
        <5>2. stack'.commands[k] = stack.commands[k + Extra] /\ k + Extra \in 1 .. stack.cursor
          BY <2>2
        <5>. QED BY <4>1, <5>1, <5>2
      <4>3. k + Extra \in 1 .. n - 1
        BY <1>0, <4>2
      <4>. QED BY <4>2, <4>3 DEF IdsOrdered
    <3>. QED BY <3>1, <3>2
  <2>9. ASSUME NEW j \in 1 .. top, NEW k \in 1 .. top, j < k
        PROVE  stack'.commands[j].afterId <= stack'.commands[k].beforeId
    <3>0. j \in 1 .. top - 1
      BY <2>4, <2>9
    <3>1. CASE k = top
      BY <2>3, <2>6, <3>0, <3>1
    <3>2. CASE k # top
      <4>1. k \in 1 .. top - 1
        BY <2>4, <3>2
      <4>2. /\ stack'.commands[j] = stack.commands[j + Extra]
            /\ stack'.commands[k] = stack.commands[k + Extra]
            /\ j + Extra \in 1 .. n /\ k + Extra \in 1 .. n /\ j + Extra < k + Extra
        <5>1. stack'.commands[j] = stack.commands[j + Extra] /\ j + Extra \in 1 .. stack.cursor
          BY <2>2, <3>0
        <5>2. stack'.commands[k] = stack.commands[k + Extra] /\ k + Extra \in 1 .. stack.cursor
          BY <2>2, <4>1
        <5>3. Extra \in Nat /\ j + Extra < k + Extra
          BY <2>2, <2>4, <2>9
        <5>. QED BY <1>0, <5>1, <5>2, <5>3
      <4>. QED BY <4>2 DEF IdsOrdered
    <3>. QED BY <3>1, <3>2
  <2>10. stack'.current = stack'.commands[top].afterId /\ stack'.current < stack'.next
         /\ stack'.saved < stack'.next
    BY <1>0, <2>2, <2>3, <2>5
  <2>. QED BY <2>2, <2>4, <2>7, <2>8, <2>9, <2>10 DEF IdsOrdered, CanUndo, CanRedo, top
<1>3. CASE Undoes
  <2>1. stack.cursor \in 1 .. n
    BY <1>0, <1>3 DEF Undoes, CanUndo
  <2>2. stack.cursor - 1 \in 0 .. n /\ stack.commands[stack.cursor].beforeId \in Nat
    BY <1>0, <2>1
  <2>3. /\ stack'.cursor = stack.cursor - 1
        /\ stack'.current = stack.commands[stack.cursor].beforeId
        /\ stack'.commands = stack.commands /\ stack'.next = stack.next
        /\ stack'.saved = stack.saved
    BY <1>3, <2>2, CursorMoves DEF Undoes
  <2>4. stack'.current < stack'.next
    <3>1. stack'.current < stack.current /\ stack.current < stack.next
      BY <1>0, <2>1, <2>3, IdsAroundCursor DEF IdsOrdered
    <3>. QED BY <1>0, <2>2, <2>3, <3>1
  <2>5. CanUndo' => stack'.current = stack'.commands[stack'.cursor].afterId
    <3>1. SUFFICES ASSUME stack.cursor - 1 > 0
                   PROVE  stack.commands[stack.cursor].beforeId
                            = stack.commands[stack.cursor - 1].afterId
      BY <2>3 DEF CanUndo
    <3>2. stack.cursor - 1 \in 1 .. n - 1 /\ (stack.cursor - 1) + 1 = stack.cursor
      BY <1>0, <2>1, <3>1
    <3>. QED BY <3>2 DEF IdsOrdered
  <2>6. CanRedo' => stack'.current = stack'.commands[stack'.cursor + 1].beforeId
    <3>1. stack'.cursor + 1 = stack.cursor
      BY <2>1, <2>3
    <3>. QED BY <2>3, <3>1
  <2>. QED BY <2>3, <2>4, <2>5, <2>6 DEF IdsOrdered
<1>4. CASE Redoes
  <2>1. stack.cursor + 1 \in 1 .. n
    BY <1>0, <1>4 DEF Redoes, CanRedo
  <2>2. stack.cursor + 1 \in 0 .. n /\ stack.commands[stack.cursor + 1].afterId \in Nat
    BY <1>0, <2>1
  <2>3. /\ stack'.cursor = stack.cursor + 1
        /\ stack'.current = stack.commands[stack.cursor + 1].afterId
        /\ stack'.commands = stack.commands /\ stack'.next = stack.next
        /\ stack'.saved = stack.saved
    BY <1>4, <2>2, CursorMoves DEF Redoes
  <2>4. stack'.current < stack'.next
    BY <2>1, <2>3 DEF IdsOrdered
  <2>5. CanRedo' => stack'.current = stack'.commands[stack'.cursor + 1].beforeId
    <3>1. SUFFICES ASSUME stack.cursor + 1 < n
                   PROVE  stack.commands[stack.cursor + 1].afterId
                            = stack.commands[(stack.cursor + 1) + 1].beforeId
      BY <2>3 DEF CanRedo
    <3>2. stack.cursor + 1 \in 1 .. n - 1
      BY <1>0, <2>1, <3>1
    <3>. QED BY <3>2 DEF IdsOrdered
  <2>6. CanUndo' => stack'.current = stack'.commands[stack'.cursor].afterId
    BY <2>3
  <2>. QED BY <2>3, <2>4, <2>5, <2>6 DEF IdsOrdered
<1>5. CASE MarksSaved
  <2>1. /\ stack'.commands = stack.commands /\ stack'.cursor = stack.cursor
        /\ stack'.next = stack.next /\ stack'.current = stack.current
        /\ stack'.saved = stack.current
    BY <1>5 DEF MarksSaved, StackTyped, Stack
  <2>. QED BY <2>1 DEF IdsOrdered, CanUndo, CanRedo
<1>6. CASE StartsAfresh
  <2>1. stack'.cursor = 0 /\ Len(stack'.commands) = 0 /\ stack'.next = 1
        /\ stack'.current = 0 /\ stack'.saved = 0
    BY <1>6, EmptyStackTyped DEF StartsAfresh
  <2>. QED BY <2>1 DEF IdsOrdered, CanUndo, CanRedo
<1>. QED BY <1>1, <1>2, <1>3, <1>4, <1>5, <1>6 DEF HistoryStep

-----------------------------------------------------------------------------
(* The documents along the history. *)

\* The two halves of DocumentsNamed.
Chained ==
  /\ \A k \in 1 .. Len(stack.commands) - 1 :
      stack.commands[k].after = stack.commands[k + 1].before
  /\ CanUndo => Settled = stack.commands[stack.cursor].after
  /\ CanRedo => Settled = stack.commands[stack.cursor + 1].before

SavedNamed ==
  /\ ~Dirty => Settled = session.saved
  /\ \A k \in 1 .. Len(stack.commands) :
      /\ stack.commands[k].afterId = stack.saved => stack.commands[k].after = session.saved
      /\ stack.commands[k].beforeId = stack.saved => stack.commands[k].before = session.saved

LEMMA NamedHalves ==
  /\ DocumentsNamed <=> (~ghost.adrift => Chained /\ (~ghost.midway => SavedNamed))
  /\ DocumentsNamed' <=> (~ghost'.adrift => Chained' /\ (~ghost'.midway => SavedNamed'))
BY DEF DocumentsNamed, Chained, SavedNamed

LEMMA DocumentsKept ==
  ASSUME StackTyped, IdsOrdered, DocumentsNamed, HistoryStep
  PROVE  DocumentsNamed'
<1>. SUFFICES ASSUME ~ghost'.adrift PROVE Chained' /\ (~ghost'.midway => SavedNamed')
  BY NamedHalves
<1>. DEFINE n == Len(stack.commands)
<1>0. n \in Nat /\ stack.cursor \in 0 .. n /\ stack.next \in Nat
      /\ stack.current \in Nat /\ stack.saved \in Nat
      /\ \A i \in 1 .. n : /\ stack.commands[i].beforeId \in Nat
                           /\ stack.commands[i].afterId \in Nat
  BY CommandParts
<1>1. ~ghost.adrift => Chained /\ (~ghost.midway => SavedNamed)
  BY NamedHalves
<1>2. CASE Keeps
  BY <1>1, <1>2 DEF Keeps, SavedStays, Unbroken, Chained, SavedNamed, CanUndo, CanRedo, Dirty
<1>3. CASE PushesOne
  <2>0. SavedStays /\ ~ghost.adrift /\ Chained /\ (~ghost'.midway => SavedNamed)
    BY <1>1, <1>3 DEF PushesOne, SavedStays, Unbroken
  <2>1. PICK b \in Doc, a \in Doc : /\ stack' = Pushed(b, a)
                                    /\ b = Settled /\ Settled' = a
    BY <1>3 DEF PushesOne, Unbroken
  <2>. DEFINE top == stack'.cursor
  <2>2. /\ Extra \in Nat /\ Extra <= stack.cursor /\ top = stack.cursor + 1 - Extra
        /\ Len(stack'.commands) = top
        /\ \A k \in 1 .. top - 1 : /\ k + Extra \in 1 .. stack.cursor
                                   /\ stack'.commands[k] = stack.commands[k + Extra]
        /\ stack'.commands[top] = NewCommand(b, a)
        /\ stack'.next = stack.next + 1 /\ stack'.current = stack.next
        /\ stack'.saved = stack.saved
    BY <1>3, <2>1, PushShape DEF PushesOne
  <2>3. stack'.commands[top].beforeId = stack.current
        /\ stack'.commands[top].afterId = stack.next
        /\ stack'.commands[top].before = b /\ stack'.commands[top].after = a
    BY <2>2 DEF NewCommand
  <2>. HIDE DEF top
  <2>4. top \in Nat /\ top >= 1 /\ stack.saved < stack.next
    BY <1>0, <2>2, SMTT(30) DEF IdsOrdered
  <2>5. ASSUME NEW k \in 1 .. top - 1
        PROVE  stack'.commands[k].after = stack'.commands[k + 1].before
    <3>0. stack'.commands[k] = stack.commands[k + Extra] /\ k + Extra \in 1 .. stack.cursor
      BY <2>2
    <3>1. CASE k = top - 1
      <4>1. k + Extra = stack.cursor /\ stack.cursor > 0 /\ k + 1 = top
        <5>1. Extra \in Nat /\ top = stack.cursor + 1 - Extra
          BY <2>2
        <5>2. stack.cursor \in Nat
          BY <1>0
        <5>. QED BY <2>4, <3>0, <3>1, <5>1, <5>2
      <4>. QED BY <2>0, <2>1, <2>3, <3>0, <4>1 DEF Chained, CanUndo
    <3>2. CASE k # top - 1
      <4>1. k + 1 \in 1 .. top - 1 /\ k + 1 + Extra = (k + Extra) + 1
        BY <2>2, <2>4, <3>2
      <4>2. /\ stack'.commands[k + 1] = stack.commands[k + 1 + Extra]
            /\ k + 1 + Extra \in 1 .. stack.cursor
        BY <2>2, <4>1
      <4>3. k + Extra \in 1 .. n - 1
        BY <1>0, <3>0, <4>1, <4>2
      <4>. QED BY <2>0, <3>0, <4>1, <4>2, <4>3 DEF Chained
    <3>. QED BY <3>1, <3>2
  <2>6. ASSUME NEW k \in 1 .. top, ~ghost'.midway
        PROVE  /\ stack'.commands[k].afterId = stack'.saved
                    => stack'.commands[k].after = session'.saved
               /\ stack'.commands[k].beforeId = stack'.saved
                    => stack'.commands[k].before = session'.saved
    <3>1. CASE k = top
      BY <1>0, <2>0, <2>1, <2>2, <2>3, <2>4, <2>6, <3>1 DEF SavedStays, SavedNamed, Dirty
    <3>2. CASE k # top
      <4>1. k \in 1 .. top - 1
        BY <2>4, <3>2
      <4>2. stack'.commands[k] = stack.commands[k + Extra] /\ k + Extra \in 1 .. n
        BY <1>0, <2>2, <4>1, SMTT(30)
      <4>. QED BY <2>0, <2>2, <2>6, <4>2 DEF SavedStays, SavedNamed
    <3>. QED BY <3>1, <3>2
  <2>7. Settled' = stack'.commands[top].after /\ Dirty'
    BY <1>0, <2>1, <2>2, <2>3, <2>4 DEF Dirty
  <2>8. ~CanRedo'
    BY <2>2, <2>4 DEF CanRedo, top
  <2>. QED BY <2>2, <2>5, <2>6, <2>7, <2>8 DEF Chained, SavedNamed, top
<1>4. CASE Undoes
  <2>1. stack.cursor \in 1 .. n
    BY <1>0, <1>4 DEF Undoes, CanUndo
  <2>2. stack.cursor - 1 \in 0 .. n /\ stack.commands[stack.cursor].beforeId \in Nat
    BY <1>0, <2>1
  <2>3. /\ stack'.cursor = stack.cursor - 1
        /\ stack'.current = stack.commands[stack.cursor].beforeId
        /\ stack'.commands = stack.commands /\ stack'.saved = stack.saved
    BY <1>4, <2>2, CursorMoves DEF Undoes
  <2>4. /\ Settled' = stack.commands[stack.cursor].before /\ session'.saved = session.saved
        /\ Chained /\ (~ghost'.midway => SavedNamed)
    BY <1>1, <1>4 DEF Undoes, SavedStays, Unbroken
  <2>5. CanUndo' => Settled' = stack'.commands[stack'.cursor].after
    <3>1. SUFFICES ASSUME stack.cursor - 1 > 0
                   PROVE  stack.commands[stack.cursor].before
                            = stack.commands[stack.cursor - 1].after
      BY <2>3, <2>4 DEF CanUndo
    <3>2. stack.cursor - 1 \in 1 .. n - 1 /\ (stack.cursor - 1) + 1 = stack.cursor
      BY <1>0, <2>1, <3>1
    <3>. QED BY <2>4, <3>2 DEF Chained
  <2>6. Settled' = stack'.commands[stack'.cursor + 1].before
    <3>1. stack'.cursor + 1 = stack.cursor
      BY <2>1, <2>3
    <3>. QED BY <2>3, <2>4, <3>1
  <2>7. ~ghost'.midway /\ ~Dirty' => Settled' = session'.saved
    BY <2>1, <2>3, <2>4 DEF Dirty, SavedNamed
  <2>8. \A k \in 1 .. n - 1 : stack.commands[k].after = stack.commands[k + 1].before
    BY <2>4 DEF Chained
  <2>. QED BY <2>3, <2>4, <2>5, <2>6, <2>7, <2>8 DEF Chained, SavedNamed
<1>5. CASE Redoes
  <2>1. stack.cursor + 1 \in 1 .. n
    BY <1>0, <1>5 DEF Redoes, CanRedo
  <2>2. stack.cursor + 1 \in 0 .. n /\ stack.commands[stack.cursor + 1].afterId \in Nat
    BY <1>0, <2>1
  <2>3. /\ stack'.cursor = stack.cursor + 1
        /\ stack'.current = stack.commands[stack.cursor + 1].afterId
        /\ stack'.commands = stack.commands /\ stack'.saved = stack.saved
    BY <1>5, <2>2, CursorMoves DEF Redoes
  <2>4. /\ Settled' = stack.commands[stack.cursor + 1].after /\ session'.saved = session.saved
        /\ Chained /\ (~ghost'.midway => SavedNamed)
    BY <1>1, <1>5 DEF Redoes, SavedStays, Unbroken
  <2>5. CanRedo' => Settled' = stack'.commands[stack'.cursor + 1].before
    <3>1. SUFFICES ASSUME stack.cursor + 1 < n
                   PROVE  stack.commands[stack.cursor + 1].after
                            = stack.commands[(stack.cursor + 1) + 1].before
      BY <2>3, <2>4 DEF CanRedo
    <3>2. stack.cursor + 1 \in 1 .. n - 1
      BY <1>0, <2>1, <3>1
    <3>. QED BY <2>4, <3>2 DEF Chained
  <2>6. Settled' = stack'.commands[stack'.cursor].after
    BY <2>3, <2>4
  <2>7. ~ghost'.midway /\ ~Dirty' => Settled' = session'.saved
    BY <2>1, <2>3, <2>4 DEF Dirty, SavedNamed
  <2>8. \A k \in 1 .. n - 1 : stack.commands[k].after = stack.commands[k + 1].before
    BY <2>4 DEF Chained
  <2>. QED BY <2>3, <2>4, <2>5, <2>6, <2>7, <2>8 DEF Chained, SavedNamed
<1>6. CASE MarksSaved
  <2>1. /\ stack'.commands = stack.commands /\ stack'.cursor = stack.cursor
        /\ stack'.current = stack.current /\ stack'.saved = stack.current
    BY <1>6 DEF MarksSaved, StackTyped, Stack
  <2>2. Settled' = Settled /\ (~ghost'.midway => session'.saved = Settled) /\ Chained
    BY <1>1, <1>6 DEF MarksSaved, Unbroken
  <2>3. ASSUME NEW k \in 1 .. n
        PROVE  /\ stack.commands[k].afterId = stack.current => stack.commands[k].after = Settled
               /\ stack.commands[k].beforeId = stack.current => stack.commands[k].before = Settled
    <3>0. /\ k < stack.cursor => stack.commands[k].afterId < stack.current
          /\ k <= stack.cursor => stack.commands[k].beforeId < stack.current
          /\ k > stack.cursor + 1 => stack.commands[k].beforeId > stack.current
          /\ k > stack.cursor => stack.commands[k].afterId > stack.current
      BY IdsAroundCursor
    <3>1. stack.commands[k].afterId = stack.current => k = stack.cursor
      BY <1>0, <3>0
    <3>2. stack.commands[k].beforeId = stack.current => k = stack.cursor + 1
      BY <1>0, <3>0
    <3>3. k = stack.cursor => stack.commands[k].after = Settled
      BY <1>0, <2>2 DEF Chained, CanUndo
    <3>4. k = stack.cursor + 1 => stack.commands[k].before = Settled
      BY <1>0, <2>2 DEF Chained, CanRedo
    <3>. QED BY <3>1, <3>2, <3>3, <3>4
  <2>. QED BY <2>1, <2>2, <2>3 DEF Chained, SavedNamed, CanUndo, CanRedo
<1>7. CASE StartsAfresh
  <2>1. stack'.cursor = 0 /\ Len(stack'.commands) = 0
    BY <1>7, EmptyStackTyped DEF StartsAfresh
  <2>2. ~ghost'.midway => Settled' = session'.saved
    BY <1>7 DEF StartsAfresh
  <2>. QED BY <2>1, <2>2 DEF Chained, SavedNamed, CanUndo, CanRedo
<1>. QED BY <1>2, <1>3, <1>4, <1>5, <1>6, <1>7 DEF HistoryStep

LEMMA ChainFromNamed == DocumentsNamed => HistoryChain
BY DEF DocumentsNamed, HistoryChain, Settled

-----------------------------------------------------------------------------
(* The versions of the file. *)

\* A race with another writer is never forgotten.
LEMMA RaceStays ==
  ASSUME TypeOK, EditorNext, ghost.raced PROVE ghost'.raced
<1>1. ghost \in Ghost
  BY WorldParts DEF TypeParts
<1>2. CASE SaveReplaces \/ ForeignWrite
  BY <1>1, <1>2 DEF SaveReplaces, ForeignWrite, Ghost
<1>3. CASE SaveEnds \/ SaveAs \/ ReloadEnds \/ DiscardAndLoad \/ Publish \/ CloseScene
  BY <1>1, <1>3 DEF SaveEnds, SaveAs, ReloadEnds, DiscardAndLoad, Publish, CloseScene, Ghost
<1>4. CASE Undo \/ Redo
  BY <1>4, AsideTyped DEF Undo, Redo
<1>5. CASE InspectorDrag
  <2>1. ghost' = ghost \/ ghost' = [ghost EXCEPT !.adrift = @ \/ session'.before = NoDoc]
    BY <1>5, DragParts
  <2>. QED BY <1>1, <2>1 DEF Ghost
<1>6. CASE \/ EditEntity \/ RejectedEdit \/ InspectorRelease \/ GroupedRelease \/ WidgetLost
           \/ SetInPlace \/ GizmoGrab \/ GizmoDrag \/ GizmoRelease \/ GizmoCancel
           \/ SaveBegins \/ SaveRechecks \/ ReloadBegins
           \/ RequestLoad \/ WorkerParses \/ WorkerStamps \/ BindingSettles
  <2>1. ghost' = ghost
    BY <1>6 DEF EditEntity, Execute, RejectedEdit, InspectorRelease, GroupedRelease,
       WidgetLost, SetInPlace, GizmoGrab, GizmoDrag, GizmoRelease, GizmoCancel, SaveBegins,
       SaveRechecks, ReloadBegins, RequestLoad, WorkerParses, WorkerStamps, BindingSettles
  <2>. QED BY <2>1
<1>. QED BY <1>2, <1>3, <1>4, <1>5, <1>6 DEF EditorNext

\* What VersionsKnown speaks of stays.
VersionsSame ==
  /\ session'.open = session.open /\ session'.stamp = session.stamp
  /\ disk'.version = disk.version /\ call' = call /\ load' = load
  /\ ghost'.base = ghost.base

LEMMA VersionsSameKept ==
  ASSUME VersionsKnown, VersionsSame, ghost.raced => ghost'.raced
  PROVE  VersionsKnown'
BY DEF VersionsKnown, VersionsSame

LEMMA EditsKeepVersions ==
  ASSUME TypeOK, EditsAreHeld,
         \/ EditEntity \/ RejectedEdit \/ Undo \/ Redo
         \/ InspectorDrag \/ InspectorRelease \/ GroupedRelease \/ WidgetLost \/ SetInPlace
         \/ GizmoGrab \/ GizmoDrag \/ GizmoRelease \/ GizmoCancel \/ BindingSettles
  PROVE  VersionsSame
<1>1. session \in Session /\ ghost \in Ghost
  BY WorldParts DEF TypeParts
<1>2. Committed \/ Cancelled => session'.open = session.open /\ session'.stamp = session.stamp
  BY <1>1, CommittedTyped, CancelledTyped DEF Session
<1>3. CASE EditEntity \/ RejectedEdit \/ BindingSettles
  BY <1>3 DEF EditEntity, Execute, RejectedEdit, BindingSettles, VersionsSame
<1>4. CASE Undo \/ Redo
  BY <1>4, AsideTyped DEF Undo, Redo, VersionsSame
<1>5. CASE InspectorDrag
  <2>1. /\ session' = session \/ session' = Begun
        /\ ghost' = ghost \/ ghost' = [ghost EXCEPT !.adrift = @ \/ session'.before = NoDoc]
        /\ UNCHANGED <<disk, call, load>>
    BY <1>5, DragParts
  <2>2. ghost'.base = ghost.base
    BY <1>1, <2>1 DEF Ghost
  <2>. QED BY <2>1, <2>2, BegunTyped DEF VersionsSame
<1>6. CASE GizmoGrab \/ GizmoDrag \/ GroupedRelease \/ WidgetLost \/ SetInPlace
  BY <1>6, BegunTyped DEF GizmoGrab, GizmoDrag, GroupedRelease, WidgetLost, SetInPlace,
     VersionsSame
<1>7. CASE InspectorRelease \/ GizmoRelease \/ GizmoCancel
  BY <1>2, <1>7 DEF InspectorRelease, GizmoRelease, GizmoCancel, VersionsSame
<1>. QED BY <1>3, <1>4, <1>5, <1>6, <1>7

LEMMA VersionsKept ==
  ASSUME TypeOK, EditsAreHeld, CallsRunAlone, VersionsKnown, EditorNext
  PROVE  VersionsKnown'
<1>. SUFFICES ASSUME ~ghost'.raced PROVE VersionsKnown'
  BY DEF VersionsKnown
<1>0. /\ ~ghost.raced
      /\ call = Idle \/ call.at # "replaced" => (session.open => session.stamp = ghost.base)
      /\ call # Idle =>
           /\ call.at \in {"checked", "rechecked"} => call.version = ghost.base
           /\ call.at \in {"rechecked", "parsed"} => disk.version = call.version
           /\ call.at = "replaced" => disk.version = ghost.base
      /\ load # Idle =>
           /\ load.at = "parsed" => load.version = disk.version
           /\ load.at = "ready" => load.stamp = load.version
  BY RaceStays DEF VersionsKnown
<1>1. session \in Session /\ ghost \in Ghost /\ disk \in Disk
      /\ (call = Idle \/ call \in Call) /\ (load = Idle \/ load \in Load)
  BY WorldParts DEF TypeParts
<1>2. CASE \/ EditEntity \/ RejectedEdit \/ Undo \/ Redo
           \/ InspectorDrag \/ InspectorRelease \/ GroupedRelease \/ WidgetLost \/ SetInPlace
           \/ GizmoGrab \/ GizmoDrag \/ GizmoRelease \/ GizmoCancel \/ BindingSettles
  BY <1>2, RaceStays, EditsKeepVersions, VersionsSameKept
<1>3. CASE SaveBegins
  <2>1. call'.at = "checked" /\ call'.version = disk.version /\ call = Idle /\ session.open
        /\ disk.version = session.stamp /\ UNCHANGED <<session, disk, load, ghost>>
    BY <1>3 DEF SaveBegins, UserFree
  <2>. QED BY <1>0, <2>1 DEF VersionsKnown
<1>4. CASE SaveRechecks
  <2>1. CASE call' = Idle
    BY <1>0, <1>4, <2>1 DEF SaveRechecks, VersionsKnown
  <2>2. CASE call' # Idle
    <3>1. disk.version = call.version /\ call'.at = "rechecked" /\ call'.version = call.version
          /\ call.at = "checked" /\ call # Idle
          /\ UNCHANGED <<session, disk, load, ghost>>
      BY <1>1, <1>4, <2>2 DEF SaveRechecks, Call
    <3>. QED BY <1>0, <3>1 DEF VersionsKnown
  <2>. QED BY <2>1, <2>2
<1>5. CASE SaveReplaces
  <2>1. call'.at = "replaced" /\ UNCHANGED <<session, load>>
        /\ disk'.version = disk.version + 1 /\ ghost'.base = disk.version + 1
    BY <1>1, <1>5 DEF SaveReplaces, Call, Disk, Ghost
  <2>2. ghost'.raced <=> ghost.raced \/ (load # Idle /\ load.at = "parsed")
    BY <1>1, <1>5 DEF SaveReplaces, Ghost
  <2>3. call # Idle /\ call' # Idle
    <3>1. call' \in Call
      BY <1>1, <1>5 DEF SaveReplaces, Call
    <3>. QED BY <1>5, <3>1, NoneAssumption DEF SaveReplaces
  <2>. QED BY <1>0, <2>1, <2>2, <2>3 DEF VersionsKnown
<1>6. CASE SaveEnds
  <2>1. call' = Idle /\ call # Idle /\ call.at = "replaced" /\ session'.stamp = disk.version
        /\ UNCHANGED <<disk, load>> /\ ghost'.base = ghost.base
    BY <1>1, <1>6 DEF SaveEnds, Session, Ghost
  <2>. QED BY <1>0, <2>1 DEF VersionsKnown
<1>7. CASE SaveAs
  <2>1. call = Idle /\ load = Idle /\ UNCHANGED <<call, load>>
        /\ session'.stamp = disk.version + 1 /\ ghost'.base = disk.version + 1
    BY <1>1, <1>7 DEF SaveAs, UserFree, Ghost
  <2>. QED BY <2>1 DEF VersionsKnown
<1>8. CASE ReloadBegins
  <2>1. call'.at = "parsed" /\ call'.version = disk.version /\ call = Idle
        /\ UNCHANGED <<session, disk, load, ghost>>
    BY <1>8 DEF ReloadBegins, UserFree
  <2>. QED BY <1>0, <2>1 DEF VersionsKnown
<1>9. CASE ReloadEnds
  <2>1. call' = Idle /\ call # Idle /\ call.at = "parsed" /\ session'.stamp = disk.version
        /\ UNCHANGED <<disk, load>> /\ ghost'.base = call.version
    BY <1>1, <1>9 DEF ReloadEnds, Session, Ghost
  <2>. QED BY <1>0, <2>1 DEF VersionsKnown
<1>10. CASE ForeignWrite
  <2>1. UNCHANGED <<session, call, load>> /\ ghost'.base = ghost.base
    BY <1>1, <1>10 DEF ForeignWrite, Ghost
  <2>2. ghost'.raced <=> \/ ghost.raced
                         \/ call # Idle /\ call.at # "checked"
                         \/ load # Idle /\ load.at = "parsed"
    BY <1>1, <1>10 DEF ForeignWrite, Ghost
  <2>. QED BY <1>0, <2>1, <2>2 DEF VersionsKnown
<1>11. CASE RequestLoad
  <2>1. load' = NewLoad /\ NewLoad.at = "requested" /\ UNCHANGED <<session, disk, call, ghost>>
    BY <1>11 DEF RequestLoad, NewLoad
  <2>. QED BY <1>0, <2>1 DEF VersionsKnown
<1>12. CASE DiscardAndLoad
  <2>1. load' = NewLoad /\ NewLoad.at = "requested" /\ UNCHANGED <<disk, call>>
        /\ session'.open = session.open /\ session'.stamp = session.stamp
        /\ ghost'.base = ghost.base
    BY <1>1, <1>12 DEF DiscardAndLoad, NewLoad, Session, Ghost
  <2>. QED BY <1>0, <2>1 DEF VersionsKnown
<1>13. CASE WorkerParses
  <2>1. UNCHANGED <<session, disk, call, ghost>>
    BY <1>13 DEF WorkerParses
  <2>2. load' = Idle \/ (load'.at = "parsed" /\ load'.version = disk.version)
    BY <1>1, <1>13 DEF WorkerParses, Load
  <2>. QED BY <1>0, <2>1, <2>2 DEF VersionsKnown
<1>14. CASE WorkerStamps
  <2>1. UNCHANGED <<session, disk, call, ghost>>
    BY <1>14 DEF WorkerStamps
  <2>2. load' = Idle \/ (load'.at = "ready" /\ load'.stamp = disk.version
                         /\ load'.version = load.version)
    BY <1>1, <1>14 DEF WorkerStamps, Load
  <2>. QED BY <1>0, <1>14, <2>1, <2>2 DEF VersionsKnown, WorkerStamps
<1>15. CASE Publish
  <2>1. load' = Idle /\ load # Idle /\ load.at = "ready" /\ call = Idle
        /\ UNCHANGED <<disk, call>>
    BY <1>15 DEF Publish
  <2>2. CASE session.open /\ Dirty
    BY <1>0, <1>15, <2>1, <2>2 DEF Publish, VersionsKnown
  <2>3. CASE ~(session.open /\ Dirty)
    <3>1. session'.stamp = load.stamp /\ ghost'.base = load.version
      <4>1. session'.stamp = load.stamp
        BY <1>15, <2>3 DEF Publish
      <4>2. ghost' = [ghost EXCEPT !.base = load.version, !.adrift = FALSE, !.midway = FALSE]
        BY <1>15, <2>3 DEF Publish
      <4>. QED BY <1>1, <4>1, <4>2 DEF Ghost
    <3>. QED BY <1>0, <2>1, <3>1 DEF VersionsKnown
  <2>. QED BY <2>2, <2>3
<1>16. CASE CloseScene
  <2>1. ~session'.open /\ call = Idle /\ UNCHANGED <<disk, call, load>>
    BY <1>16 DEF CloseScene, UserFree
  <2>. QED BY <1>0, <2>1 DEF VersionsKnown
<1>. QED BY <1>2, <1>3, <1>4, <1>5, <1>6, <1>7, <1>8, <1>9, <1>10, <1>11, <1>12, <1>13,
            <1>14, <1>15, <1>16 DEF EditorNext

-----------------------------------------------------------------------------
(* Who asks for assets. *)

\* No entity waits for an asset it did not wait for before.
AsksAsBefore ==
  \A e \in Entity : world'.bind[e] = "unresolved" => world.bind[e] = "unresolved"

LEMMA CommandsAsk ==
  ASSUME TypeOK, EditEntity \/ RejectedEdit \/ Undo \/ Redo
  PROVE  AsksAsBefore
<1>1. TypeParts /\ world.doc \in Doc
  BY WorldParts
<1>. USE DEF TypeParts
<1>2. CASE EditEntity
  <2>0. PICK e \in Entity : \E c \in Changed(e) : Execute([world.doc EXCEPT ![e] = c])
    BY <1>2 DEF EditEntity
  <2>1. PICK c \in Changed(e) : Execute([world.doc EXCEPT ![e] = c])
    BY <2>0
  <2>3. [world.doc EXCEPT ![e] = c] \in Doc
    BY ChangesTyped
  <2>. QED BY <1>1, <2>1, <2>3, EditedTyped DEF Execute, Recorded, AsksAsBefore
<1>3. CASE RejectedEdit
  BY <1>1, <1>3, ReplacedTyped DEF RejectedEdit, AsksAsBefore
<1>4. CASE Undo
  <2>1. stack.cursor \in 1 .. Len(stack.commands)
    BY <1>1, <1>4 DEF Undo, CanUndo, StackTyped, Stack
  <2>2. stack.commands[stack.cursor] \in Command
    BY <1>1, <2>1 DEF StackTyped, Stack
  <2>3. stack.commands[stack.cursor].before \in Doc
    BY <2>2 DEF Command
  <2>. QED BY <1>1, <1>4, <2>3, ReplacedTyped DEF Undo, AsksAsBefore
<1>5. CASE Redo
  <2>1. stack.cursor + 1 \in 1 .. Len(stack.commands)
    BY <1>1, <1>5 DEF Redo, CanRedo, StackTyped, Stack
  <2>2. stack.commands[stack.cursor + 1] \in Command
    BY <1>1, <2>1 DEF StackTyped, Stack
  <2>3. stack.commands[stack.cursor + 1].after \in Doc
    BY <2>2 DEF Command
  <2>. QED BY <1>1, <1>5, <2>3, ReplacedTyped DEF Redo, AsksAsBefore
<1>. QED BY <1>2, <1>3, <1>4, <1>5

LEMMA ContinuousAsk ==
  ASSUME TypeOK, EditsAreHeld,
         \/ InspectorDrag \/ InspectorRelease \/ GroupedRelease \/ WidgetLost
         \/ GizmoGrab \/ GizmoDrag \/ GizmoRelease \/ GizmoCancel
  PROVE  AsksAsBefore
<1>1. TypeParts /\ world.doc \in Doc
  BY WorldParts
<1>. USE DEF TypeParts
<1>2. Cancelled => AsksAsBefore
  <2>1. session.before # NoDoc /\ Cancelled => WorldReplaced(session.before)
    BY DEF Cancelled
  <2>2. session.before = NoDoc /\ Cancelled => world' = world
    BY DEF Cancelled
  <2>3. session.before # NoDoc => session.before \in Doc
    BY <1>1 DEF Session
  <2>. QED BY <1>1, <2>1, <2>2, <2>3, ReplacedTyped DEF AsksAsBefore
<1>3. Committed => AsksAsBefore
  <2>1. session.before # NoDoc /\ Recorded(session.before, world.doc) => AsksAsBefore
    BY <1>1, EditedTyped DEF Recorded, AsksAsBefore
  <2>. QED BY <1>2, <2>1 DEF Committed
<1>4. CASE InspectorDrag
  <2>1. PICK e \in Entity :
          /\ Movable(e)
          /\ \/ world' = [world EXCEPT !.doc = MovedAt(e)]
             \/ Recorded(world.doc, MovedAt(e))
    BY <1>4, DragParts
  <2>2. CASE world' = [world EXCEPT !.doc = MovedAt(e)]
    BY <2>1, <2>2, MovedWorld DEF AsksAsBefore
  <2>3. CASE Recorded(world.doc, MovedAt(e))
    BY <1>1, <2>1, <2>3, MovedTyped, EditedTyped DEF Recorded, AsksAsBefore
  <2>. QED BY <2>1, <2>2, <2>3
<1>5. CASE GizmoDrag
  <2>1. PICK e \in Entity : Movable(e) /\ world' = [world EXCEPT !.doc = MovedAt(e)]
    BY <1>5 DEF GizmoDrag
  <2>. QED BY <2>1, MovedWorld DEF AsksAsBefore
<1>6. CASE InspectorRelease \/ GizmoRelease \/ GizmoCancel
  BY <1>2, <1>3, <1>6 DEF InspectorRelease, GizmoRelease, GizmoCancel
<1>7. CASE WidgetLost \/ GroupedRelease \/ GizmoGrab
  BY <1>7 DEF WidgetLost, GroupedRelease, GizmoGrab, AsksAsBefore
<1>. QED BY <1>4, <1>5, <1>6, <1>7

\* While an edit was left open, only an environment picked in place is not asked for.
PickedInPlace(e) ==
  /\ world.doc[e] = "probe" /\ world'.doc[e] = "captured"
  /\ session.before # NoDoc /\ UNCHANGED <<session, stack>>

LEMMA SetAsks ==
  ASSUME TypeOK, SetInPlace, NEW x \in Entity, world'.bind[x] = "unresolved"
  PROVE  world.bind[x] = "unresolved" \/ PickedInPlace(x)
<1>1. PICK e \in Entity : \E c \in Set(e) :
        world' = [doc |-> [world.doc EXCEPT ![e] = c],
                  bind |-> BindingsAfterEdit([world.doc EXCEPT ![e] = c])]
  BY DEF SetInPlace
<1>2. PICK c \in Set(e) :
        world' = [doc |-> [world.doc EXCEPT ![e] = c],
                  bind |-> BindingsAfterEdit([world.doc EXCEPT ![e] = c])]
  BY <1>1
<1>3. world.doc \in Doc
  BY WorldParts
<1>4. world'.doc = [world.doc EXCEPT ![e] = c]
  BY <1>2
<1>5. world'.doc[x] = IF x = e THEN c ELSE world.doc[x]
  BY <1>3, <1>4 DEF Doc
<1>6. /\ world'.bind[x] = IF ~NeedsAsset(world'.doc, x) THEN "none"
                           ELSE IF world.doc[x] = world'.doc[x] THEN world.bind[x]
                           ELSE "unresolved"
  BY <1>2, <1>4 DEF BindingsAfterEdit
<1>7. CASE world.doc[x] = world'.doc[x]
  BY <1>6, <1>7
<1>8. CASE world.doc[x] # world'.doc[x]
  <2>1. x = e /\ c \in {"model", "captured"} /\ world'.doc[x] = c
    BY <1>5, <1>6, <1>8 DEF NeedsAsset
  <2>2. c = "captured" /\ world.doc[x] = "probe"
    BY <2>1 DEF Set, ContentOf
  <2>. QED BY <2>1, <2>2, SetParts DEF PickedInPlace
<1>. QED BY <1>7, <1>8

LEMMA LoadsAsk ==
  ASSUME TypeOK,
         \/ RequestLoad \/ DiscardAndLoad \/ WorkerParses \/ WorkerStamps \/ Publish
         \/ CloseScene \/ BindingSettles
  PROVE  AsksAsBefore
<1>1. TypeParts /\ world.doc \in Doc
  BY WorldParts
<1>. USE DEF TypeParts
<1>2. CASE DiscardAndLoad
  <2>1. session.saved \in Doc
    BY <1>1 DEF Session
  <2>. QED BY <1>1, <1>2, <2>1, ReplacedTyped DEF DiscardAndLoad, AsksAsBefore
<1>3. CASE Publish
  BY <1>3 DEF Publish, AsksAsBefore
<1>4. CASE CloseScene
  BY <1>4 DEF CloseScene, AsksAsBefore
<1>5. CASE BindingSettles
  <2>1. PICK e \in Entity, answer \in {"ready", "failed"} :
          world' = [world EXCEPT !.bind[e] = answer]
    BY <1>5 DEF BindingSettles
  <2>2. world'.bind = [world.bind EXCEPT ![e] = answer]
    BY <1>1, <2>1 DEF World
  <2>. QED BY <1>1, <2>2 DEF AsksAsBefore, World
<1>6. CASE RequestLoad \/ WorkerParses \/ WorkerStamps
  BY <1>6 DEF RequestLoad, WorkerParses, WorkerStamps, AsksAsBefore
<1>. QED BY <1>2, <1>3, <1>4, <1>5, <1>6

\* Only a Save As, and an environment picked in place, leave bindings unresolved.
LEMMA StepAsks ==
  ASSUME TypeOK, EditsAreHeld, [EditorNext]_editorVars, NEW e \in Entity,
         world'.bind[e] = "unresolved"
  PROVE  \/ world.bind[e] = "unresolved"
         \/ stack' = EmptyStack /\ disk'.version # disk.version
         \/ PickedInPlace(e)
<1>1. TypeParts /\ world.doc \in Doc
  BY WorldParts
<1>2. CASE SaveAs
  <2>1. disk'.version = disk.version + 1 /\ disk.version \in Nat
    BY <1>1, <1>2 DEF SaveAs, TypeParts, Disk
  <2>. QED BY <1>2, <2>1 DEF SaveAs
<1>3. CASE ReloadEnds
  <2>1. call.doc \in Doc
    BY <1>1, <1>3 DEF ReloadEnds, TypeParts, Call
  <2>. QED BY <1>1, <1>3, <2>1, ReplacedTyped DEF ReloadEnds, TypeParts, AsksAsBefore
<1>4. CASE SaveBegins \/ SaveRechecks \/ SaveReplaces \/ SaveEnds \/ ReloadBegins
           \/ ForeignWrite \/ UNCHANGED editorVars
  BY <1>4 DEF SaveBegins, SaveRechecks, SaveReplaces, SaveEnds, ReloadBegins, ForeignWrite,
     editorVars, AsksAsBefore
<1>5. CASE SetInPlace
  BY <1>5, SetAsks
<1>6. AsksAsBefore => world.bind[e] = "unresolved"
  BY DEF AsksAsBefore
<1>. QED BY <1>2, <1>3, <1>4, <1>5, <1>6, CommandsAsk, ContinuousAsk, LoadsAsk, Zenon
         DEF EditorNext

-----------------------------------------------------------------------------
(* The theorems. *)

LEMMA InitHolds == Init => EditorInvariant
<1>. SUFFICES ASSUME Init PROVE EditorInvariant
  OBVIOUS
<1>1. /\ session.before = NoDoc /\ session.saved = world.doc /\ session.stamp = ghost.base
      /\ ui.held = "nothing" /\ ui.held \notin Widget /\ call = Idle /\ load = Idle
      /\ stack = EmptyStack
  BY WidgetAssumption DEF Init
<1>2. stack.cursor = 0 /\ Len(stack.commands) = 0 /\ stack.next = 1
      /\ stack.current = 0 /\ stack.saved = 0
  BY <1>1, EmptyStackTyped
<1>3. EditsAreHeld /\ CallsRunAlone
  BY <1>1 DEF EditsAreHeld, CallsRunAlone
<1>4. IdsOrdered
  BY <1>2 DEF IdsOrdered, CanUndo, CanRedo
<1>5. DocumentsNamed
  BY <1>1, <1>2 DEF DocumentsNamed, CanUndo, CanRedo, Settled
<1>6. VersionsKnown
  BY <1>1 DEF VersionsKnown
<1>. QED BY InitTyped, <1>3, <1>4, <1>5, <1>6, ChainFromNamed DEF EditorInvariant

LEMMA StepKeepsInvariant ==
  ASSUME EditorInvariant, [EditorNext]_editorVars PROVE EditorInvariant'
<1>1. CASE EditorNext
  <2>1. TypeOK' /\ EditsAreHeld' /\ CallsRunAlone' /\ HistoryStep
    BY <1>1, StepTyped, StepHolds, CallsKept, StepShape DEF EditorInvariant
  <2>2. StackTyped
    BY WorldParts DEF EditorInvariant, TypeParts
  <2>3. IdsOrdered'
    BY <2>1, <2>2, IdsKept DEF EditorInvariant
  <2>4. DocumentsNamed'
    BY <2>1, <2>2, DocumentsKept DEF EditorInvariant
  <2>5. VersionsKnown'
    BY <1>1, VersionsKept DEF EditorInvariant
  <2>6. HistoryChain'
    BY <2>4 DEF DocumentsNamed, HistoryChain, Settled
  <2>. QED BY <2>1, <2>3, <2>4, <2>5, <2>6 DEF EditorInvariant
<1>2. CASE UNCHANGED editorVars
  BY <1>2 DEF editorVars, EditorInvariant, TypeOK, EditsAreHeld, CallsRunAlone, IdsOrdered,
     DocumentsNamed, VersionsKnown, HistoryChain, Settled, CanUndo, CanRedo, Dirty
<1>. QED BY <1>1, <1>2

\* Undo and redo restore exact documents: whatever edits, drags, edits left open
\* by the Inspector, rejected edits, saves and loads alternate, each command
\* starts from what the one before it left and the world is where the cursor is;
\* nothing but an undo or redo while an edit is open, and a transform dragged
\* under a stale flag, breaks it (SceneEditorSession::undo, redo and
\* commitContinuousEdit, EditorCommandStack::push, InspectorPanel.cpp).
THEOREM HistoryRestoresDocuments == EditorSpec => []EditorInvariant
<1>1. Init => EditorInvariant
  BY InitHolds
<1>2. EditorInvariant /\ [EditorNext]_editorVars => EditorInvariant'
  BY StepKeepsInvariant
<1>. QED BY <1>1, <1>2, PTL DEF EditorSpec

\* A session that is not dirty shows the saved document: the state ids dirty()
\* compares name documents, past undo, cut redo branches, a full stack and edits
\* left open, unless the history has broken or the file was written or read
\* again in the midst of an edit.
THEOREM CleanSessionIsSaved == EditorSpec => []CleanMeansSaved
<1>1. EditorInvariant => CleanMeansSaved
  BY DEF EditorInvariant, DocumentsNamed, CleanMeansSaved, Settled
<1>. QED BY <1>1, HistoryRestoresDocuments, PTL

\* A save overwrites no version of the scene file that the session has not read
\* or written, unless the file was written between two accesses of one call
\* (SceneDocumentSerializer's stamps, compared before and after the temporary
\* file is written).
THEOREM SavesKeepForeignWrites == EditorSpec => ForeignWritesKept
<1>1. EditorInvariant /\ [EditorNext]_editorVars
        => [call # Idle /\ call.at = "rechecked" /\ call' # call
              => disk.version = ghost.base \/ ghost.raced]_editorVars
  BY DEF EditorInvariant, VersionsKnown
<1>. QED BY <1>1, HistoryRestoresDocuments, PTL DEF EditorSpec, ForeignWritesKept

\* No entity is left waiting for an asset nobody was asked for: an edit, a
\* replaced document and a published world run the binding callback or bring
\* their assets; a Save As alone rebuilds the world without it, and an
\* environment picked while an edit was left open is set without it.
THEOREM EveryBindingIsRequested == EditorSpec => BindingsRequested
<1>1. EditorInvariant /\ [EditorNext]_editorVars
        => [\A e \in Entity : world'.bind[e] = "unresolved"
              => \/ world.bind[e] = "unresolved"
                 \/ stack' = EmptyStack /\ disk'.version # disk.version
                 \/ /\ world.doc[e] = "probe" /\ world'.doc[e] = "captured"
                    /\ session.before # NoDoc /\ UNCHANGED <<session, stack>>]_editorVars
  BY StepAsks DEF EditorInvariant, PickedInPlace
<1>. QED BY <1>1, HistoryRestoresDocuments, PTL DEF EditorSpec, BindingsRequested

-----------------------------------------------------------------------------
(* What the steps of a capture do to the session.                          *)

\* The Catalog changes and nothing of the session does.
LEMMA CatalogStepKeepsSession ==
  ASSUME EditorInvariant, UNCHANGED <<world, session, stack, ui, call, load, ghost>>,
         disk' \in Disk, disk'.version = disk.version
  PROVE  EditorInvariant'
<1>1. TypeOK'
  BY TypesNamed DEF EditorInvariant, TypeParts, StackTyped
<1>2. EditsAreHeld' /\ IdsOrdered' /\ DocumentsNamed' /\ HistoryChain'
  BY DEF EditorInvariant, EditsAreHeld, IdsOrdered, DocumentsNamed, HistoryChain, Settled,
     CanUndo, CanRedo, Dirty
<1>3. CallsRunAlone' /\ VersionsKnown'
  BY DEF EditorInvariant, CallsRunAlone, VersionsKnown
<1>. QED BY <1>1, <1>2, <1>3 DEF EditorInvariant

\* The world changes while no file operation is in flight.
LEMMA WorldStepKeepsSession ==
  ASSUME EditorInvariant, call = Idle, world' \in World, StackTyped', HistoryStep,
         session.before = NoDoc, UNCHANGED <<session, ui, disk, call, load, ghost>>
  PROVE  EditorInvariant'
<1>1. TypeOK'
  BY TypesNamed DEF EditorInvariant, TypeParts
<1>2. EditsAreHeld'
  BY HoldersSameKept DEF EditorInvariant, HoldersSame
<1>3. CallsRunAlone' /\ VersionsKnown'
  BY DEF EditorInvariant, CallsRunAlone, VersionsKnown
<1>4. StackTyped
  BY WorldParts DEF EditorInvariant, TypeParts
<1>5. IdsOrdered' /\ DocumentsNamed'
  BY <1>4, IdsKept, DocumentsKept DEF EditorInvariant
<1>6. HistoryChain'
  BY <1>5 DEF DocumentsNamed, HistoryChain, Settled
<1>. QED BY <1>1, <1>2, <1>3, <1>5, <1>6 DEF EditorInvariant


LEMMA BakeKeepsSession ==
  ASSUME EditorInvariant, BakeCompletes
  PROVE  EditorInvariant'
<1>1. TypeParts /\ world.doc \in Doc
  BY WorldParts DEF EditorInvariant
<1>2. world \in World /\ StackTyped
  BY <1>1 DEF TypeParts
<1>3. call = Idle /\ disk' = disk
  BY DEF BakeCompletes, InPhase
<1>4. CASE Execute([world.doc EXCEPT ![ProbeEntity] = "captured"])
  <2>. DEFINE d == [world.doc EXCEPT ![ProbeEntity] = "captured"]
  <2>1. "captured" \in ContentOf(ProbeEntity)
    BY DEF ContentOf
  <2>2. d \in Doc
    BY <1>1, <2>1, ProbeAssumption, DocsTyped
  <2>. HIDE DEF d
  <2>3. Execute(d)
    BY <1>4 DEF d
  <2>4. /\ world' \in World /\ world'.doc = d /\ session' = session /\ StackTyped'
        /\ session.before = NoDoc /\ stack' = Pushed(world.doc, d) /\ stack.next <= MaxPushes
        /\ UNCHANGED <<session, ui, call, load, ghost>>
    BY <1>1, <2>2, <2>3, ExecuteTyped DEF Execute, Recorded, EditorInvariant
  <2>5. HistoryStep
    BY <1>1, <2>2, <2>4 DEF HistoryStep, PushesOne, SavedStays, Unbroken, Settled
  <2>. QED BY <1>3, <2>4, <2>5, WorldStepKeepsSession
<1>5. CASE /\ session.before = NoDoc /\ WorldReplaced(world.doc)
           /\ UNCHANGED <<session, stack, ui, call, load, ghost>>
  <2>1. world' \in World /\ world'.doc = world.doc
    BY <1>1, <1>2, <1>5, ReplacedTyped
  <2>2. HistoryStep
    BY <1>5, <2>1 DEF HistoryStep, Keeps, SavedStays, Unbroken, Settled
  <2>3. StackTyped'
    BY <1>2, <1>5 DEF StackTyped
  <2>. QED BY <1>3, <1>5, <2>1, <2>2, <2>3, WorldStepKeepsSession
<1>6. CASE UNCHANGED <<world, session, stack, ui, call, load, ghost>>
  BY <1>1, <1>3, <1>6, CatalogStepKeepsSession DEF TypeParts
<1>. QED BY <1>4, <1>5, <1>6 DEF BakeCompletes

\* A failed capture changes the Catalog at most.
LEMMA RollbackParts ==
  ASSUME EditorInvariant, NEW backup, NEW added, NEW listed \in BOOLEAN, NEW found,
         RolledBack(backup, added, listed, found)
  PROVE  /\ EditorInvariant' /\ UNCHANGED <<world, session, stack, ui, call, load, ghost>>
         /\ capture' = NoCapture
         /\ disk' \in Disk /\ disk'.doc = disk.doc /\ disk'.pinned = disk.pinned
         /\ \/ EnvironmentRemovable /\ ~disk'.registered /\ source' = "missing"
            \/ disk'.registered = listed /\ source' \in {"old", found}
<1>1. disk \in Disk
  BY WorldParts DEF EditorInvariant, TypeParts
<1>2. PICK r \in BOOLEAN :
        /\ disk' = [disk EXCEPT !.registered = r]
        /\ \/ EnvironmentRemovable /\ r = FALSE /\ source' = "missing"
           \/ r = listed /\ source' \in {"old", found}
  BY DEF RolledBack
<1>3. disk' \in Disk /\ disk'.doc = disk.doc /\ disk'.pinned = disk.pinned
      /\ disk'.version = disk.version /\ disk'.registered = r
  BY <1>1, <1>2 DEF Disk
<1>4. UNCHANGED <<world, session, stack, ui, call, load, ghost>> /\ capture' = NoCapture
  BY DEF RolledBack
<1>5. EditorInvariant'
  BY <1>3, <1>4, CatalogStepKeepsSession
<1>. QED BY <1>2, <1>3, <1>4, <1>5

-----------------------------------------------------------------------------
(* What the steps of the session do to the Catalog and the scene file.     *)

LEMMA NothingCaptured == ReferencesExist(EmptyDoc)
BY DEF ReferencesExist, EmptyDoc

LEMMA SessionKeepsCatalog ==
  ASSUME EditorInvariant, SavedReferencesExist, PendingSaveLoadable, EditorNext
  PROVE  /\ disk'.registered = disk.registered
         /\ SavedReferencesExist' /\ PendingSaveLoadable'
<1>1. disk \in Disk /\ (call = Idle \/ call \in Call)
  BY WorldParts DEF EditorInvariant, TypeParts
<1>2. CASE SaveBegins
  <2>1. disk' = disk /\ call'.doc = world.doc /\ ReferencesExist(world.doc)
    BY <1>2 DEF SaveBegins
  <2>. QED BY <2>1 DEF SavedReferencesExist, PendingSaveLoadable, ReferencesExist
<1>3. CASE SaveRechecks
  <2>1. disk' = disk /\ (call' = Idle \/ call'.doc = call.doc) /\ call # Idle
        /\ call.at = "checked"
    BY <1>1, <1>3 DEF SaveRechecks, Call
  <2>. QED BY <2>1 DEF SavedReferencesExist, PendingSaveLoadable, ReferencesExist
<1>4. CASE SaveReplaces
  <2>1. disk'.registered = disk.registered /\ disk'.doc = call.doc /\ disk'.pinned = disk.pinned
        /\ call # Idle /\ call.at = "rechecked" /\ call'.at = "replaced"
    BY <1>1, <1>4 DEF SaveReplaces, Disk, Call
  <2>. QED BY <2>1 DEF SavedReferencesExist, PendingSaveLoadable, ReferencesExist
<1>5. CASE SaveAs
  <2>1. /\ disk'.registered = disk.registered /\ disk'.doc = world.doc
        /\ disk'.pinned = (disk.pinned \/ \E e \in Entity : disk.doc[e] = "captured")
        /\ ReferencesExist(world.doc) /\ call' = Idle
    BY <1>1, <1>5 DEF SaveAs, Disk, UserFree
  <2>. QED BY <2>1 DEF SavedReferencesExist, PendingSaveLoadable, ReferencesExist
<1>6. CASE ForeignWrite
  <2>1. disk'.registered = disk.registered /\ disk'.doc = EmptyDoc /\ disk'.pinned = disk.pinned
        /\ call' = call
    BY <1>1, <1>6 DEF ForeignWrite, Disk
  <2>. QED BY <2>1, NothingCaptured DEF SavedReferencesExist, PendingSaveLoadable, ReferencesExist
<1>7. CASE ReloadBegins
  <2>1. disk' = disk /\ call'.at = "parsed"
    BY <1>7 DEF ReloadBegins
  <2>. QED BY <2>1 DEF SavedReferencesExist, PendingSaveLoadable, ReferencesExist
<1>8. CASE SaveEnds \/ ReloadEnds
  <2>1. disk' = disk /\ call' = Idle
    BY <1>8 DEF SaveEnds, ReloadEnds
  <2>. QED BY <2>1 DEF SavedReferencesExist, PendingSaveLoadable, ReferencesExist
<1>9. CASE \/ EditEntity \/ RejectedEdit \/ Undo \/ Redo \/ InspectorDrag \/ InspectorRelease
           \/ GroupedRelease \/ WidgetLost \/ SetInPlace
           \/ GizmoGrab \/ GizmoDrag \/ GizmoRelease \/ GizmoCancel
           \/ RequestLoad \/ DiscardAndLoad \/ WorkerParses \/ WorkerStamps \/ Publish
           \/ CloseScene \/ BindingSettles
  <2>1. disk' = disk /\ call' = call
    BY <1>9 DEF EditEntity, Execute, RejectedEdit, Undo, Redo, InspectorDrag,
       InspectorRelease, GroupedRelease, WidgetLost, SetInPlace,
       GizmoGrab, GizmoDrag, GizmoRelease, GizmoCancel,
       RequestLoad, DiscardAndLoad, WorkerParses, WorkerStamps, Publish, CloseScene,
       BindingSettles
  <2>. QED BY <2>1 DEF SavedReferencesExist, PendingSaveLoadable, ReferencesExist
<1>. QED BY <1>2, <1>3, <1>4, <1>5, <1>6, <1>7, <1>8, <1>9 DEF EditorNext

-----------------------------------------------------------------------------
(* The inductive invariant. *)

CaptureInv ==
  /\ CaptureTypeOK /\ RegisteredHasSource /\ CaptureHasSource
  /\ PendingSaveLoadable /\ SavedReferencesExist

\* Whatever the failing capture registered, the Catalog lists nothing without
\* its source and has lost nothing a scene file references.
LEMMA RollbackKeeps ==
  ASSUME EditorInvariant, CaptureInv, call = Idle,
         NEW backup, NEW added, NEW listed \in BOOLEAN, NEW found \in {"missing", "old", "new"},
         RolledBack(backup, added, listed, found),
         disk.registered => listed, listed => found # "missing"
  PROVE  EditorInvariant' /\ CaptureInv'
<1>1. /\ EditorInvariant' /\ call' = call /\ capture' = NoCapture
      /\ disk'.doc = disk.doc /\ disk'.pinned = disk.pinned
      /\ \/ EnvironmentRemovable /\ ~disk'.registered /\ source' = "missing"
         \/ disk'.registered = listed /\ source' \in {"old", found}
  BY RollbackParts
<1>2. CaptureTypeOK' /\ RegisteredHasSource' /\ CaptureHasSource'
  BY <1>1 DEF CaptureInv, CaptureTypeOK, RegisteredHasSource, CaptureHasSource
<1>3. PendingSaveLoadable'
  BY <1>1 DEF PendingSaveLoadable
<1>4. SavedReferencesExist'
  BY <1>1 DEF CaptureInv, SavedReferencesExist, EnvironmentRemovable
<1>. QED BY <1>1, <1>2, <1>3, <1>4 DEF CaptureInv

\* A step that leaves the session and the Catalog alone.
LEMMA QuietKeeps ==
  ASSUME EditorInvariant, CaptureInv, UNCHANGED editorVars,
         CaptureTypeOK', CaptureHasSource', source = "missing" <=> source' = "missing"
  PROVE  EditorInvariant' /\ CaptureInv'
<1>1. EditorInvariant'
  BY StepKeepsInvariant
<1>2. UNCHANGED <<disk, call>>
  BY DEF editorVars
<1>3. RegisteredHasSource' /\ PendingSaveLoadable' /\ SavedReferencesExist'
  BY <1>2 DEF CaptureInv, RegisteredHasSource, PendingSaveLoadable, SavedReferencesExist,
     ReferencesExist
<1>. QED BY <1>1, <1>3 DEF CaptureInv

LEMMA FacesKeep ==
  ASSUME EditorInvariant, CaptureInv, FacesCaptured
  PROVE  EditorInvariant' /\ CaptureInv'
<1>1. disk \in Disk /\ call = Idle
  BY WorldParts DEF EditorInvariant, TypeParts, FacesCaptured, InPhase
<1>2. /\ source' = "new" /\ disk' = [disk EXCEPT !.registered = TRUE]
      /\ capture' = [phase |-> "baking", backup |-> source # "missing",
                     added |-> ~disk.registered]
      /\ UNCHANGED <<world, session, stack, ui, call, load, ghost>>
  BY DEF FacesCaptured
<1>3. disk' \in Disk /\ disk'.version = disk.version /\ disk'.registered
  BY <1>1, <1>2 DEF Disk
<1>4. EditorInvariant'
  BY <1>2, <1>3, CatalogStepKeepsSession
<1>5. CaptureTypeOK'
  BY <1>1, <1>2 DEF CaptureTypeOK, Capture, Disk
<1>6. RegisteredHasSource' /\ CaptureHasSource' /\ PendingSaveLoadable' /\ SavedReferencesExist'
  BY <1>1, <1>2, <1>3 DEF RegisteredHasSource, CaptureHasSource, PendingSaveLoadable,
     SavedReferencesExist
<1>. QED BY <1>4, <1>5, <1>6 DEF CaptureInv

LEMMA FacesFailKeeps ==
  ASSUME EditorInvariant, CaptureInv, FacesFail
  PROVE  EditorInvariant' /\ CaptureInv'
<1>1. /\ disk.registered \in BOOLEAN /\ source \in {"missing", "old", "new"}
      /\ disk.registered => source # "missing"
  BY WorldParts DEF EditorInvariant, TypeParts, Disk, CaptureInv, CaptureTypeOK,
     RegisteredHasSource
<1>2. call = Idle
  BY DEF FacesFail, InPhase
<1>3. CASE RolledBack(FALSE, FALSE, disk.registered, source)
  BY <1>1, <1>2, <1>3, RollbackKeeps
<1>4. CASE ~disk.registered /\ RolledBack(source # "missing", FALSE, FALSE, "new")
  BY <1>2, <1>4, RollbackKeeps
<1>5. CASE RolledBack(source # "missing", ~disk.registered, TRUE, "new")
  BY <1>2, <1>5, RollbackKeeps
<1>. QED BY <1>3, <1>4, <1>5 DEF FacesFail

LEMMA StepKeepsProbe ==
  ASSUME EditorInvariant, CaptureInv, [Next]_vars
  PROVE  EditorInvariant' /\ CaptureInv'
<1>. USE DEF CaptureInv
<1>0. /\ capture = NoCapture \/ capture \in Capture
      /\ source \in {"missing", "old", "new"}
      /\ capture \in Capture => capture.backup \in BOOLEAN /\ capture.added \in BOOLEAN
  BY DEF CaptureTypeOK, Capture
<1>1. CASE EditorNext /\ UNCHANGED captureVars
  <2>1. EditorInvariant'
    BY <1>1, StepKeepsInvariant
  <2>2. disk'.registered = disk.registered /\ SavedReferencesExist' /\ PendingSaveLoadable'
    BY <1>1, SessionKeepsCatalog
  <2>3. CaptureTypeOK' /\ RegisteredHasSource' /\ CaptureHasSource'
    BY <1>1, <2>2 DEF captureVars, CaptureTypeOK, RegisteredHasSource, CaptureHasSource
  <2>. QED BY <2>1, <2>2, <2>3
<1>2. CASE BeginCapture
  <2>1. CaptureTypeOK' /\ CaptureHasSource' /\ (source = "missing" <=> source' = "missing")
    BY <1>0, <1>2 DEF BeginCapture, CaptureTypeOK, Capture, CaptureHasSource
  <2>. QED BY <1>2, <2>1, QuietKeeps DEF BeginCapture
<1>3. CASE ViewportResized
  <2>1. capture \in Capture /\ capture.phase = "resize"
    BY <1>0, <1>3 DEF ViewportResized, InPhase
  <2>2. capture' \in Capture /\ capture'.added = capture.added /\ capture'.phase = "faces"
        /\ ~capture.added
    BY <1>3, <2>1 DEF ViewportResized, Capture, CaptureHasSource, InPhase
  <2>3. CaptureTypeOK' /\ CaptureHasSource'
    BY <1>0, <1>3, <2>2 DEF ViewportResized, CaptureTypeOK, CaptureHasSource
  <2>. QED BY <1>3, <2>3, QuietKeeps DEF ViewportResized
<1>4. CASE FacesCaptured
  BY <1>4, FacesKeep
<1>5. CASE FacesFail
  BY <1>5, FacesFailKeeps
<1>6. CASE BakeFails \/ LoadingFails \/ CaptureOrphaned
  <2>1. call = Idle /\ RolledBack(capture.backup, capture.added, disk.registered, source)
    BY <1>6 DEF BakeFails, LoadingFails, CaptureOrphaned, InPhase, Abandoned
  <2>2. disk.registered \in BOOLEAN /\ (disk.registered => source # "missing")
    BY WorldParts DEF EditorInvariant, TypeParts, Disk, RegisteredHasSource
  <2>. QED BY <1>0, <2>1, <2>2, RollbackKeeps
<1>7. CASE BakeCompletes
  <2>1. EditorInvariant' /\ call = Idle /\ UNCHANGED <<disk, source>> /\ call' = call
    BY <1>7, BakeKeepsSession DEF BakeCompletes, InPhase, Execute
  <2>2. capture \in Capture /\ capture # NoCapture /\ capture.phase = "baking"
    BY <1>0, <1>7 DEF BakeCompletes, InPhase
  <2>3. capture' \in Capture /\ capture'.added = capture.added /\ capture'.phase = "loading"
    BY <1>7, <2>2 DEF BakeCompletes, Capture
  <2>4. CaptureTypeOK' /\ CaptureHasSource'
    BY <1>0, <2>1, <2>2, <2>3 DEF CaptureTypeOK, CaptureHasSource
  <2>5. RegisteredHasSource' /\ PendingSaveLoadable' /\ SavedReferencesExist'
    BY <2>1 DEF RegisteredHasSource, PendingSaveLoadable, SavedReferencesExist
  <2>. QED BY <2>1, <2>4, <2>5
<1>8. CASE CaptureCompletes
  <2>1. CaptureTypeOK' /\ CaptureHasSource'
    BY <1>0, <1>8 DEF CaptureCompletes, CaptureTypeOK, CaptureHasSource
  <2>. QED BY <1>8, <2>1, QuietKeeps DEF CaptureCompletes
<1>9. CASE RemoveEnvironment
  <2>1. disk \in Disk
    BY WorldParts DEF EditorInvariant, TypeParts
  <2>2. /\ disk' \in Disk /\ disk'.version = disk.version /\ ~disk'.registered
        /\ disk'.doc = disk.doc /\ disk'.pinned = disk.pinned
    BY <1>9, <2>1 DEF RemoveEnvironment, Disk
  <2>3. EditorInvariant'
    BY <1>9, <2>2, CatalogStepKeepsSession DEF RemoveEnvironment
  <2>4. call' = Idle /\ UNCHANGED <<capture, source>>
    BY <1>9 DEF RemoveEnvironment, captureVars
  <2>5. CaptureTypeOK' /\ RegisteredHasSource' /\ CaptureHasSource' /\ PendingSaveLoadable'
    BY <2>2, <2>4 DEF CaptureTypeOK, RegisteredHasSource, CaptureHasSource, PendingSaveLoadable
  <2>6. SavedReferencesExist'
    BY <1>9, <2>2 DEF RemoveEnvironment, EnvironmentRemovable, SavedReferencesExist
  <2>. QED BY <2>3, <2>5, <2>6
<1>10. CASE UNCHANGED vars
  <2>1. UNCHANGED editorVars /\ UNCHANGED <<capture, source>>
    BY <1>10 DEF vars, editorVars
  <2>2. CaptureTypeOK' /\ CaptureHasSource'
    BY <2>1 DEF CaptureTypeOK, CaptureHasSource
  <2>. QED BY <2>1, <2>2, QuietKeeps
<1>. QED BY <1>1, <1>2, <1>3, <1>4, <1>5, <1>6, <1>7, <1>8, <1>9, <1>10
         DEF Next, CaptureFrame

LEMMA InitHasProbe == Init /\ CaptureInit => EditorInvariant /\ CaptureInv
<1>. SUFFICES ASSUME Init, CaptureInit PROVE EditorInvariant /\ CaptureInv
  OBVIOUS
<1>1. EditorInvariant
  BY InitHolds
<1>2. /\ ~disk.registered /\ ~disk.pinned /\ disk.doc = FirstDoc /\ call = Idle
      /\ capture = NoCapture /\ source = "missing"
  BY DEF Init, CaptureInit
<1>3. \A e \in Entity : FirstDoc[e] # "captured"
  BY DEF FirstDoc
<1>. QED BY <1>1, <1>2, <1>3 DEF CaptureInv, CaptureTypeOK, RegisteredHasSource,
         CaptureHasSource, PendingSaveLoadable, SavedReferencesExist

LEMMA CaptureInvHolds == Spec => [](EditorInvariant /\ CaptureInv)
<1>1. Init /\ CaptureInit => EditorInvariant /\ CaptureInv
  BY InitHasProbe
<1>2. EditorInvariant /\ CaptureInv /\ [Next]_vars => (EditorInvariant /\ CaptureInv)'
  BY StepKeepsProbe
<1>. QED BY <1>1, <1>2, PTL DEF Spec

-----------------------------------------------------------------------------
(* The theorems. *)

\* A capture that runs beside the editing, and pushes its own command into the
\* history in the middle of whatever the user does, breaks nothing the session
\* promises; and a registered probe environment has its HDR source on disk
\* whichever step fails (SceneEditorSession::execute from BakeCompletes,
\* EditorController::updateReflectionProbeCapture and its rollback).
THEOREM CapturesKeepTheSession == Spec => []ProbeInvariant
<1>1. EditorInvariant /\ CaptureInv => ProbeInvariant
  BY DEF CaptureInv, ProbeInvariant
<1>. QED BY <1>1, CaptureInvHolds, PTL

\* No scene file on disk references a probe environment the Catalog has lost,
\* however captures fail, saves race them and environments are removed.
THEOREM SavedScenesStayLoadable == Spec => []SavedReferencesExist
<1>1. EditorInvariant /\ CaptureInv => SavedReferencesExist
  BY DEF CaptureInv
<1>. QED BY <1>1, CaptureInvHolds, PTL

=============================================================================
