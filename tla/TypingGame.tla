----------------------------- MODULE TypingGame -----------------------------
(***************************************************************************)
(* The typing game: main_loop of game/src/typing/game.c and the two        *)
(* interrupts that share tick, letter_pressed and the interrupt flag with  *)
(* it.  An interrupt is taken between any two steps of main_loop while the *)
(* flag is set; a stretch of code between cli and sti is one step.         *)
(***************************************************************************)
EXTENDS Letters, FiniteSets

CONSTANTS HZ, FPS, CHARACTER_PER_SECOND, UPDATE_PER_SECOND,
          KeyboardHandled,  \* IRQ 1 has a gate in the IDT, and keyboard_event
                            \* is registered for it
          MaxTick           \* bound: later timer interrupts are not counted

ASSUME GameAssumption ==
  /\ FPS \in Nat \ {0} /\ FPS <= HZ
  /\ CHARACTER_PER_SECOND \in Nat \ {0} /\ CHARACTER_PER_SECOND <= HZ
  /\ UPDATE_PER_SECOND \in Nat \ {0} /\ UPDATE_PER_SECOND <= HZ
  /\ HZ \in Nat /\ HZ >= 2
  /\ KeyboardHandled \in BOOLEAN
  /\ MaxTick \in Nat

VARIABLES pc,        \* where main_loop is
          IF_,       \* the interrupt flag
          tick,      \* timer interrupts so far
          now,       \* timer interrupts the game has caught up with
          target,    \* where it catches up to
          redraw,    \* whether a frame is due
          num_draw,  \* frames since the last half second
          real_fps,
          it,        \* loop variable of update_letter_pos
          pressed    \* letter_pressed

loopVars == <<now, target, redraw, num_draw, real_fps, it>>
vars == <<letterVars, pc, IF_, tick, loopVars, pressed>>

Init == /\ LettersInit
        /\ pc = "hlt" /\ IF_ = TRUE
        /\ tick = 0 /\ now = 0 /\ target = 0
        /\ redraw = FALSE /\ num_draw = 0 /\ real_fps = 0
        /\ it = Null
        /\ pressed = [c \in Text |-> FALSE]

Goto(label) == pc' = label

-----------------------------------------------------------------------------
(* main_loop.                                                              *)

\* wait_intr: the processor sleeps until the next interrupt.
Hlt == /\ pc = "hlt"
       /\ Goto("asleep")
       /\ UNCHANGED <<letterVars, IF_, tick, loopVars, pressed>>

\* From cli to sti: nothing to do, or target = tick.
\* Buggy variant: the last interrupt is left for the next round.
Bug_OneBehind == tick - 1

CatchUpTo == tick

CheckTick ==
  /\ pc = "check"
  /\ \/ /\ now = tick
        /\ Goto("hlt")
        /\ IF_' = TRUE
        /\ UNCHANGED <<target, redraw>>
     \/ /\ now # tick /\ now < tick
        /\ target' = CatchUpTo
        /\ redraw' = FALSE
        /\ IF_' = TRUE
        /\ Goto("keys")
     \/ /\ now # tick /\ ~ (now < tick)        \* assert(now < tick)
        /\ Goto("dead")
        /\ UNCHANGED <<IF_, target, redraw>>
  /\ UNCHANGED <<letterVars, tick, now, num_draw, real_fps, it, pressed>>

\* One call of update_keypress, whose cli opens it.  With a letter to hit it
\* returns without sti, and main_loop calls it again at once.
UpdateKeypress ==
  /\ pc = "keys"
  /\ \/ /\ Targets(pressed) = {}
        /\ IF_' = TRUE
        /\ Goto("frame")
        /\ UNCHANGED <<letterVars, pressed>>
     \/ /\ Targets(pressed) # {}
        /\ IF_' = FALSE
        /\ HitLetter(Target(pressed))
        /\ pressed' = [pressed EXCEPT ![fly[Target(pressed)].text] = FALSE]
        /\ UNCHANGED pc
  /\ UNCHANGED <<tick, loopVars>>

\* Whether something done per times a second is due now.
Due(per) == now % (HZ \div per) = 0

\* Head of the catch-up loop, and create_new_letter when it is due.
Frame ==
  /\ pc = "frame" /\ now < target
  /\ \/ /\ ~ Due(CHARACTER_PER_SECOND)
        /\ Goto("move")
        /\ UNCHANGED <<letterVars, pressed>>
     \/ /\ Due(CHARACTER_PER_SECOND) /\ PoolExhausted
        /\ Goto("dead")
        /\ UNCHANGED <<letterVars, pressed>>
     \/ /\ Due(CHARACTER_PER_SECOND)
        /\ \E v \in Speed, c \in Text :
             /\ AddLetter(v, c)
             /\ pressed' = [pressed EXCEPT ![c] = FALSE]
        /\ Goto("move")
  /\ UNCHANGED <<IF_, tick, loopVars>>

\* update_letter_pos when it is due: the loop over the letters begins.
Move ==
  /\ pc = "move"
  /\ IF Due(UPDATE_PER_SECOND) THEN Goto("letter") /\ it' = head
                               ELSE Goto("step") /\ UNCHANGED it
  /\ UNCHANGED <<letterVars, IF_, tick, now, target, redraw, num_draw,
                 real_fps, pressed>>

Letter ==
  /\ pc = "letter"
  /\ \/ /\ it # Null
        /\ MoveLetter(it)
        /\ it' = fly[it].next
        /\ UNCHANGED pc
     \/ /\ it = Null
        /\ Goto("step")
        /\ UNCHANGED <<letterVars, it>>
  /\ UNCHANGED <<IF_, tick, now, target, redraw, num_draw, real_fps, pressed>>

\* The frame rate shown for the next half second.
\* Buggy variant: it may pass FPS.
Bug_Uncapped == num_draw * 2 + 1

Rate == IF num_draw * 2 + 1 > FPS THEN FPS ELSE num_draw * 2 + 1

\* The rest of the turn: the flag for a redraw, the frame rate, now ++.
\* Buggy variant: the clock jumps to the target.
Bug_SkipAhead == target

NextNow == now + 1

Step ==
  /\ pc = "step"
  /\ redraw' = (redraw \/ Due(FPS))
  /\ IF Due(2)
     THEN real_fps' = Rate /\ num_draw' = 0
     ELSE UNCHANGED <<real_fps, num_draw>>
  /\ now' = NextNow
  /\ Goto("frame")
  /\ UNCHANGED <<letterVars, IF_, tick, target, it, pressed>>

\* The catch-up loop has ended; redraw_screen changes nothing modelled here.
Draw ==
  /\ pc = "frame" /\ ~ (now < target)
  /\ num_draw' = IF redraw THEN num_draw + 1 ELSE num_draw
  /\ Goto("hlt")
  /\ UNCHANGED <<letterVars, IF_, tick, now, target, redraw, real_fps, it, pressed>>

MainLoop == \/ Hlt \/ CheckTick \/ UpdateKeypress
            \/ Frame \/ Move \/ Letter \/ Step \/ Draw

-----------------------------------------------------------------------------
(* Interrupts.                                                             *)

Wake == IF pc = "asleep" THEN Goto("check") ELSE UNCHANGED pc

\* timer_event, called for IRQ 0.
Timer ==
  /\ IF_ /\ pc # "dead"
  /\ tick' = IF tick < MaxTick THEN tick + 1 ELSE tick
  /\ Wake
  /\ UNCHANGED <<letterVars, IF_, loopVars, pressed>>

\* IRQ 1 for key c: keyboard_event, which presses it; with the gate and the
\* handler missing, irq_handle panics on the number irq_empty pushes.
Key(c) ==
  /\ IF_ /\ pc # "dead"
  /\ IF KeyboardHandled
     THEN pressed' = [pressed EXCEPT ![c] = TRUE] /\ Wake
     ELSE pc' = "dead" /\ UNCHANGED pressed
  /\ UNCHANGED <<letterVars, IF_, tick, loopVars>>

Next == MainLoop \/ Timer \/ \E c \in Text : Key(c)

\* The processor executes main_loop unless it sleeps, and the timer interrupt
\* waits in the interrupt controller until the flag is set.
Spec == Init /\ [][Next]_vars /\ WF_vars(MainLoop) /\ SF_vars(Timer)

-----------------------------------------------------------------------------
TypeOK ==
  /\ LettersTypeOK
  /\ pc \in {"hlt", "asleep", "check", "keys", "frame", "move", "letter",
             "step", "dead"}
  /\ IF_ \in BOOLEAN
  /\ tick \in 0 .. MaxTick /\ now \in 0 .. MaxTick /\ target \in 0 .. MaxTick
  /\ redraw \in BOOLEAN /\ num_draw \in Nat /\ real_fps \in 0 .. FPS
  /\ it \in Ptr
  /\ pressed \in [Text -> BOOLEAN]

\* The letters on the screen form a doubly linked list that ends, the rest of
\* the pool is on the free list, and update_letter_pos never follows a freed node
\* (effect.c:50-65 frees the node it stands on).
ListSound ==
  /\ head # Null => fly[head].prev = Null
  /\ \A i \in Flying : fly[i].next # Null => fly[fly[i].next].prev = i
  /\ free_head # Null => /\ Ends(head, links) /\ Ends(free_head, links)
                         /\ Flying \intersect Chain(free_head) = {}
                         /\ Flying \union Chain(free_head) = Node
  /\ it # Null => it \in Flying

\* Every letter created is on the screen, hit or missed: one for each tick
\* that is a multiple of HZ / CHARACTER_PER_SECOND, however late it is
\* processed (game.c:58-60, "the frames missed must be made up for").
EveryLetterCounted ==
  LET started == {t \in 0 .. MaxTick :
                    /\ t % (HZ \div CHARACTER_PER_SECOND) = 0
                    /\ t < now \/ (t = now /\ pc \in {"move", "letter", "step"})}
  IN  pc # "dead" => hit + miss + Cardinality(Flying) = Cardinality(started)

\* No assertion fails: now never passes tick (game.c:49), and the pool always
\* has a node for the next letter (linklist.h:56).
NoAssertFails == pc # "dead"

\* When the pool is large enough: every letter is moved at least once before
\* the next is created, and there are more nodes than moves in the life of a
\* letter, down the screen at the slowest speed and, hit at the bottom, up
\* again (HZ 100, 3 letters and 100 moves a second, 1000 nodes; a letter that
\* falls half a pixel a move makes 384 moves, and 65 when it is hit).
Lifetime(slowest) == Bottom \div slowest + 1 + Bottom \div UpSpeed

PoolLasts ==
  /\ (HZ \div CHARACTER_PER_SECOND) % (HZ \div UPDATE_PER_SECOND) = 0
  /\ \E slowest \in 1 .. UpSpeed :
       Speed \subseteq slowest .. UpSpeed /\ Lifetime(slowest) <= SIZE

\* The game goes on for ever: each timer interrupt is made up for, even when
\* the one that should have woken main_loop came between sti and hlt.
CatchesUp == \A t \in 1 .. MaxTick : tick >= t ~> now >= t
=============================================================================
