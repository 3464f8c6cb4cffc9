------------------------------ MODULE Terminal ------------------------------
(***************************************************************************)
(* Keyboard input of terminal.cpp: the pushback ring, macros, typeahead,   *)
(* and the reading of one command or line.                                 *)
(*                                                                         *)
(* A character is its key and its 0200 bit.  Keys that come out of a macro *)
(* carry the bit (push_string XORs it in) and are not looked up again,     *)
(* unless the definition itself gives it to them.  hide_pending's mark is  *)
(* the bit alone.  The caller's prompts are one action, Prompt; what the   *)
(* caller does with a command is outside, but for the commands and marks   *)
(* it pushes back.                                                         *)
(***************************************************************************)
EXTENDS SequencesExt, FiniteSetsExt, Integers

CONSTANTS Keys,       \* keys a user types
          Nul, Enter, Rubout,
          Top, Nodes, \* keymaps; Top is s_top_map
          Map,        \* Nodes -> a key, or Nul -> an entry
          Pushed,     \* strings callers push
          Starts,     \* start commands pushed behind hide_pending's mark
          PushSize,   \* PUSH_SIZE
          Loop,       \* expansions before "macro loop?", 20 in the source
          BuffLimit,  \* s_buff_limit
          MaxTyped    \* bound: keys typed and not yet read

Char == [key : Keys \cup {Nul}, hi : BOOLEAN]
Plain(k) == [key |-> k, hi |-> FALSE]
Mark == [key |-> Nul, hi |-> TRUE]
Nothing == [key |-> Nul, hi |-> FALSE]

Entry == [type : {"nothing"}] \cup [type : {"map"}, to : Nodes]
         \cup [type : {"string"}, str : Seq(Char)]

ASSUME TerminalAssumption ==
  /\ {Enter, Rubout} \subseteq Keys /\ Nul \notin Keys
  /\ Top \in Nodes /\ Map \in [Nodes -> [Keys \cup {Nul} -> Entry]]
  /\ Pushed \subseteq Seq(Char) /\ Starts \subseteq Seq(Char)
  /\ PushSize \in Nat \ {0, 1} /\ Loop \in Nat /\ MaxTyped \in Nat

VARIABLES ring, out,  \* circle_buf and next_out; next_in stays 0
          typed,      \* keys at the terminal, not yet read
          hidden,     \* s_not_echoing: 0, 1 or 2
          gotAChar,   \* s_got_a_char
          pc,         \* what is being read
          curmap,     \* the keymap get_cmd_into stands in, Top elsewhere
          times,      \* its loop detector
          expanding,  \* the definition push_string is about to push
          line,       \* the line finish_command is reading
          saved,      \* what finish_dbl_char will restore, -1 outside it
          command,    \* the command last returned
          got,        \* the character the last step took from the ring
          full        \* "pushback buffer overflow": the program ends

ringVars == <<ring, out, full>>
cmdVars == <<curmap, times, expanding>>
lineVars == <<line, saved>>
terminalVars == <<ring, out, typed, hidden, gotAChar, pc, curmap, times, expanding,
          line, saved, command, got, full>>

-----------------------------------------------------------------------------
(* InputPushback.                                                          *)

Stacked == [i \in 1 .. (0 - out) % PushSize |-> ring[(out + i - 1) % PushSize]]

Empty == out = 0

Head1 == ring[out]

\* Mutant: a string is pushed from its first character on.
PushedForward(str) == Reverse(str)

(* push for each character of a string, the last one first.                *)
PushOrder(str) == str

PushAll(str) ==
  LET q == PushOrder(str)
      room == PushSize - 1 - Len(Stacked)
      to == (out - Len(q)) % PushSize
  IN IF Len(q) > room
     THEN full' = TRUE /\ UNCHANGED <<ring, out>>
     ELSE /\ out' = to
          /\ ring' = [i \in DOMAIN ring |->
                        LET at == (i - to) % PushSize
                        IN IF at < Len(q) THEN q[at + 1] ELSE ring[i]]
          /\ UNCHANGED full

TakeOne == out' = (out + 1) % PushSize /\ UNCHANGED <<ring, full>>

Cleared == out' = 0 /\ UNCHANGED <<ring, full>>

(* finput_pending: a mark at the front is looked at before anything is     *)
(* read; while something is hidden it ends the hiding, and within a line   *)
(* it becomes the newline that ends it.                                    *)
AtMark == ~Empty /\ Head1 = Mark /\ hidden > 0

DropMark ==
  /\ pc \in {"idle", "command", "line", "settled"} /\ AtMark
  /\ hidden' = 0
  /\ IF hidden = 1 THEN TakeOne
     ELSE ring' = [ring EXCEPT ![out] = Plain(Enter)] /\ UNCHANGED <<out, full>>
  /\ got' = Nothing
  /\ UNCHANGED <<typed, gotAChar, pc, cmdVars, lineVars, command>>

(* read_tty: the ring first, then the terminal.                            *)
Read(c) ==
  /\ ~AtMark
  /\ \/ ~Empty /\ c = Head1 /\ TakeOne /\ got' = c
        /\ UNCHANGED <<typed, gotAChar>>
     \/ Empty /\ typed # <<>> /\ c = Plain(Head(typed))
        /\ typed' = Tail(typed) /\ gotAChar' = TRUE /\ got' = Nothing
        /\ UNCHANGED ringVars

-----------------------------------------------------------------------------
(* eat_typeahead.                                                          *)

(* The keys are looked up one by one; keys that end nowhere in the keymaps *)
(* are dropped, and what is left when the terminal has no more goes back.  *)
(* The key looked up is typeahead.front(), the first of those kept.        *)
Sift ==
  LET Met(s, entry, i) ==
        IF entry.type = "map" THEN [kept |-> s.kept, map |-> entry.to]
        ELSE [kept |-> i, map |-> Top]
      sift[i \in 0 .. Len(typed)] ==
        IF i = 0 THEN [kept |-> 0, map |-> Top]
        ELSE Met(sift[i - 1], Map[sift[i - 1].map][typed[sift[i - 1].kept + 1]], i)
  IN sift[Len(typed)]

EatTypeahead ==
  /\ gotAChar /\ Empty
  /\ gotAChar' = (typed # <<>>)
  /\ typed' = <<>>
  /\ \E kept \in 0 .. Len(typed) :
       /\ kept = Sift.kept
       /\ PushAll([i \in 1 .. Len(typed) - kept |-> Plain(typed[kept + i])])

(* Not twice without a key in between, not while something is pushed, not  *)
(* within 0.3 seconds of the last time.                                    *)
KeepTypeahead == gotAChar' \in {gotAChar, FALSE} /\ UNCHANGED <<typed, ringVars>>

-----------------------------------------------------------------------------
TerminalInit ==
  /\ ring = [i \in 0 .. PushSize - 1 |-> Nothing] /\ out = 0 /\ full = FALSE
  /\ typed = <<>> /\ hidden = 0 /\ gotAChar = FALSE
  /\ pc = "idle" /\ curmap = Top /\ times = 0 /\ expanding = <<>>
  /\ line = <<>> /\ saved = -1 /\ command = <<>> /\ got = Nothing

Type(k) ==
  /\ Len(typed) < MaxTyped
  /\ typed' = Append(typed, k) /\ got' = Nothing
  /\ UNCHANGED <<ringVars, hidden, gotAChar, pc, cmdVars, lineVars, command>>

(* A caller pushes a key back, or a group's start command behind its mark. *)
PushBack(str) ==
  /\ pc = "idle" /\ PushAll(str) /\ got' = Nothing
  /\ UNCHANGED <<typed, hidden, gotAChar, pc, cmdVars, lineVars, command>>

StartCommand(str) ==
  /\ pc = "idle" /\ hidden' = 1
  /\ PushAll(Append(str, Mark)) /\ got' = Nothing
  /\ UNCHANGED <<typed, gotAChar, pc, cmdVars, lineVars, command>>

(* A prompt: in_char, in_answer, pause_get_cmd and the loops' own.         *)
Prompt ==
  /\ pc = "idle" /\ pc' = "command" /\ command' = <<>> /\ got' = Nothing
  /\ EatTypeahead \/ KeepTypeahead
  /\ times' = 0 /\ curmap' = Top
  /\ UNCHANGED <<hidden, expanding, lineVars>>

(* get_cmd_into: one turn of its loop.                                     *)
Canonical(c) == c.hi \/ (Map[curmap][c.key].type = "nothing" /\ curmap = Top)

GetCommand(c) ==
  /\ pc = "command" /\ Read(c) /\ Canonical(c)
  /\ command' = <<c.key>> /\ pc' = "got"
  /\ curmap' = Top
  /\ UNCHANGED <<hidden, times, expanding, lineVars>>

EnterKeymap(c) ==
  /\ pc = "command" /\ Read(c) /\ ~c.hi
  /\ Map[curmap][c.key].type = "map" /\ curmap' = Map[curmap][c.key].to
  /\ UNCHANGED <<hidden, pc, times, expanding, lineVars, command>>

MeetMacro(c) ==
  /\ pc = "command" /\ Read(c) /\ ~c.hi
  /\ Map[curmap][c.key].type = "string"
  /\ expanding' = Map[curmap][c.key].str
  /\ pc' = "expand" /\ curmap' = Top
  /\ UNCHANGED <<hidden, times, lineVars, command>>

(* A key sequence that is in no keymap: settle_down.                       *)
Unmapped(c) ==
  /\ pc = "command" /\ Read(c) /\ ~c.hi
  /\ Map[curmap][c.key].type = "nothing" /\ curmap # Top
  /\ pc' = "settle" /\ curmap' = Top
  /\ UNCHANGED <<hidden, times, expanding, lineVars, command>>

Turned(c) == [c EXCEPT !.hi = ~@]

\* Mutant: expansions are counted but never too many.
ExpandOn ==
  /\ pc = "expand"
  /\ PushAll([i \in DOMAIN expanding |-> Turned(expanding[i])])
  /\ expanding' = <<>> /\ got' = Nothing
  /\ times' = IF times > Loop THEN times ELSE times + 1
  /\ pc' = "command"
  /\ UNCHANGED <<typed, hidden, gotAChar, curmap, lineVars, command>>

Expand ==
  /\ pc = "expand"
  /\ PushAll([i \in DOMAIN expanding |-> Turned(expanding[i])])
  /\ expanding' = <<>> /\ got' = Nothing
  /\ times' = IF times > Loop THEN times ELSE times + 1
  /\ pc' = IF times' > Loop THEN "settle" ELSE "command"
  /\ UNCHANGED <<typed, hidden, gotAChar, curmap, lineVars, command>>

SettleDown ==
  /\ pc = "settle" /\ pc' = "settled"
  /\ Cleared /\ hidden' = 0 /\ got' = Nothing
  /\ UNCHANGED <<typed, gotAChar, cmdVars, lineVars, command>>

Settled ==
  /\ pc = "settled" /\ pc' = "command" /\ got' = Nothing
  /\ EatTypeahead \/ KeepTypeahead
  /\ UNCHANGED <<hidden, cmdVars, lineVars, command>>

(* The caller takes the command as it is, or has it finished: by a line,   *)
(* or by a second key (finish_dbl_char).                                   *)
Complete ==
  /\ pc = "got" /\ pc' = "idle" /\ got' = Nothing
  /\ UNCHANGED <<typed, ringVars, hidden, gotAChar, cmdVars, lineVars, command>>

FinishCommand(dbl) ==
  /\ pc = "got" /\ pc' = "line" /\ got' = Nothing
  /\ line' = command /\ saved' = IF dbl THEN hidden ELSE -1
  /\ hidden' = IF hidden > 0 THEN 2 ELSE 0
  /\ UNCHANGED <<typed, ringVars, gotAChar, cmdVars, command>>

Limit == IF saved >= 0 THEN 2 ELSE BuffLimit

(* finish_command_text: edit_buffer takes the last key typed, then the     *)
(* next one is read, without macros, and its bit is dropped.               *)
Edited == IF Last(line) = Rubout THEN SubSeq(line, 1, Len(line) - 2) ELSE line

Done(result) ==
  /\ pc' = "idle" /\ command' = result /\ line' = <<>> /\ saved' = -1
  /\ hidden' = IF saved >= 0 THEN saved ELSE hidden

LineEnds ==
  /\ pc = "line" /\ (Edited = <<>> \/ Len(Edited) = Limit)
  /\ Done(Edited) /\ got' = Nothing
  /\ UNCHANGED <<typed, ringVars, gotAChar, cmdVars>>

LineKey(c) ==
  /\ pc = "line" /\ Edited # <<>> /\ Len(Edited) < Limit /\ Read(c)
  /\ IF c.key = Enter THEN Done(Edited)
     ELSE line' = Append(Edited, c.key) /\ UNCHANGED <<pc, hidden, saved, command>>
  /\ UNCHANGED cmdVars

TerminalNext ==
  /\ ~full
  /\ \/ \E k \in Keys : Type(k)
     \/ \E str \in Pushed : PushBack(str)
     \/ \E str \in Starts : StartCommand(str)
     \/ Prompt \/ DropMark \/ Expand \/ SettleDown \/ Settled \/ Complete
     \/ \E dbl \in BOOLEAN : FinishCommand(dbl)
     \/ \E c \in Char : \/ GetCommand(c) \/ EnterKeymap(c) \/ MeetMacro(c)
                        \/ Unmapped(c) \/ LineKey(c)
     \/ LineEnds

(* A program that reads commands goes on reading while there is something  *)
(* to read: the loop of get_cmd_into has no other exit.                    *)
Reading ==
  ~full /\ (\/ DropMark \/ Expand \/ SettleDown \/ Settled
            \/ \E c \in Char : \/ GetCommand(c) \/ EnterKeymap(c) \/ MeetMacro(c)
                               \/ Unmapped(c))

TerminalSpec == TerminalInit /\ [][TerminalNext]_terminalVars
ReadsOn == WF_terminalVars(Reading)

-----------------------------------------------------------------------------
(* Properties.                                                             *)

(* Types; the ring's position stays within circle_buf, and what is about   *)
(* to be pushed is a definition of the keymaps.                            *)
Defined(str) ==
  \E n \in Nodes, k \in Keys \cup {Nul} : Map[n][k] = [type |-> "string", str |-> str]
RingOK ==
  /\ ring \in [0 .. PushSize - 1 -> Char] /\ out \in 0 .. PushSize - 1
  /\ typed \in Seq(Keys) /\ Len(typed) <= MaxTyped
  /\ curmap \in Nodes
  /\ pc = "expand" => Defined(expanding)

(* The ring behaves as a stack of strings: a macro, a start command and a  *)
(* partial key sequence are read in their order, before what was pushed    *)
(* earlier, each character once, until settle_down throws all of it away.  *)
Definitions ==
  {[i \in DOMAIN e.str |-> Turned(e.str[i])] :
     e \in {Map[n][k] : n \in Nodes, k \in Keys \cup {Nul}} \cap [type : {"string"}, str : Seq(Char)]}

Strings ==
  Pushed \cup {Append(str, Mark) : str \in Starts} \cup Definitions
  \cup UNION {{[i \in 1 .. n |-> Plain(q[i])] : q \in [1 .. n -> Keys]} : n \in 0 .. MaxTyped}

Stack == INSTANCE KeyStack
           WITH Enter <- Plain(Enter), Room <- PushSize - 1, pending <- Stacked

RingIsAStack == Stack!Spec

(* Macros that lead to themselves do not keep get_cmd from coming back to  *)
(* the user: a command comes of it, or everything pushed has been read or  *)
(* thrown away.                                                            *)
MacroLoopEnds == (pc = "command") ~> (pc = "got" \/ Empty \/ full)

=============================================================================
