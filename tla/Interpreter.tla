---------------------------- MODULE Interpreter -----------------------------
(***************************************************************************)
(* The frames of an event interpreter and the commands that move within    *)
(* them (src/src/game_interpreter.cpp). A list of commands is flat; what   *)
(* belongs to a branch is told by its indentation and by the subcommand    *)
(* index that the branch has left at its indentation. Positions count from *)
(* 1; the one after the last command means that the frame is finished.     *)
(***************************************************************************)
EXTENDS Integers, Sequences, FiniteSetsExt, SequencesExt

CONSTANTS Code,      \* list -> its commands
          MaxIndent  \* bound on the indentation of the commands in Code

Sentinel == 255              \* subcommand_sentinel
ElseBranch == 1              \* eOptionBranchElse
ThenBranch == 2              \* history only: the other arm of a conditional branch

Indents == 0..MaxIndent

\* The editor closes every loop it opens and indents what is inside.
LoopStart(l, i) ==
    {j \in 1 .. i : /\ Code[l][j].code = "Loop" /\ Code[l][j].indent = Code[l][i].indent
                    /\ \A k \in j .. i : Code[l][k].indent >= Code[l][i].indent}

\* Push: a frame at the first command of a list. took is history: the arm of each branch
\* that the last decision there has chosen.
NewFrame(list, event) ==
    [list |-> list, pc |-> 1, event |-> event, path |-> [i \in Indents |-> Sentinel],
     took |-> [i \in DOMAIN Code[list] |-> Sentinel]]

IsFrame(f) ==
    /\ DOMAIN f = {"list", "pc", "event", "path", "took"}
    /\ f.list \in DOMAIN Code
    /\ f.pc \in 1..Len(Code[f.list]) + 1
    /\ DOMAIN f.path = Indents /\ DOMAIN f.took = DOMAIN Code[f.list]

CommandAt(f) == Code[f.list][f.pc]
Finished(f) == f.pc > Len(Code[f.list])

First(f, S) == IF S = {} THEN Len(Code[f.list]) + 1 ELSE Min(S)

-----------------------------------------------------------------------------
\* The first one further in is taken as well.
SkipToNextConditional_any(f, codes, indent) ==
    First(f, {i \in f.pc + 1 .. Len(Code[f.list]) : Code[f.list][i].code \in codes})

\* SkipToNextConditional: the next of the commands named that is not further in.
SkipToNextConditional(f, codes, indent) ==
    First(f, {i \in f.pc + 1 .. Len(Code[f.list]) :
                 Code[f.list][i].indent <= indent /\ Code[f.list][i].code \in codes})

\* CommandOptionGeneric: the option that was chosen is entered, and the index cleared so
\* that the options after it are not.
Option(f, chosen, next) ==
    LET c == CommandAt(f) IN
    IF f.path[c.indent] = chosen
      THEN [f EXCEPT !.pc = @ + 1, !.path[c.indent] = Sentinel]
      ELSE [f EXCEPT !.pc = SkipToNextConditional(f, next, c.indent)]

\* CommandConditionalBranch.
ConditionalBranch(f, holds) ==
    LET c == CommandAt(f)
        to == IF holds THEN f.pc + 1
                       ELSE SkipToNextConditional(f, {"ElseBranch", "EndBranch"}, c.indent)
    IN [f EXCEPT !.pc = to,
                 !.path[c.indent] = IF holds THEN Sentinel ELSE ElseBranch,
                 !.took[f.pc] = IF holds THEN ThenBranch ELSE ElseBranch]

\* CommandJumpToLabel: the first label of that number, or on to the next command.
LabelAt(l, i) ==
    LET labels == {k \in DOMAIN Code[l] : Code[l][k].code = "Label" /\ Code[l][k].arg = Code[l][i].arg}
    IN IF labels = {} THEN i + 1 ELSE Min(labels)
JumpToLabel(f) == [f EXCEPT !.pc = LabelAt(f.list, @)]

\* CommandBreakLoop: past the next EndLoop, whatever its indentation.
AfterLoop(l, i) ==
    LET ends == {k \in i + 1 .. Len(Code[l]) : Code[l][k].code = "EndLoop"}
    IN IF ends = {} THEN Len(Code[l]) + 1 ELSE Min(ends) + 1
BreakLoop(f) == [f EXCEPT !.pc = AfterLoop(f.list, @)]

\* CommandEndLoop: back to the command after the Loop. Between two commands of a loop
\* without any in between it stays where it is, and the caller moves on.
LoopAgain(l, i) ==
    LET start == Max(LoopStart(l, i)) + 1
    IN IF start = i THEN i + 1 ELSE start
EndLoop(f) == [f EXCEPT !.pc = LoopAgain(f.list, @)]

EndEventProcessing_past(f) == [f EXCEPT !.pc = First(f, {}) + 1]

\* CommandEndEventProcessing.
EndEventProcessing(f) == [f EXCEPT !.pc = First(f, {})]

-----------------------------------------------------------------------------
\* The commands that only move, and those that do nothing here.
Movement(f, holds) ==
    LET c == CommandAt(f) IN
    CASE c.code = "ConditionalBranch" -> ConditionalBranch(f, holds)
      [] c.code = "ElseBranch" -> Option(f, ElseBranch, {"EndBranch"})
      [] c.code = "ShowChoiceOption" ->
             Option(f, c.arg, {"ShowChoiceOption", "ShowChoiceEnd"})
      [] c.code = "JumpToLabel" -> JumpToLabel(f)
      [] c.code = "BreakLoop" -> BreakLoop(f)
      [] c.code = "EndLoop" -> EndLoop(f)
      [] c.code = "EndEventProcessing" -> EndEventProcessing(f)
      [] OTHER -> [f EXCEPT !.pc = @ + 1]

-----------------------------------------------------------------------------
(* What a reader of the list takes its structure to be.                    *)

\* The branch or choice that the command at i of l is inside, one level up, and its arm.
Decisions == {"ConditionalBranch", "ShowChoice"}
Options == {"ElseBranch", "ShowChoiceOption"}
Heads == Options \cup {"ConditionalBranch"}
Above(l, i) ==
    {j \in 1 .. i - 1 : /\ Code[l][j].code \in Heads
                        /\ Code[l][j].indent < Code[l][i].indent
                        /\ \A k \in j + 1 .. i : Code[l][k].indent > Code[l][j].indent}

\* Where the decision for the arm that starts at j was made.
DecisionsFor(l, j) ==
    {k \in 1 .. j - 1 : Code[l][k].indent = Code[l][j].indent /\ Code[l][k].code \in Decisions}
DecidedAt(l, j) == IF Code[l][j].code = "ConditionalBranch" THEN j ELSE Max(DecisionsFor(l, j))

Arm(l, j) ==
    CASE Code[l][j].code = "ConditionalBranch" -> ThenBranch
      [] Code[l][j].code = "ElseBranch" -> ElseBranch
      [] OTHER -> Code[l][j].arg

\* The options still ahead at i of what was decided before it.
OptionsAhead(l, i) ==
    {j \in i .. Len(Code[l]) : Code[l][j].code \in Options /\ DecidedAt(l, j) < i}

\* What the editor writes: an arm is further in than its head, and the next option or the end
\* follows it; between a decision and its options nothing is further out; every loop that is
\* closed was opened. Jumps do not lead into arms or choices.
Closing(code) ==
    CASE code = "ConditionalBranch" -> {"ElseBranch", "EndBranch"}
      [] code = "ElseBranch" -> {"EndBranch"}
      [] OTHER -> {"ShowChoiceOption", "ShowChoiceEnd"}
WellFormedHead(l, i) ==
    \A k \in i + 1 .. Len(Code[l]) :
        /\ Code[l][k].indent <= Code[l][i].indent
        /\ \A m \in i + 1 .. k - 1 : Code[l][m].indent > Code[l][i].indent
        => Code[l][k].code \in Closing(Code[l][i].code)
WellFormedOption(l, i) ==
    /\ DecisionsFor(l, i) # {} /\ Arm(l, i) # Sentinel
    /\ \A k \in DecidedAt(l, i) .. i : Code[l][k].indent >= Code[l][i].indent
StaysInside(l, i, to) ==
    to <= Len(Code[l]) => Above(l, to) \subseteq Above(l, i) /\ OptionsAhead(l, to) \subseteq OptionsAhead(l, i)

InterpreterAssumption ==
    /\ MaxIndent \in Nat
    /\ \A l \in DOMAIN Code :
          /\ Code[l] \in Seq(Range(Code[l]))
          /\ \A i \in DOMAIN Code[l] :
                LET code == Code[l][i].code IN
                /\ Code[l][i].indent \in Indents
                /\ code \in Heads => WellFormedHead(l, i)
                /\ code \in Options => WellFormedOption(l, i)
                /\ code = "EndLoop" => LoopStart(l, i) # {} /\ StaysInside(l, i, LoopAgain(l, i))
                /\ code = "JumpToLabel" => StaysInside(l, i, LabelAt(l, i))
                /\ code = "BreakLoop" => StaysInside(l, i, AfterLoop(l, i))

\* Every arm around the command at pc is the one its last decision chose.
InChosenArms(f) ==
    ~Finished(f) =>
        \A j \in Above(f.list, f.pc) : f.took[DecidedAt(f.list, j)] = Arm(f.list, j)

=============================================================================
