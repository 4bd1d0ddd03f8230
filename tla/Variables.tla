----------------------------- MODULE Variables ------------------------------
(***************************************************************************)
(* The game variables (src/src/game_variables.cpp): a vector that grows    *)
(* when an id behind its end is written, whose values are computed in      *)
(* 32 bits and clamped. A range can be written with a constant, with the   *)
(* value of one variable, which may lie in the range itself, with the      *)
(* variable it points to, or with random numbers.                          *)
(***************************************************************************)
EXTENDS Integers, Sequences

CONSTANTS Half,      \* values of Var_t are -Half .. Half - 1
          MinValue,  \* _min
          MaxValue,  \* _max
          MaxId,     \* largest id the game writes (bound of the model)
          Operands,  \* values the game computes with
          Dice       \* the ranges <<low, high>> it draws random numbers from

VariablesAssumption ==
    /\ Half \in Nat /\ MaxId \in Nat
    /\ MinValue \in Int /\ MaxValue \in Int
    /\ MinValue < 0 /\ 0 < MaxValue
    /\ 2 * MaxValue < Half /\ -Half <= 2 * MinValue     \* 9999999 and 2^31
    /\ Operands \subseteq Int
    /\ Dice \subseteq Int \X Int

VARIABLE values   \* _variables

VariableIds == -1..MaxId             \* ids a command may name, invalid ones included
Ops == {"Set", "Add", "Sub", "Mult", "Div", "Mod"}

VariablesTypeOK == values \in Seq(MinValue..MaxValue) /\ Len(values) <= MaxId

VariablesInit == values = <<>>

-----------------------------------------------------------------------------
(* Arithmetic of the program.                                              *)

Wrap_half(n) == ((n + Half \div 2) % Half) - Half \div 2

Wrap(n) == ((n + Half) % (2 * Half)) - Half

\* Division that truncates towards zero.
Abs(n) == IF n < 0 THEN -n ELSE n
Quotient(n, d) ==
    LET q == Abs(n) \div Abs(d) IN IF (n < 0) = (d < 0) THEN q ELSE -q

VarDiv(n, d) == IF d = 0 THEN n ELSE Quotient(n, d)
VarMod(n, d) == IF d = 0 THEN 0 ELSE n - d * Quotient(n, d)

Exact(op, l, r) ==
    CASE op = "Set" -> r
      [] op = "Add" -> l + r
      [] op = "Sub" -> l - r
      [] op = "Mult" -> l * r
      [] op = "Div" -> VarDiv(l, r)
      [] op = "Mod" -> VarMod(l, r)

Compute(op, l, r) == Wrap(Exact(op, l, r))

Clamp_low(n) == IF n > MaxValue THEN MaxValue ELSE n
Clamp(n) == IF n < MinValue THEN MinValue ELSE IF n > MaxValue THEN MaxValue ELSE n

Get(v, id) == IF id \in DOMAIN v THEN v[id] ELSE 0

Grown(v, last) == [i \in 1..(IF last > Len(v) THEN last ELSE Len(v)) |-> Get(v, i)]

\* WriteRange with a value that does not change while the range is written.
WriteRange(v, first, last, op, x) ==
    [i \in DOMAIN v |-> IF i \in first..last THEN Clamp(Compute(op, v[i], x)) ELSE v[i]]

\* The value that a loop reads: that of a variable, or of the one that a pointer points to.
Read(v, id, as) == Get(v, IF as = "pointer" THEN Get(v, id) ELSE id)

\* WriteRange whose value is read again before every write: v after each of its ids.
Written(v, first, last, op, id, as) ==
    LET after[k \in 0..Len(v)] ==
          IF k = 0 THEN v
          ELSE LET w == after[k - 1] IN
               IF k \in first..last
                 THEN [w EXCEPT ![k] = Clamp(Compute(op, w[k], Read(w, id, as)))] ELSE w
    IN after

WriteLoop(v, first, last, op, id, as) == Written(v, first, last, op, id, as)[Len(v)]

-----------------------------------------------------------------------------
\* SetOp: one variable.
SetOp(op, id, x) ==
    /\ id > 0
    /\ values' = WriteRange(Grown(values, id), id, id, op, x)

\* SetRange, AddRange, ...: a range and a constant.
WriteConstant(op, first, last, x) ==
    values' = WriteRange(Grown(values, last), first, last, op, x)

WriteRangeVariable_once(v, first, last, op, id) == WriteRange(v, first, last, op, Get(v, id))

\* SetRangeVariable, ...: a range and the value of one variable. The part of the range up
\* to that variable is written with its old value, the rest with its new one.
WriteRangeVariable(v, first, last, op, id) ==
    IF id \in first..last
      THEN LET w == WriteRange(v, first, id, op, Get(v, id))
           IN WriteRange(w, id + 1, last, op, Get(w, id))
      ELSE WriteRange(v, first, last, op, Get(v, id))

WriteVariable(op, first, last, id) ==
    values' = WriteRangeVariable(Grown(values, last), first, last, op, id)

\* SetRangeVariableIndirect, ...: the variable the variable points to, read anew each time.
WriteIndirect(op, first, last, id) ==
    values' = WriteLoop(Grown(values, last), first, last, op, id, "pointer")

\* SetRangeRandom, ...: a random number for each variable.
WriteRandom(op, first, last, low, high) ==
    LET v == Grown(values, last) IN
    \E random \in [(first..last) \cap DOMAIN v -> low..high] :
        values' = [i \in DOMAIN v |-> IF i \in DOMAIN random
                                        THEN Clamp(Compute(op, v[i], random[i]))
                                        ELSE v[i]]

VariablesNext ==
    \E op \in Ops :
        \/ \E id \in VariableIds, x \in Operands : SetOp(op, id, x)
        \/ \E first \in VariableIds, last \in VariableIds :
             \/ \E x \in Operands : WriteConstant(op, first, last, x)
             \/ \E id \in VariableIds : WriteVariable(op, first, last, id)
             \/ \E id \in VariableIds : WriteIndirect(op, first, last, id)
             \/ \E dice \in Dice : WriteRandom(op, first, last, dice[1], dice[2])

VariablesSpec == VariablesInit /\ [][VariablesNext]_values

-----------------------------------------------------------------------------
(* Properties.                                                             *)

\* Writing a range with one of its own variables does what a loop does that reads the
\* variable before every write: the loop is split where the variable changes, and nowhere
\* else (WriteRangeVariable).
SplitIsALoop ==
    \A op \in Ops, last \in DOMAIN values, first \in VariableIds, id \in VariableIds :
        WriteRangeVariable(values, first, last, op, id) =
            WriteLoop(values, first, last, op, id, "variable")

\* No result is wrong unless it is a product: a sum, a difference or a quotient of two
\* variables is clamped, never wrapped. (A product of two variables may wrap.)
OnlyProductsWrap ==
    \A op \in Ops \ {"Mult"}, i \in DOMAIN values, j \in DOMAIN values :
        Clamp(Compute(op, values[i], values[j])) = Clamp(Exact(op, values[i], values[j]))

\* Both, and the values stay in their range.
VariablesInv == VariablesTypeOK /\ SplitIsALoop /\ OnlyProductsWrap

=============================================================================
