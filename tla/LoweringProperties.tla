------------------------- MODULE LoweringProperties -------------------------
(***************************************************************************)
(* When the instructions of the Pass are a parallel form of the loop nest: *)
(* they make each of its calls once, and nothing they leave to the runtime *)
(* can overtake what it uses.  This is said of the instructions alone; the *)
(* module CompiledCholeskyProperties runs them.                            *)
(***************************************************************************)
EXTENDS PassLowering

Blocks(m) == m.n \div m.b

\* A call of the factorisation, by what it does in coordinates of tiles: in a
\* panel it writes the tile at (row, col).
Place(m) ==
    {t \in [panel : 0 .. Blocks(m) - 1, col : 0 .. Blocks(m) - 1, row : 0 .. Blocks(m) - 1] :
        t.panel <= t.col /\ t.col <= t.row}

CallAt(m, t) ==
    IF t.panel = t.row THEN CholeskyCall(m.n, t.panel * m.b)
    ELSE IF t.panel = t.col THEN TrsmCall(m.n, t.panel * m.b, t.row * m.b)
    ELSE MaddCall(m.n, t.panel * m.b, t.col * m.b, t.row * m.b)

CallsAt(m, places) == {CallAt(m, t) : t \in places}

\* The calls of a panel come in three ranks.
Rank(t) ==
    3 * t.panel + (IF t.panel = t.row THEN 0 ELSE IF t.panel = t.col THEN 1 ELSE 2)

\* The calls whose results a call uses: the one that wrote its tile in the panel
\* before, and those that wrote its other operands in its own panel.
Sources(m, t) ==
    {s \in Place(m) :
        \/ s.panel = t.panel - 1 /\ s.col = t.col /\ s.row = t.row
        \/ s # t /\ s.panel = t.panel /\ s.col = t.panel /\ s.row \in {t.row, t.col}}

-----------------------------------------------------------------------------
(* Programs: sequences of instructions. *)

CallsIn(instruction) ==
    CASE instruction.kind = "call" -> <<instruction.call>>
      [] instruction.kind = "submit" -> instruction.calls
      [] OTHER -> <<>>

\* The program makes each of these calls once, and no others.
Makes(program, calls) ==
    /\ \A p \in DOMAIN program : \A i \in DOMAIN CallsIn(program[p]) :
            CallsIn(program[p])[i] \in calls
    /\ \A call \in calls : \E p \in DOMAIN program : \E i \in DOMAIN CallsIn(program[p]) :
            CallsIn(program[p])[i] = call
    /\ \A p1, p2 \in DOMAIN program :
            \A i1 \in DOMAIN CallsIn(program[p1]), i2 \in DOMAIN CallsIn(program[p2]) :
                CallsIn(program[p1])[i1] = CallsIn(program[p2])[i2] => p1 = p2 /\ i1 = i2

Writes(instruction, key) == instruction.kind = "submit" /\ instruction.output = key

\* The submission at w is the last one before p that writes the key.
LastWriter(program, key, p, w) ==
    /\ w \in 1 .. p - 1
    /\ Writes(program[w], key)
    /\ \A q \in w + 1 .. p - 1 : ~Writes(program[q], key)

\* When the instruction at p begins, or the task it submits, everything that the
\* instruction at w stands for is done: it is a call of the submitting thread, or
\* a wait or a key covers it.
Precedes(program, w, p) ==
    /\ w \in 1 .. p - 1
    /\ \/ program[w].kind = "call"
       \/ \E q \in w + 1 .. p - 1 : program[q].kind = "wait"
       \/ \E q \in w + 1 .. p - 1 :
            program[q].kind = "wait_key" /\ LastWriter(program, program[q].key, q, w)
       \/ /\ program[p].kind = "submit"
          /\ \E key \in program[p].deps : LastWriter(program, key, p, w)

\* No call can overtake one whose result it uses.
SourcesPrecede(m, program) ==
    \A t \in Place(m) : \A s \in Sources(m, t) :
        \A p, w \in DOMAIN program :
            /\ CallAt(m, t) \in ToSet(CallsIn(program[p]))
            /\ CallAt(m, s) \in ToSet(CallsIn(program[w]))
            => Precedes(program, w, p)

Conflict(calls1, calls2) ==
    \E c1 \in ToSet(calls1), c2 \in ToSet(calls2) :
        Output(c1) \in Operands(c2) \/ Output(c2) \in Operands(c1)

\* What the submissions tell the runtime: their keys are keys of tiles, a key one
\* lists and another writes is a reason to order them, and all have keys or none.
KeysAreSound(m, program) ==
    LET keys == 0 .. Blocks(m) * Blocks(m) - 1
        submits == {p \in DOMAIN program : program[p].kind = "submit"}
    IN /\ \A p \in submits :
            /\ program[p].deps \subseteq keys
            /\ program[p].output \in keys \cup {NoKey}
       /\ \A p \in DOMAIN program : program[p].kind = "wait_key" => program[p].key \in keys
       /\ \A p, w \in submits :
            /\ program[w].output \in program[p].deps
                    => Conflict(program[p].calls, program[w].calls)
            /\ program[w].output = NoKey <=> program[p].output = NoKey

\* The upper triangle is cleared, behind every call and a wait for every task, and
\* then the program returns.
EndsInOrder(program) ==
    \E zero \in DOMAIN program :
        /\ program[zero].kind = "zero"
        /\ \A p \in 1 .. zero - 1 : program[p].kind \in {"call", "submit", "wait", "wait_key"}
        /\ \A p \in 1 .. zero - 1 :
                program[p].kind = "submit" => \E q \in p + 1 .. zero - 1 : program[q].kind = "wait"
        /\ zero < Len(program)
        /\ \A p \in zero + 1 .. Len(program) - 1 : program[p].kind = "wait"
        /\ program[Len(program)].kind = "return"

\* A sequence of instructions, of which no submission is of nothing.
IsSequence(s) == Len(s) \in Nat \ {0} /\ DOMAIN s = 1 .. Len(s)

WellFormed(program) ==
    /\ IsSequence(program)
    /\ \A p \in DOMAIN program :
            program[p].kind = "submit" => IsSequence(program[p].calls)

Sound(m, program) ==
    /\ WellFormed(program)
    /\ Makes(program, CallsAt(m, Place(m)))
    /\ SourcesPrecede(m, program)
    /\ KeysAreSound(m, program)
    /\ EndsInOrder(program)
=============================================================================
