---------------------------- MODULE FunctionUnit ----------------------------
(***************************************************************************)
(* function_unit of service/src/processing_unit.c: what an execution       *)
(* packet computes and to which destinations, with which tags, it sends    *)
(* the result.  random() is an argument: area is what new_tag_area()       *)
(* returns, rnd the value of a RND instruction or of an uninitialised      *)
(* computation_result.                                                     *)
(***************************************************************************)
EXTENDS MachineTypes, FiniteSetsExt

\* A word as the set of the positions of its one bits, and back.
BitsOf(x) == {i \in 0 .. (DataBits - 1) : (x \div 2 ^ i) % 2 = 1}
WordOf(bits) == MapThenSumSet(LAMBDA i : 2 ^ i, bits)

\* A shift by the width or more is undefined; the hardware of the build masks
\* the count.
ShiftCount(n) == n % DataBits

ComputationResult(p, rnd) ==
    LET a == p.data_1
        b == p.data_2
    IN  CASE p.opcode = "ADD" -> ToWord(Signed(a) + Signed(b))
          [] p.opcode = "SUB" -> ToWord(Signed(a) - Signed(b))
          [] p.opcode = "LT"  -> ToBool(Signed(a) < Signed(b))
          [] p.opcode = "GT"  -> ToBool(Signed(a) > Signed(b))
          [] p.opcode = "GTE" -> ToBool(Signed(a) >= Signed(b))
          [] p.opcode = "LTE" -> ToBool(Signed(a) <= Signed(b))
          [] p.opcode = "EQ"  -> ToBool(a = b)
          [] p.opcode = "NEQ" -> ToBool(a # b)
          [] p.opcode = "NEG" -> ToBool(a = 0)
          [] p.opcode = "MUL" -> ToWord(a * b)
          [] p.opcode = "XOR" -> WordOf((BitsOf(a) \ BitsOf(b)) \cup (BitsOf(b) \ BitsOf(a)))
          [] p.opcode = "AND" -> WordOf(BitsOf(a) \cap BitsOf(b))
          [] p.opcode = "OR"  -> WordOf(BitsOf(a) \cup BitsOf(b))
          [] p.opcode = "SHL" -> ToWord(a * 2 ^ ShiftCount(b))
          [] p.opcode = "SHR" -> a \div 2 ^ ShiftCount(b)
          [] p.opcode \in {"DUP", "MER", "ITG", "SIL"} -> a
          [] p.opcode = "CTG" -> b
          [] p.opcode = "ETG" -> p.tag
          [] OTHER -> rnd

ResultTag(p) ==
    CASE p.opcode = "ITG" -> (p.tag + 1) % TagSpace
      [] p.opcode = "SIL" -> CreateTag(TagToTagArea(p.tag), TagToIterationCount(p.data_2))
      [] p.opcode = "CTG" -> p.data_1
      [] OTHER -> p.tag

\* The tokens send_result puts on the queue, in order.
FunctionUnitResult(p, area, rnd) ==
    CASE p.opcode = "BRR" ->
            << Token(IF p.data_2 # 0 THEN p.destination_1 ELSE p.destination_2,
                     p.data_1, p.tag) >>
      [] p.opcode = "NTG" ->
            << Token(p.destination_1, CreateTag(area, 0), p.tag),
               Token(p.destination_2, p.tag, p.tag) >>
      [] p.opcode = "RTD" ->
            << Token(p.data_2 % DestinationSpace, p.data_1, p.tag) >>
      [] OTHER ->
            LET result == ComputationResult(p, rnd)
                first  == Token(p.destination_1, result, ResultTag(p))
                second == Token(p.destination_2, result, ResultTag(p))
            IN  IF p.marker = BOTH_OUTPUT_MARKER THEN <<first, second>> ELSE <<first>>
=============================================================================
