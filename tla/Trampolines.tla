---------------------------- MODULE Trampolines ----------------------------
(***************************************************************************)
(* The assembly of the forwarding shim (gl-fwd.c), for the five            *)
(* architectures it has: what a call of an entry point does to registers   *)
(* and stack on its way through a trampoline, which jumps through the slot *)
(* with its index in a scratch register, and through glfwd_resolve_asm,    *)
(* which a slot holds until its name is resolved: it saves what an         *)
(* argument can arrive in, calls glfwd_resolve_one, restores and jumps.    *)
(*                                                                         *)
(* A register is named for its part in the calling convention: Gpr(k) and  *)
(* Fpr(k) are the k-th integer and floating-point argument register.  A    *)
(* program is a straight line; storing or loading several registers in     *)
(* consecutive places is one operation.                                    *)
(***************************************************************************)
EXTENDS Integers, Sequences, SequencesExt

Archs == {"x86_64", "aarch64", "riscv64", "loongarch64", "ppc64"}

Gpr(k) == <<"int", k>>
Fpr(k) == <<"flt", k>>
Gprs(a, b) == [k \in 1..b - a + 1 |-> Gpr(a + k - 1)]
Fprs(a, b) == [k \in 1..b - a + 1 |-> Fpr(a + k - 1)]
SP == <<"sp", 0>>          \* the stack pointer
FP == <<"fp", 0>>          \* rbp, x29
LR == <<"lr", 0>>          \* the return address, where it is in a register
Rax == <<"rax", 0>>        \* the number of vector arguments; the result
Chain == <<"chain", 0>>    \* r10, r11: the static chain; x8: where a struct goes
Ctr == <<"ctr", 0>>
Scratch(k) == <<"scratch", k>>

\* What a register or a stack cell may hold: what the register held at the
\* call, what the caller's frame has there, an address on the stack, the index
\* of the entry point, the content of its slot, the resolver's answer.
Was(r) == <<"was", r>>
Callers(c) == <<"caller", c>>
At(n) == <<"at", n>>
Index == <<"index", 0>>
Slot == <<"slot", 0>>
Resolved == <<"answer", 0>>
Zero == <<"zero", 0>>
Junk == <<"junk", 0>>
-----------------------------------------------------------------------------
(***************************************************************************)
(* Operations.                                                             *)
(***************************************************************************)
Store(rs, at, width) == [do |-> "store", regs |-> rs, at |-> at, width |-> width]
Fetch(rs, at, width) == [do |-> "fetch", regs |-> rs, at |-> at, width |-> width]
AddSp(n) == [do |-> "add", n |-> n]
AlignSp == [do |-> "align"]
Move(d, s) == [do |-> "move", to |-> d, from |-> s]
Put(d, v) == [do |-> "put", to |-> d, value |-> v]
Call == [do |-> "call"]
Jump(r) == [do |-> "jump", reg |-> r]

\* The conventions: the registers a callee may look at, the others the code
\* uses, the first argument and the result, how far above its caller's stack
\* pointer a callee may write, and the stack pointer at a call modulo 16 (the
\* x86-64 code does not rely on it).
Args(arch) ==
  CASE arch = "x86_64" -> {Gpr(k) : k \in 1..6} \cup {Fpr(k) : k \in 0..7} \cup {Rax, Chain}
    [] arch = "aarch64" -> {Gpr(k) : k \in 0..7} \cup {Fpr(k) : k \in 0..7} \cup {Chain}
    [] arch = "ppc64" -> {Gpr(k) : k \in 3..10} \cup {Fpr(k) : k \in 1..13} \cup {Chain}
    [] OTHER -> {Gpr(k) : k \in 0..7} \cup {Fpr(k) : k \in 0..7}
Scratches == {Scratch(k) : k \in {0, 1, 2, 11, 12, 16, 17}} \cup {Ctr}
First(arch) == CASE arch = "x86_64" -> Gpr(1) [] arch = "ppc64" -> Gpr(3) [] OTHER -> Gpr(0)
Result(arch) == IF arch = "x86_64" THEN Rax ELSE First(arch)
CalleeArea(arch) == IF arch = "ppc64" THEN 96 ELSE 0
EntrySp(arch) == IF arch = "x86_64" THEN {0, 8} ELSE {0}
Regs(arch) == Args(arch) \cup Scratches \cup {SP, FP, LR}

Cells == {8 * k : k \in -40..8}
InitialState(arch, sp) ==
  [reg |-> [r \in Regs(arch) |-> IF r = SP THEN At(sp) ELSE Was(r)],
   mem |-> [c \in Cells |-> IF c >= sp THEN Callers(c) ELSE Junk],
   pc |-> Junk, told |-> Junk, faulted |-> FALSE]

Sp(m) == m.reg[SP][2]
High(v) == <<"high", v>>

\* Register number j of a block at address a.
Cell(a, op, j) == a + op.at + (j - 1) * op.width

Stored(m, op) ==
  LET a == Sp(m)
      low == {Cell(a, op, j) : j \in DOMAIN op.regs}
      which(c) == CHOOSE j \in DOMAIN op.regs : c - Cell(a, op, j) \in 0..op.width - 8
  IN [m EXCEPT
        !.mem = [c \in Cells |-> IF c \in low THEN m.reg[op.regs[which(c)]]
                                 ELSE IF op.width = 16 /\ c - 8 \in low
                                      THEN High(m.reg[op.regs[which(c)]]) ELSE m.mem[c]],
        !.faulted = @ \/ (op.width = 16 /\ (a + op.at) % 16 # 0)]

Fetched(m, op) ==
  LET a == Sp(m)
      at(r) == Cell(a, op, CHOOSE j \in DOMAIN op.regs : op.regs[j] = r)
  IN [m EXCEPT !.reg = [r \in DOMAIN m.reg |->
        IF r \notin Range(op.regs) THEN m.reg[r]
        ELSE IF op.width = 16 /\ m.mem[at(r) + 8] # High(m.mem[at(r)]) THEN Junk
        ELSE m.mem[at(r)]]]

\* The C resolver: whatever it is not bound to keep may change, below its
\* caller's stack pointer and in the area that is its own above it.
Called(arch, m) ==
  [m EXCEPT !.reg = [r \in DOMAIN m.reg |-> IF r = Result(arch) THEN Resolved
                                            ELSE IF r \in {SP, FP} THEN m.reg[r] ELSE Junk],
            !.mem = [c \in Cells |-> IF c < Sp(m) + CalleeArea(arch) THEN Junk ELSE m.mem[c]],
            !.told = m.reg[First(arch)],
            !.faulted = @ \/ Sp(m) % 16 # 0]

Exec(arch, m, op) ==
  CASE op.do = "store" -> Stored(m, op)
    [] op.do = "fetch" -> Fetched(m, op)
    [] op.do = "add" -> [m EXCEPT !.reg[SP] = At(@[2] + op.n)]
    [] op.do = "align" -> [m EXCEPT !.reg[SP] = At(@[2] - (@[2] % 16))]
    [] op.do = "move" -> [m EXCEPT !.reg[op.to] = m.reg[op.from]]
    [] op.do = "put" -> [m EXCEPT !.reg[op.to] = op.value]
    [] op.do = "call" -> Called(arch, m)
    [] op.do = "jump" -> [m EXCEPT !.pc = m.reg[op.reg]]

Run(arch, program, sp) ==
  FoldLeft(LAMBDA m, op : Exec(arch, m, op), InitialState(arch, sp), program)
-----------------------------------------------------------------------------
(***************************************************************************)
(* The code.  A trampoline (GLFWD_TRAMPOLINE), the resolver it may find in *)
(* its slot (glfwd_resolve_asm), the stub of an absent name (glfwd_absent).*)
(***************************************************************************)
\* x86-64 jumps through memory: here Ctr is no register of its own.
Trampoline_x86_64 == <<Put(Scratch(11), Index), Put(Ctr, Slot), Jump(Ctr)>>
Resolve_x86_64 ==
  <<AddSp(-8), Store(<<FP>>, 0, 8), Move(FP, SP), AlignSp, AddSp(-192),
    Store(<<Rax>> \o Gprs(1, 6) \o <<Chain>>, 0, 8), Store(Fprs(0, 7), 64, 16),
    Move(Gpr(1), Scratch(11)), Call, Move(Scratch(11), Rax),
    Fetch(Fprs(0, 7), 64, 16), Fetch(<<Rax>> \o Gprs(1, 6) \o <<Chain>>, 0, 8),
    Move(SP, FP), Fetch(<<FP>>, 0, 8), AddSp(8), Jump(Scratch(11))>>

Trampoline_aarch64 == <<Put(Scratch(17), Index), Put(Scratch(16), Slot), Jump(Scratch(16))>>
Resolve_aarch64 ==
  <<AddSp(-16), Store(<<FP, LR>>, 0, 8), Move(FP, SP), AddSp(-208),
    Store(Fprs(0, 7), 0, 16), Store(Gprs(0, 7), 128, 8), Store(<<Chain>>, 192, 8),
    Move(Gpr(0), Scratch(17)), Call, Move(Scratch(16), Gpr(0)),
    Fetch(Fprs(0, 7), 0, 16), Fetch(Gprs(0, 7), 128, 8), Fetch(<<Chain>>, 192, 8),
    AddSp(208), Fetch(<<FP, LR>>, 0, 8), AddSp(16), Jump(Scratch(16))>>

Trampoline_riscv64 == <<Put(Scratch(1), Index), Put(Scratch(0), Slot), Jump(Scratch(0))>>
Resolve_riscv64 ==
  <<AddSp(-144), Store(<<LR>>, 136, 8), Store(Fprs(0, 7), 0, 8), Store(Gprs(0, 7), 64, 8),
    Move(Gpr(0), Scratch(1)), Call, Move(Scratch(0), Gpr(0)),
    Fetch(Fprs(0, 7), 0, 8), Fetch(Gprs(0, 7), 64, 8), Fetch(<<LR>>, 136, 8),
    AddSp(144), Jump(Scratch(0))>>

\* The slot's address is the table's and the index scaled, in t2.
Trampoline_loongarch64 ==
  <<Put(Scratch(1), Index), Put(Scratch(2), Junk), Put(Scratch(0), Slot), Jump(Scratch(0))>>
Resolve_loongarch64 ==
  <<AddSp(-144), Store(<<LR>>, 128, 8), Store(Fprs(0, 7), 0, 8), Store(Gprs(0, 7), 64, 8),
    Move(Gpr(0), Scratch(1)), Call, Move(Scratch(0), Gpr(0)),
    Fetch(Fprs(0, 7), 0, 8), Fetch(Gprs(0, 7), 64, 8), Fetch(<<LR>>, 128, 8),
    AddSp(144), Jump(Scratch(0))>>

Trampoline_ppc64 ==
  <<Put(Scratch(0), Index), Put(Scratch(12), Slot), Move(Ctr, Scratch(12)), Jump(Ctr)>>

Resolve_ppc64_LinkFirst ==
  <<AddSp(-288), Store(<<Gpr(3)>>, 96, 8), Move(Scratch(0), LR), Store(<<Scratch(0)>>, 272, 8),
    Move(Gpr(3), Scratch(0)),
    Store(Gprs(4, 10), 104, 8), Store(Fprs(1, 13), 160, 8), Store(<<Chain>>, 264, 8),
    Call, Move(Scratch(12), Gpr(3)), Move(Ctr, Gpr(3)),
    Fetch(<<Chain>>, 264, 8), Fetch(Fprs(1, 13), 160, 8), Fetch(Gprs(3, 10), 96, 8),
    Fetch(<<Scratch(0)>>, 272, 8), Move(LR, Scratch(0)), AddSp(288), Jump(Ctr)>>

Resolve_ppc64 ==
  <<AddSp(-288), Store(<<Gpr(3)>>, 96, 8), Move(Gpr(3), Scratch(0)),
    Move(Scratch(0), LR), Store(<<Scratch(0)>>, 272, 8),
    Store(Gprs(4, 10), 104, 8), Store(Fprs(1, 13), 160, 8), Store(<<Chain>>, 264, 8),
    Call, Move(Scratch(12), Gpr(3)), Move(Ctr, Gpr(3)),
    Fetch(<<Chain>>, 264, 8), Fetch(Fprs(1, 13), 160, 8), Fetch(Gprs(3, 10), 96, 8),
    Fetch(<<Scratch(0)>>, 272, 8), Move(LR, Scratch(0)), AddSp(288), Jump(Ctr)>>

\* Zero in both return registers; ppc64 has no move between the two files.
AbsentCode(arch) ==
  IF arch = "ppc64"
  THEN <<AddSp(-16), Put(Scratch(0), Zero), Store(<<Scratch(0)>>, 0, 8),
         Fetch(<<Fpr(1)>>, 0, 8), Put(Gpr(3), Zero), AddSp(16)>>
  ELSE <<Put(Result(arch), Zero), Put(Fpr(0), Zero)>>

TrampolineCode(arch) == CASE arch = "x86_64" -> Trampoline_x86_64
                      [] arch = "aarch64" -> Trampoline_aarch64
                      [] arch = "riscv64" -> Trampoline_riscv64
                      [] arch = "loongarch64" -> Trampoline_loongarch64
                      [] arch = "ppc64" -> Trampoline_ppc64
ResolverCode(arch) == CASE arch = "x86_64" -> Resolve_x86_64
                    [] arch = "aarch64" -> Resolve_aarch64
                    [] arch = "riscv64" -> Resolve_riscv64
                    [] arch = "loongarch64" -> Resolve_loongarch64
                    [] arch = "ppc64" -> Resolve_ppc64
-----------------------------------------------------------------------------
\* Whoever is jumped to sees the call as it was made: arguments, return address
\* and frame; and, on ppc64, its own address in r12, from which it finds its
\* data.
AsCalled(arch, m, sp) ==
  /\ \A r \in Args(arch) \cup {FP} : m.reg[r] = Was(r)
  /\ arch = "x86_64" \/ m.reg[LR] = Was(LR)
  /\ m.reg[SP] = At(sp)
  /\ \A c \in Cells : c >= sp => m.mem[c] = Callers(c)
  /\ arch = "ppc64" => m.reg[Scratch(12)] = m.pc
  /\ ~m.faulted

\* A call through a slot that holds an address arrives there as it was made.
ThroughSlot ==
  \A arch \in Archs : \A sp \in EntrySp(arch) :
    LET jump == Run(arch, TrampolineCode(arch), sp)
    IN AsCalled(arch, jump, sp) /\ jump.pc = Slot

\* One through a slot that holds the resolver arrives as it was made at what the
\* resolver answers, which was asked for the entry point called.
ThroughResolver ==
  \A arch \in Archs : \A sp \in EntrySp(arch) :
    LET resolve == Run(arch, TrampolineCode(arch) \o ResolverCode(arch), sp)
    IN AsCalled(arch, resolve, sp) /\ resolve.pc = Resolved /\ resolve.told = Index

\* One through a slot that holds the stub returns to its caller with a zero of
\* either kind.
ThroughAbsent ==
  \A arch \in Archs : \A sp \in EntrySp(arch) :
    LET absent == Run(arch, TrampolineCode(arch) \o AbsentCode(arch), sp)
    IN /\ absent.reg[SP] = At(sp) /\ absent.reg[LR] = Was(LR)
       /\ absent.reg[Result(arch)] = Zero
       /\ absent.reg[Fpr(IF arch = "ppc64" THEN 1 ELSE 0)] = Zero
=============================================================================
