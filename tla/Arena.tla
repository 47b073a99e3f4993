------------------------------- MODULE Arena -------------------------------
(****************************************************************************)
(* The arena every string, token and command of a line lives in: a chain of *)
(* blocks of one capacity, filled from the front, none of it given back     *)
(* before the whole chain is.  arena_alloc() returns a place in the first   *)
(* block that has room, or in a new block at the end of the chain.          *)
(*                                                                          *)
(* The frame arena is modelled, which shell_begin_frame() makes for a line  *)
(* and shell_end_frame() frees; the arena of the shell itself is one that   *)
(* is never freed.                                                          *)
(****************************************************************************)
EXTENDS Integers, Sequences, FiniteSets

CONSTANTS
    Capacity,       \* ARENA_CAP
    Sizes,          \* sizes that are asked for
    MaxBlocks       \* calloc() fails when the chain is this long

ASSUME ArenaAssumption ==
    /\ Capacity \in Nat \ { 0 }
    /\ Sizes \subseteq Nat \ { 0 }
    /\ MaxBlocks \in Nat

VARIABLES
    chain,          \* the cursor of each block, << >> without a frame
    live,           \* the places handed out: block, offset and size
    answer          \* the last place handed out, none for NULL

vars == << chain, live, answer >>

Place == [block : Nat \ { 0 }, at : Nat, size : Sizes]

\* Mutant: a block has room if the place starts in it.
StartsIn(b, size) == chain[b] < Capacity

HasRoom(b, size) == chain[b] + size <= Capacity

Init ==
    /\ chain = << >>
    /\ live = {}
    /\ answer = {}

\* shell_begin_frame(): what is left of a frame is freed first.
BeginFrame ==
    /\ MaxBlocks > 0
    /\ chain' = << 0 >>
    /\ live' = {}
    /\ answer' = {}

\* shell_end_frame(), arena_free(); or a shell_begin_frame() whose arena_init()
\* fails: sh_work_arena() then falls back on the arena of the shell.
EndFrame ==
    /\ chain' = << >>
    /\ live' = {}
    /\ answer' = {}

\* The place a request gets in block b, whose cursor was at c.
Give(b, c, size) ==
    /\ answer' = { [block |-> b, at |-> c, size |-> size] }
    /\ live' = live \cup answer'

\* The first block with room.
AllocInBlock(size) ==
    \E b \in DOMAIN chain :
        /\ HasRoom(b, size)
        /\ \A a \in 1 .. b - 1 : ~HasRoom(a, size)
        /\ Give(b, chain[b], size)
        /\ chain' = [chain EXCEPT ![b] = @ + size]

\* No block has room: the chain grows.
AllocInNewBlock(size) ==
    /\ chain # << >>
    /\ size <= Capacity
    /\ \A b \in DOMAIN chain : ~HasRoom(b, size)
    /\ Len(chain) < MaxBlocks
    /\ Give(Len(chain) + 1, 0, size)
    /\ chain' = Append(chain, size)

\* The request is larger than a block, or calloc() fails.
AllocFails(size) ==
    /\ chain # << >>
    /\ \/ size > Capacity
       \/ /\ \A b \in DOMAIN chain : ~HasRoom(b, size)
          /\ Len(chain) >= MaxBlocks
    /\ answer' = {}
    /\ UNCHANGED << chain, live >>

Next ==
    \/ BeginFrame \/ EndFrame
    \/ \E size \in Sizes :
         AllocInBlock(size) \/ AllocInNewBlock(size) \/ AllocFails(size)

Spec == Init /\ [][Next]_vars

-----------------------------------------------------------------------------
(* What the code promises.                                                  *)

\* Types; a frame has at least one block and never more than MaxBlocks.
TypeOK ==
    /\ chain \in Seq(Nat) /\ Len(chain) <= MaxBlocks
    /\ live \subseteq Place
    /\ answer \subseteq live

Overlap(p, q) ==
    /\ p.block = q.block
    /\ p.at < q.at + q.size
    /\ q.at < p.at + p.size

\* Nothing that is handed out shares a byte with anything else handed out in
\* the same frame, and all of it lies before the cursor of its block, which
\* lies within the block (arena_alloc()).  Every string and every structure of
\* the parser relies on it.
PlacesApart ==
    /\ \A b \in DOMAIN chain : chain[b] <= Capacity
    /\ \A p \in live :
         p.block \in DOMAIN chain /\ p.at + p.size <= chain[p.block]
    /\ \A p, q \in live : p # q => ~Overlap(p, q)

\* Every answer but NULL is a place that was not in use.
Fresh ==
    [][\A p \in live', new \in answer' :
          p \in live /\ answer' # answer => ~Overlap(p, new)]_vars
=============================================================================
