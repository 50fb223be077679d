------------------------------- MODULE Events -------------------------------
(***************************************************************************)
(* The Events of src/src/events.rs: a descriptor and 32 bits of user data  *)
(* packed into the 64-bit epoll_data of an EpollEvent, and unpacked from   *)
(* what epoll_wait returns.                                                *)
(*                                                                         *)
(* Integers have their widths: Half is 2^32, the number of values of a u32 *)
(* and of a RawFd (an i32); a u64 has Half * Half.  The event set travels  *)
(* beside the 64 bits and is not part of the packing.                      *)
(***************************************************************************)
EXTENDS Integers

CONSTANT Half

ASSUME HalfAssumption == Half \in Nat /\ Half > 1 /\ Half % 2 = 0

U32 == 0..(Half - 1)

U64 == 0..(Half * Half - 1)

RawFds == -(Half \div 2)..(Half \div 2 - 1)

(* A descriptor the kernel hands out is never negative. *)
Descriptors == 0..(Half \div 2 - 1)

(* `source as u64`: a RawFd is sign-extended. *)
AsU64(source) == source % (Half * Half)

(* ((data as u64) << 32) + (source as u64).  Where the sum overflows, a    *)
(* build with overflow checks panics and this is the value of the others.  *)
InnerData(source, data) == (data * Half + AsU64(source)) % (Half * Half)

SumOverflows(source, data) == data * Half + AsU64(source) >= Half * Half

(* `inner.data() as RawFd`: the low half, read as an i32. *)
InnerFd(inner) ==
    LET low == inner % Half
    IN  IF low < Half \div 2 THEN low ELSE low - Half

(* `(inner.data() >> 32) as u32` *)
UserData(inner) == inner \div Half

-----------------------------------------------------------------------------
(* Events values.  The constructors take the descriptor of the object that *)
(* is the source, or a RawFd.                                              *)

WithData(source, data, events) == [inner |-> InnerData(source, data), events |-> events]

New(source, events) == WithData(source, 0, events)

Empty(source) == New(source, {})

(* PartialEq compares what is read back, not the inner data. *)
SameEvents(e, f) ==
    /\ InnerFd(e.inner) = InnerFd(f.inner)
    /\ UserData(e.inner) = UserData(f.inner)
    /\ e.events = f.events
=============================================================================
