------------------------------ MODULE PortPool ------------------------------
(***************************************************************************)
(* The in-memory pool of host ports, api/src/utils/port_pool.rs.  The pool *)
(* is one HashSet behind an RwLock; every operation takes the write lock,  *)
(* so each one is a single step.  It keeps no record of who holds a port:  *)
(* `release` removes whatever number it is given.                          *)
(***************************************************************************)
EXTENDS Integers

CONSTANTS
  PortStart,   \* config.port_range_start
  PortEnd      \* config.port_range_end, inclusive

ASSUME PortRangeAssumption ==
  PortStart \in Nat /\ PortEnd \in Nat /\ PortEnd < 65536   \* u16

VARIABLE allocated   \* the set of ports handed out

Ports == PortStart..PortEnd

(* Each definition whose name ends in a fault is that fault: the modules    *)
(* use them only as mutations of the definition they precede.              *)
AllocatePortUnchecked(p) ==
  /\ p \in Ports
  /\ \A q \in Ports : p =< q
  /\ allocated' = allocated \cup {p}

(* The lowest port of the range that is not handed out is handed out.      *)
AllocatePort(p) ==
  /\ p \in Ports \ allocated
  /\ \A q \in Ports \ allocated : p =< q
  /\ allocated' = allocated \cup {p}

(* allocate() fails: "No available ports".                                 *)
Exhausted ==
  /\ Ports \subseteq allocated
  /\ UNCHANGED allocated

ReleasePort(p) == allocated' = allocated \ {p}

LoadAllocatedPastEnd(ports) == allocated' = ports \cup {PortEnd + 1}

(* main() builds a new pool and inserts the ports of the rows it read.     *)
LoadAllocated(ports) == allocated' = ports
=============================================================================
