------------------------------- MODULE Rpihw -------------------------------
(***************************************************************************)
(* Which Raspberry Pi this is: the table of boards and the search for its  *)
(* revision code in /proc/cpuinfo (src/rpi_ws281x/rpihw.c).                *)
(***************************************************************************)
EXTENDS Integers, Sequences

CONSTANTS
  Codes,        (* bound: revision codes that /proc/cpuinfo may show        *)
  Unreadable,   (* a line with no ": ", or a number strtoul refuses         *)
  NoBoard       (* NULL                                                     *)

ASSUME RpihwAssumption ==
  /\ Codes \subseteq Nat
  /\ Unreadable \notin Nat /\ NoBoard \notin Nat

(* The hwver of the boards, by type.                                       *)
RPI_HWVER_TYPE_PI1 ==
  (2 .. 9) \cup (13 .. 21)
    \cup {\h900032, \h900092, \h900093, \h920093, \h9200c1, \h9000c1}
RPI_HWVER_TYPE_PI2 ==
  {\ha01041, \ha01040, \ha21041, \ha22042, \ha02082, \ha22082, \ha020a0}
rpi_hw_info == RPI_HWVER_TYPE_PI1 \cup RPI_HWVER_TYPE_PI2

(* A code without its manufacturer (four bits) and warranty (two bits).    *)
field(v, unit, values) == ((v \div unit) % values) * unit
unmasked(v)            == v - field(v, \h10000, 16) - field(v, \h1000000, 4)

boards == {unmasked(h) : h \in rpi_hw_info}

(* A line of /proc/cpuinfo that is about the revision, or is not.          *)
Lines    == [revision : BOOLEAN, code : Codes \cup {Unreadable}]
CpuInfos == UNION {[1 .. n -> Lines] : n \in 0 .. 2}

(* A line that cannot be read, or shows a code of no known board, does not *)
(* end the search.  Boards that differ in masked bits only are alike, and  *)
(* the unmasked bits stand for them.                                       *)
identifies(l) == l.revision /\ l.code # Unreadable /\ unmasked(l.code) \in boards

rpi_hw_detect(cpuinfo) ==
  LET found == {i \in DOMAIN cpuinfo : identifies(cpuinfo[i])}
  IN  IF found = {} THEN NoBoard
      ELSE unmasked(cpuinfo[CHOOSE i \in found : \A k \in found : i <= k].code)
=============================================================================
