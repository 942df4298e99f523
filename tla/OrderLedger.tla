---------------------------- MODULE OrderLedger ----------------------------
(***************************************************************************)
(* What placing orders promises, with no connection, lock or retry in      *)
(* sight: a key buys one order, in one step, and takes a use of each offer *)
(* on it only while that offer has one left, for everyone and for that     *)
(* customer.  A customer is told of an order only once it exists.  A use   *)
(* may come back; an order never goes.                                     *)
(***************************************************************************)
EXTENDS Integers, FiniteSets

CONSTANTS Keys, Offers, Users,
          UserOf,       \* [Keys -> Users]
          TotalLimit,   \* [Offers -> Nat]: uses for everyone together
          UserLimit     \* [Offers -> Nat]: uses for one customer

VARIABLES placed,       \* keys whose order exists
          uses,         \* <<key, offer>>: the use the key's order holds
          told          \* keys whose customer was told so

ledgerVars == <<placed, uses, told>>

Holders(c) == {k \in Keys : <<k, c>> \in uses}
HoldersOf(c, u) == {k \in Holders(c) : UserOf[k] = u}

\* A use is left for customer u.
Left(c, u) ==
  /\ Cardinality(Holders(c)) < TotalLimit[c]
  /\ Cardinality(HoldersOf(c, u)) < UserLimit[c]

LedgerInit == placed = {} /\ uses = {} /\ told = {}

Place(k, S) ==
  /\ k \notin placed
  /\ \A c \in S : Left(c, UserOf[k])
  /\ placed' = placed \cup {k}
  /\ uses' = uses \cup ({k} \X S)
  /\ UNCHANGED told

Release(S) ==
  /\ uses' = uses \ S
  /\ UNCHANGED <<placed, told>>

Tell(k) ==
  /\ k \in placed
  /\ told' = told \cup {k}
  /\ UNCHANGED <<placed, uses>>

LedgerNext ==
  \/ \E k \in Keys, S \in SUBSET Offers : Place(k, S)
  \/ \E S \in SUBSET uses : Release(S)
  \/ \E k \in Keys : Tell(k)

LedgerSpec == LedgerInit /\ [][LedgerNext]_ledgerVars
=============================================================================
