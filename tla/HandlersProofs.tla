--------------------------- MODULE HandlersProofs ---------------------------
(***************************************************************************)
(* Lemmas about the data of Handlers and Store, for all four resources.    *)
(***************************************************************************)
EXTENDS Handlers, TLAPS

USE HandlersAssumptions, NoRowAssumption

\* A new row is a row.
LEMMA NewRowType ==
  ASSUME NEW s \in Statuses, NEW f \in Fields
  PROVE  NewRow(s, f) \in Row
  BY DEF NewRow, Row

\* What a request of each kind carries.
LEMMA InputType ==
  ASSUME NEW users, NEW codes, NEW versions,
         NEW q \in Inputs(users, codes, versions)
  PROVE  /\ q.op \in AllOperations
         /\ q.user \in users
         /\ q.code \in codes
         /\ q.op \in {"create", "update"} => q.fields \in Fields
         /\ q.op \in {"update", "transition"} => q.expected \in versions
         /\ q.op = "transition" => q.target \in Targets
  BY DEF Inputs, AllOperations

\* A client's input is one of a known user, on a known code.
LEMMA ClientInput ==
  ASSUME NEW c \in Codes, NEW versions, versions \subseteq Nat \ {0},
         NEW q \in Inputs(Callers, {c}, versions)
  PROVE  q \in Inputs(Users, Codes, Nat \ {0})
  BY DEF Inputs

\* Two columns of a row replaced.
LEMMA EditedType ==
  ASSUME NEW row \in Row, NEW f \in Fields, NEW v \in Nat \ {0}
  PROVE  /\ Edited(row, f, v) \in Row
         /\ Edited(row, f, v).version = v
         /\ Edited(row, f, v).fields = f
         /\ Edited(row, f, v).status = row.status
         /\ Edited(row, f, v).deleted = row.deleted
<1> DEFINE edited == [row EXCEPT !.fields = f]
<1>1. edited \in Row
  BY DEF Row
<1>2. [edited EXCEPT !.version = v] \in Row
  BY <1>1 DEF Row
<1>3. Edited(row, f, v) = [edited EXCEPT !.version = v]
  BY DEF Edited
<1> QED
  BY <1>2, <1>3 DEF Edited, Row

LEMMA MovedType ==
  ASSUME NEW row \in Row, NEW s \in Statuses, NEW v \in Nat \ {0}
  PROVE  /\ Moved(row, s, v) \in Row
         /\ Moved(row, s, v).version = v
         /\ Moved(row, s, v).status = s
         /\ Moved(row, s, v).fields = row.fields
         /\ Moved(row, s, v).deleted = row.deleted
<1> DEFINE moved == [row EXCEPT !.status = s]
<1>1. moved \in Row
  BY DEF Row
<1>2. [moved EXCEPT !.version = v] \in Row
  BY <1>1 DEF Row
<1>3. Moved(row, s, v) = [moved EXCEPT !.version = v]
  BY DEF Moved
<1> QED
  BY <1>2, <1>3 DEF Moved, Row

=============================================================================
