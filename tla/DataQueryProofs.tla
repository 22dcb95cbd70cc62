-------------------------- MODULE DataQueryProofs ----------------------------
(***************************************************************************)
(* The properties of DataQuery that its run checks, for all tables, REALs, *)
(* parameters and precisions, and any number of changes of the table.      *)
(*                                                                         *)
(* The argument.  What a handler knows when it sends its query is kept by  *)
(* changes of the table (Prepared): a clause is there exactly when the     *)
(* look-up found both columns and the request has all bounds, and its      *)
(* numbers are within half a unit of the parameters (RoundedNear).  The    *)
(* rows of an answer are among those that the clause finds in the table,   *)
(* and all of them unless a cast has failed (Answered).  The cast to REAL  *)
(* keeps the order of numbers (RealsInOrder), so that it carries a bound   *)
(* over to the coordinate that is sent.  When the table has not changed    *)
(* since a handler's look-up, its status is a function of request and      *)
(* table but for a cast that failed (Fresh), so the handlers agree.        *)
(***************************************************************************)
EXTENDS DataQuery, TLAPS, WellFoundedInduction

Columns == {"x", "y"}

NeedsBounds(h) == HasBounds /\ Columns \subseteq cols[h]

Prepared(h) ==
  /\ pc[h] = "lookup" => cols[h] = {}
  /\ pc[h] \in {"lookup", "build"} => clause[h] = NoBounds
  /\ pc[h] # "done" => answer[h] = NoAnswer
  /\ Bounded(h) => /\ NeedsBounds(h)
                   /\ \A p \in Bounds : params[p] # Bad
                   /\ clause[h] = [p \in Bounds |-> Rounded(params[p])]
  /\ pc[h] = "send" => (NeedsBounds(h) <=> Bounded(h))

\* What the handler's query finds in table t, and what its casts take of it.
Cast(h, t) == {r \in Found(h, t) : h = "binary" => r.casts}

RowsSent(h, t) == {Selected(h, r) : r \in Cast(h, t)}

Answered(h) ==
  /\ answer[h].status # 200 => answer[h].rows = {}
  /\ answer[h].status = 200 =>
       /\ pc[h] = "done"
       /\ NeedsBounds(h) <=> Bounded(h)
       /\ Bounded(h) => \A p \in Bounds : clause[h][p] # NotFinite
       /\ answer[h].rows \subseteq RowsSent(h, queried[h])
       /\ ~answer[h].failed => /\ answer[h].rows = RowsSent(h, queried[h])
                               /\ Cast(h, queried[h]) = Found(h, queried[h])
       /\ answer[h].failed => Cast(h, queried[h]) # Found(h, queried[h])

\* A cast has failed before the status was sent.
CastRefused(h) ==
  /\ answer[h].status = 500
  /\ NeedsBounds(h) <=> Bounded(h)
  /\ Cast(h, table) # Found(h, table)

\* The status that request and table ask for.
StatusNow ==
  IF LookupFails THEN 500
  ELSE IF ~(HasBounds /\ Columns \subseteq table.columns) THEN 200
  ELSE IF \E p \in Bounds : params[p] = Bad THEN 400
  ELSE IF \E p \in Bounds : params[p] = NotFinite THEN 500 ELSE 200

Fresh(h) ==
  (asked[h] = changes /\ pc[h] # "lookup") =>
    /\ cols[h] = IF LookupFails THEN {} ELSE table.columns
    /\ (h = "binary" /\ LookupFails) => pc[h] = "done"
    /\ pc[h] = "done" => answer[h].status = StatusNow \/ (StatusNow = 200 /\ CastRefused(h))
    /\ answer[h].status = 200 => queried[h] = table

\* The parts of TypeOK that the argument needs, in a form that needs no sets of
\* functions.
Shapes ==
  /\ DOMAIN params \subseteq Bounds /\ WellTyped(params)
  /\ table \in Tables \cup {NoTable}
  /\ changes \in Nat
  /\ pc \in [Handlers -> {"lookup", "build", "send", "done"}]
  /\ cols \in [Handlers -> SUBSET Columns]
  /\ DOMAIN clause = Handlers /\ DOMAIN answer = Handlers
  /\ asked \in [Handlers -> 0..changes]
  /\ queried \in [Handlers -> Tables \cup {NoTable}]

IInv == Shapes /\ \A h \in Handlers : Prepared(h) /\ Answered(h) /\ Fresh(h)

\* std::to_string is within half a millionth of what it prints.
LEMMA RoundedNear ==
  ASSUME NEW v \in Int
  PROVE  /\ Rounded(v) \in Int
         /\ v - Half <= Rounded(v) /\ Rounded(v) <= v + Half
         /\ Half \in Nat
  <1> DEFINE q == v \div Unit
             r == v - q * Unit
  <1>1. Unit \in Nat \ {0} /\ v # NotFinite
    BY QueryAssumption
  <1>2. q \in Int /\ 0 <= r /\ r < Unit /\ r \in Int
    BY <1>1
  <1>3. (q + 1) * Unit = q * Unit + Unit /\ q * Unit \in Int
    BY <1>1, <1>2
  <1>4. Rounded(v) = IF 2 * r > Unit \/ (2 * r = Unit /\ q % 2 = 1) THEN (q + 1) * Unit ELSE q * Unit
    BY <1>1 DEF Rounded
  <1> HIDE DEF q
  <1>5. 2 * (Rounded(v) - v) <= Unit /\ 2 * (v - Rounded(v)) <= Unit /\ Rounded(v) \in Int
    BY <1>1, <1>2, <1>3, <1>4
  <1> HIDE DEF r
  <1> QED BY <1>1, <1>5 DEF Half

\* A set of numbers has a least one.
LEMMA HasLeast ==
  ASSUME NEW S \in SUBSET Nat, S # {}
  PROVE  \E x \in S : \A y \in S : x <= y
  <1>1. PICK R : IsWellFoundedOn(R, Nat) /\ (\A x, y \in Nat : y < x => <<y, x>> \in R)
    <2>1. \A x, y \in Nat : y < x => <<y, x>> \in OpToRel(<, Nat)
      BY DEF OpToRel
    <2> QED
      BY <2>1, NatLessThanWellFounded
  <1>2. PICK x \in S : \A y \in S : ~(<<y, x>> \in R)
    BY <1>1, WFMin
  <1>3. \A y \in S : x <= y
    <2> TAKE y \in S
    <2>1. x \in Nat /\ y \in Nat /\ ~(y < x)
      BY <1>1, <1>2
    <2> QED
      BY <2>1
  <1> QED
    BY <1>3

\* There is a nearest REAL.
LEMMA NearestReal ==
  ASSUME NEW v \in Int
  PROVE  /\ AsReal(v) \in Reals /\ AsReal(v) \in Int
         /\ \A s \in Reals : Distance(v, AsReal(v)) <= Distance(v, s)
  <1>1. Reals \subseteq Int /\ Reals # {}
    BY QueryAssumption
  <1> DEFINE D == {Distance(v, r) : r \in Reals}
  <1>2. D \in SUBSET Nat /\ D # {}
    <2>1. \A r \in Reals : Distance(v, r) \in Nat
      BY <1>1 DEF Distance
    <2> QED
      BY <1>1, <2>1
  <1>3. PICK d \in D : \A e \in D : d <= e
    BY <1>2, HasLeast
  <1>4. PICK r \in Reals : \A s \in Reals : Distance(v, r) <= Distance(v, s)
    BY <1>3
  <1> QED
    BY <1>1, <1>4 DEF AsReal

\* The cast leaves a REAL as it is.
LEMMA RealStays ==
  ASSUME NEW v \in Reals
  PROVE  AsReal(v) = v
  <1>1. v \in Int
    BY QueryAssumption
  <1>2. AsReal(v) \in Int /\ Distance(v, AsReal(v)) <= Distance(v, v)
    BY <1>1, NearestReal
  <1> QED
    BY <1>1, <1>2 DEF Distance

\* The cast keeps the order of numbers.
LEMMA RealsInOrder ==
  ASSUME NEW v \in Int, NEW w \in Int, v <= w
  PROVE  AsReal(v) <= AsReal(w)
  <1>1. /\ AsReal(v) \in Int /\ AsReal(w) \in Int
        /\ Distance(v, AsReal(v)) <= Distance(v, AsReal(w))
        /\ Distance(w, AsReal(w)) <= Distance(w, AsReal(v))
    BY NearestReal
  <1>2. v = w => AsReal(v) = AsReal(w)
    OBVIOUS
  <1> QED
    BY <1>1, <1>2 DEF Distance

\* A coordinate that passes a printed lower bound b of m is not clearly below m when
\* it has been cast.
LEMMA LowerBound ==
  ASSUME NEW t, NEW c, NEW v \in Int, c \in t.floats => v \in Reals,
         NEW m \in Int, NEW b \in Int, Half \in Nat, m - Half <= b, b <= m + Half
  PROVE  Compared(t, c, b) <= v => ~Below(AsReal(v), m)
  <1>1. /\ AsReal(v) \in Int /\ AsReal(b) \in Int /\ AsReal(m - Half) \in Int
        /\ AsReal(m - Half) <= AsReal(b)
        /\ b <= v => AsReal(b) <= AsReal(v)
    BY NearestReal, RealsInOrder
  <1>2. CASE c \in t.floats
    BY <1>1, <1>2, RealStays DEF Compared, Below
  <1>3. CASE c \notin t.floats
    BY <1>1, <1>3 DEF Compared, Below
  <1> QED
    BY <1>2, <1>3

\* The same of an upper bound.
LEMMA UpperBound ==
  ASSUME NEW t, NEW c, NEW v \in Int, c \in t.floats => v \in Reals,
         NEW m \in Int, NEW b \in Int, Half \in Nat, m - Half <= b, b <= m + Half
  PROVE  v <= Compared(t, c, b) => ~Above(AsReal(v), m)
  <1>1. /\ AsReal(v) \in Int /\ AsReal(b) \in Int /\ AsReal(m + Half) \in Int
        /\ AsReal(b) <= AsReal(m + Half)
        /\ v <= b => AsReal(v) <= AsReal(b)
    BY NearestReal, RealsInOrder
  <1>2. CASE c \in t.floats
    BY <1>1, <1>2, RealStays DEF Compared, Above
  <1>3. CASE c \notin t.floats
    BY <1>1, <1>3 DEF Compared, Above
  <1> QED
    BY <1>2, <1>3

LEMMA InitInv == Init => IInv
  <1> SUFFICES ASSUME Init PROVE IInv OBVIOUS
  <1>1. DOMAIN params \subseteq Bounds /\ WellTyped(params)
    BY DEF Init, Params
  <1>2. Shapes
    BY <1>1 DEF Init, Shapes, Columns
  <1>3. ASSUME NEW h \in Handlers PROVE Prepared(h) /\ Answered(h) /\ Fresh(h)
    BY <1>3 DEF Init, Prepared, Answered, Fresh, Bounded, NoAnswer
  <1> QED BY <1>2, <1>3 DEF IInv

LEMMA TableFacts ==
  ASSUME NEW t \in Tables \cup {NoTable}
  PROVE  /\ t.columns \subseteq Columns
         /\ \A r \in t.rows :
              /\ r.x \in Int \cup {Null} /\ r.y \in Int \cup {Null}
              /\ "x" \in t.floats => r.x \in Reals \cup {Null}
              /\ "y" \in t.floats => r.y \in Reals \cup {Null}
  <1>1. CASE t = NoTable
    BY <1>1 DEF NoTable
  <1>2. CASE t \in Tables
    BY <1>2, QueryAssumption DEF WellFormed, Columns
  <1> QED BY <1>1, <1>2

\* What a query finds and sends depends on the handler's columns and clause only.
LEMMA SameFound ==
  ASSUME NEW k, cols'[k] = cols[k], clause'[k] = clause[k]
  PROVE  \A t : /\ Found(k, t)' = Found(k, t) /\ Cast(k, t)' = Cast(k, t)
               /\ RowsSent(k, t)' = RowsSent(k, t)
  <1>1. \A t : Found(k, t)' = Found(k, t)
    BY DEF Found, NotNull, Bounded
  <1>2. \A t : Cast(k, t)' = Cast(k, t)
    BY <1>1 DEF Cast
  <1>3. \A r : Selected(k, r)' = Selected(k, r)
    BY DEF Selected
  <1> QED
    BY <1>1, <1>2, <1>3 DEF RowsSent

\* A handler's step leaves the other handler's part alone.
LEMMA OtherHandler ==
  ASSUME IInv, NEW h \in Handlers, NEW k \in Handlers, k # h,
         UNCHANGED <<text, params, table, changes>>,
         pc'[k] = pc[k], cols'[k] = cols[k], clause'[k] = clause[k], answer'[k] = answer[k],
         asked'[k] = asked[k], queried'[k] = queried[k]
  PROVE  Prepared(k)' /\ Answered(k)' /\ Fresh(k)'
  <1>1. Prepared(k)'
    BY DEF IInv, Prepared, Bounded, NeedsBounds, HasBounds
  <1>2. \A t : /\ Found(k, t)' = Found(k, t) /\ Cast(k, t)' = Cast(k, t)
              /\ RowsSent(k, t)' = RowsSent(k, t)
    BY SameFound
  <1>3. Answered(k)'
    BY <1>2 DEF IInv, Answered, Bounded, NeedsBounds, HasBounds
  <1>4. LookupFails' = LookupFails
    BY DEF LookupFails
  <1>5. StatusNow' = StatusNow
    BY <1>4 DEF StatusNow, HasBounds
  <1>6. Fresh(k)
    BY DEF IInv
  <1>a. CastRefused(k)' <=> CastRefused(k)
    BY <1>2 DEF CastRefused, Bounded, NeedsBounds, HasBounds
  <1>7. Fresh(k)'
    BY <1>4, <1>5, <1>6, <1>a DEF Fresh
  <1> QED BY <1>1, <1>3, <1>7

\* The look-up.
LEMMA LookupStep ==
  ASSUME IInv, NEW h \in Handlers, Lookup(h)
  PROVE  IInv'
  <1>1. /\ pc[h] = "lookup" /\ UNCHANGED <<text, params, table, changes, clause, queried>>
        /\ asked' = [asked EXCEPT ![h] = changes]
        /\ cols[h] = {} /\ clause[h] = NoBounds /\ answer[h] = NoAnswer
        /\ table.columns \subseteq Columns
    BY TableFacts DEF Lookup, IInv, Shapes, Prepared
  <1>2. \/ /\ LookupFails /\ h = "binary" /\ cols' = cols
           /\ answer' = [answer EXCEPT ![h] = Refused(500)] /\ pc' = [pc EXCEPT ![h] = "done"]
        \/ /\ ~(LookupFails /\ h = "binary") /\ answer' = answer
           /\ cols' = [cols EXCEPT ![h] = IF LookupFails THEN {} ELSE table.columns]
           /\ pc' = [pc EXCEPT ![h] = "build"]
    BY DEF Lookup, Respond
  <1>3. Shapes'
    BY <1>1, <1>2 DEF IInv, Shapes
  <1>4. ASSUME NEW k \in Handlers, k # h PROVE Prepared(k)' /\ Answered(k)' /\ Fresh(k)'
    BY <1>1, <1>2, <1>4, OtherHandler DEF IInv, Shapes
  <1>5. /\ asked'[h] = changes
        /\ cols'[h] = IF LookupFails THEN {} ELSE table.columns
        /\ \/ LookupFails /\ h = "binary" /\ answer'[h] = Refused(500) /\ pc'[h] = "done"
           \/ ~(LookupFails /\ h = "binary") /\ answer'[h] = NoAnswer /\ pc'[h] = "build"
    BY <1>1, <1>2 DEF IInv, Shapes
  <1>6. Prepared(h)'
    BY <1>1, <1>5 DEF Prepared, Bounded
  <1>7. Answered(h)'
    BY <1>1, <1>5 DEF Answered, Refused, NoAnswer
  <1>8. Fresh(h)'
    BY <1>1, <1>5 DEF Fresh, StatusNow, LookupFails, Refused, NoAnswer
  <1> QED BY <1>3, <1>4, <1>6, <1>7, <1>8 DEF IInv

\* The bounds.
LEMMA BuildStep ==
  ASSUME IInv, NEW h \in Handlers, Build(h)
  PROVE  IInv'
  <1>1. /\ pc[h] = "build" /\ UNCHANGED <<text, params, table, changes, cols, asked, queried>>
        /\ clause[h] = NoBounds /\ answer[h] = NoAnswer
    BY DEF Build, IInv, Prepared
  <1>2. \/ /\ ~NeedsBounds(h) /\ pc' = [pc EXCEPT ![h] = "send"] /\ UNCHANGED <<clause, answer>>
        \/ /\ NeedsBounds(h) /\ \E p \in Bounds : params[p] = Bad
           /\ answer' = [answer EXCEPT ![h] = Refused(400)] /\ pc' = [pc EXCEPT ![h] = "done"]
           /\ clause' = clause
        \/ /\ NeedsBounds(h) /\ \A p \in Bounds : params[p] # Bad
           /\ clause' = [clause EXCEPT ![h] = [p \in Bounds |-> Rounded(params[p])]]
           /\ pc' = [pc EXCEPT ![h] = "send"] /\ answer' = answer
    BY DEF Build, Respond, NeedsBounds, Columns
  <1>3. Shapes'
    BY <1>1, <1>2 DEF IInv, Shapes
  <1>4. ASSUME NEW k \in Handlers, k # h PROVE Prepared(k)' /\ Answered(k)' /\ Fresh(k)'
    BY <1>1, <1>2, <1>4, OtherHandler DEF IInv, Shapes
  <1>5. /\ cols'[h] = cols[h]
        /\ \/ ~NeedsBounds(h) /\ pc'[h] = "send" /\ clause'[h] = NoBounds /\ answer'[h] = NoAnswer
           \/ /\ NeedsBounds(h) /\ \E p \in Bounds : params[p] = Bad
              /\ answer'[h] = Refused(400) /\ pc'[h] = "done" /\ clause'[h] = NoBounds
           \/ /\ NeedsBounds(h) /\ \A p \in Bounds : params[p] # Bad
              /\ clause'[h] = [p \in Bounds |-> Rounded(params[p])]
              /\ pc'[h] = "send" /\ answer'[h] = NoAnswer
    BY <1>1, <1>2 DEF IInv, Shapes
  <1>6. [p \in Bounds |-> Rounded(params[p])] # NoBounds
    BY DEF NoBounds, Bounds
  <1>7. Prepared(h)'
    BY <1>1, <1>5, <1>6 DEF Prepared, Bounded, NeedsBounds, HasBounds
  <1>8. Answered(h)'
    BY <1>1, <1>5 DEF Answered, Refused, NoAnswer
  <1>9. Fresh(h)'
    <2>1. SUFFICES ASSUME asked[h] = changes
                   PROVE  /\ cols[h] = IF LookupFails THEN {} ELSE table.columns
                          /\ ~(h = "binary" /\ LookupFails)
                          /\ pc'[h] = "done" => answer'[h].status = StatusNow
                          /\ answer'[h].status # 200
      BY <1>1, <1>5 DEF Fresh, LookupFails, StatusNow, HasBounds
    <2>2. /\ cols[h] = IF LookupFails THEN {} ELSE table.columns
          /\ ~(h = "binary" /\ LookupFails)
      BY <1>1, <2>1 DEF IInv, Fresh
    <2>3. NeedsBounds(h) => ~LookupFails /\ HasBounds /\ Columns \subseteq table.columns
      BY <2>2 DEF NeedsBounds, Columns
    <2> QED BY <1>5, <2>2, <2>3 DEF StatusNow, Refused, NoAnswer
  <1> QED BY <1>3, <1>4, <1>7, <1>8, <1>9 DEF IInv

\* The query.
LEMMA SendStep ==
  ASSUME IInv, NEW h \in Handlers, Send(h)
  PROVE  IInv'
  <1> DEFINE Rejected == \/ LookupFails
                         \/ ~(ColumnsNamed(h) \subseteq table.columns)
                         \/ Bounded(h) /\ \E p \in Bounds : clause[h][p] = NotFinite
             All(a) == a = [status |-> 200, rows |-> RowsSent(h, table), failed |-> FALSE]
             Part(a) == \E some \in SUBSET RowsSent(h, table) :
                          a = [status |-> 200, rows |-> some, failed |-> TRUE]
  <1>1. /\ pc[h] = "send" /\ UNCHANGED <<text, params, table, changes, cols, clause, asked>>
        /\ queried' = [queried EXCEPT ![h] = table]
        /\ pc' = [pc EXCEPT ![h] = "done"]
        /\ \E a : /\ answer' = [answer EXCEPT ![h] = a]
                 /\ \/ Rejected /\ a = Refused(500)
                    \/ ~Rejected /\ Found(h, table) = Cast(h, table) /\ All(a)
                    \/ /\ ~Rejected /\ Found(h, table) # Cast(h, table)
                       /\ a = Refused(500) \/ Part(a)
    BY DEF Send, Respond, Cast, RowsSent
  <1>2. Shapes'
    BY <1>1 DEF IInv, Shapes
  <1>3. ASSUME NEW k \in Handlers, k # h PROVE Prepared(k)' /\ Answered(k)' /\ Fresh(k)'
    BY <1>1, <1>3, OtherHandler DEF IInv, Shapes
  <1>4. PICK a : /\ pc'[h] = "done" /\ queried'[h] = table /\ answer'[h] = a
                 /\ \/ Rejected /\ a = Refused(500)
                    \/ ~Rejected /\ Found(h, table) = Cast(h, table) /\ All(a)
                    \/ /\ ~Rejected /\ Found(h, table) # Cast(h, table)
                       /\ a = Refused(500) \/ Part(a)
    BY <1>1 DEF IInv, Shapes
  <1>5. /\ a.status \in {200, 500} /\ (a.status # 200 => a.rows = {})
        /\ a.status = 200 =>
             /\ ~Rejected /\ a.rows \subseteq RowsSent(h, table)
             /\ ~a.failed => a.rows = RowsSent(h, table) /\ Found(h, table) = Cast(h, table)
             /\ a.failed => Found(h, table) # Cast(h, table)
        /\ a.status = 500 => Rejected \/ Found(h, table) # Cast(h, table)
        /\ Rejected => a.status = 500
    BY <1>4 DEF Refused
  <1>6. \A t : /\ Found(h, t)' = Found(h, t) /\ Cast(h, t)' = Cast(h, t)
              /\ RowsSent(h, t)' = RowsSent(h, t)
    BY <1>1, SameFound
  <1>7. /\ NeedsBounds(h) <=> Bounded(h)
        /\ NeedsBounds(h)' <=> NeedsBounds(h)
        /\ Bounded(h)' <=> Bounded(h)
        /\ LookupFails' <=> LookupFails
        /\ StatusNow' = StatusNow
    <2>1. NeedsBounds(h) <=> Bounded(h)
      BY <1>1 DEF IInv, Prepared
    <2>2. (NeedsBounds(h)' <=> NeedsBounds(h)) /\ (Bounded(h)' <=> Bounded(h))
      BY <1>1 DEF NeedsBounds, Bounded, HasBounds
    <2>3. LookupFails' <=> LookupFails
      BY <1>1 DEF LookupFails
    <2>4. StatusNow' = StatusNow
      BY <1>1, <2>3 DEF StatusNow, HasBounds
    <2> QED BY <2>1, <2>2, <2>3, <2>4
  <1>8. Prepared(h)'
    BY <1>1, <1>4 DEF IInv, Prepared, Bounded, NeedsBounds, HasBounds
  <1>9. Answered(h)'
    <2>1. /\ Found(h, queried[h])' = Found(h, table) /\ Cast(h, queried[h])' = Cast(h, table)
          /\ RowsSent(h, queried[h])' = RowsSent(h, table)
      BY <1>1, <1>4, <1>6 DEF Found, Cast, RowsSent, Selected, NotNull, Bounded
    <2>2. answer[h]' = a /\ pc[h]' = "done" /\ clause[h]' = clause[h]
      BY <1>1, <1>4
    <2> QED BY <1>5, <1>7, <2>1, <2>2 DEF Answered
  <1>10. Fresh(h)'
    <2>1. SUFFICES ASSUME asked[h] = changes
                   PROVE  /\ cols[h] = IF LookupFails THEN {} ELSE table.columns
                          /\ a.status = StatusNow \/ (StatusNow = 200 /\ CastRefused(h)')
      BY <1>1, <1>4, <1>7 DEF Fresh
    <2>2. cols[h] = IF LookupFails THEN {} ELSE table.columns
      BY <1>1, <2>1 DEF IInv, Fresh
    <2>4. ~LookupFails => ColumnsNamed(h) \subseteq table.columns
      BY <2>2, <1>7 DEF ColumnsNamed, NeedsBounds, Columns
    <2>5. Bounded(h) => /\ \A p \in Bounds : params[p] # Bad
                        /\ \A p \in Bounds : clause[h][p] = Rounded(params[p])
      BY DEF IInv, Prepared
    <2>6. Bounded(h) => \A p \in Bounds : clause[h][p] = NotFinite <=> params[p] = NotFinite
      <3> SUFFICES ASSUME Bounded(h), NEW p \in Bounds
                   PROVE  Rounded(params[p]) = NotFinite <=> params[p] = NotFinite
        BY <2>5
      <3>1. params[p] \in Int \cup {NotFinite}
        BY <1>7, <2>5, QueryAssumption DEF IInv, Shapes, WellTyped, NeedsBounds, HasBounds
      <3>2. params[p] = NotFinite => Rounded(params[p]) = NotFinite
        BY DEF Rounded
      <3>3. params[p] \in Int => Rounded(params[p]) \in Int
        BY RoundedNear
      <3> QED BY <3>1, <3>2, <3>3, QueryAssumption
    <2>7. ~LookupFails => (NeedsBounds(h) <=> HasBounds /\ Columns \subseteq table.columns)
      BY <2>2 DEF NeedsBounds
    <2>8. IF Rejected THEN StatusNow = 500 ELSE StatusNow = 200
      BY <1>7, <2>4, <2>5, <2>6, <2>7 DEF StatusNow
    <2>9. CastRefused(h)' <=> a.status = 500 /\ Found(h, table) # Cast(h, table)
      <3>1. Found(h, table)' = Found(h, table) /\ Cast(h, table)' = Cast(h, table)
        BY <1>1, <1>6 DEF Found, Cast, NotNull, Bounded
      <3>2. answer[h]' = a
        BY <1>4
      <3>3. CastRefused(h)' <=> /\ answer[h]'.status = 500 /\ (NeedsBounds(h)' <=> Bounded(h)')
                                /\ Cast(h, table)' # Found(h, table)'
        BY DEF CastRefused
      <3> QED BY <1>7, <3>1, <3>2, <3>3
    <2> QED BY <1>5, <2>2, <2>8, <2>9
  <1> QED BY <1>2, <1>3, <1>8, <1>9, <1>10 DEF IInv

\* Others change the table.
LEMMA ChangeStep ==
  ASSUME IInv, ChangeTable
  PROVE  IInv'
  <1>1. /\ UNCHANGED <<text, params, pc, cols, clause, answer, asked, queried>>
        /\ changes' = changes + 1 /\ table' \in Tables \cup {NoTable}
    BY DEF ChangeTable
  <1>2. Shapes'
    BY <1>1 DEF IInv, Shapes
  <1>3. ASSUME NEW h \in Handlers PROVE Prepared(h)' /\ Answered(h)' /\ Fresh(h)'
    <2>1. Prepared(h)'
      BY <1>1, <1>3 DEF IInv, Prepared, Bounded, NeedsBounds, HasBounds
    <2>2. \A t : /\ Found(h, t)' = Found(h, t) /\ Cast(h, t)' = Cast(h, t)
                /\ RowsSent(h, t)' = RowsSent(h, t)
      BY <1>1, SameFound
    <2>3. Answered(h)'
      BY <1>1, <1>3, <2>2 DEF IInv, Answered, Bounded, NeedsBounds, HasBounds
    <2>4. asked'[h] # changes'
      BY <1>1, <1>3 DEF IInv, Shapes
    <2> QED BY <2>1, <2>3, <2>4 DEF Fresh
  <1> QED BY <1>2, <1>3 DEF IInv

\* A step that changes nothing.
LEMMA Stutter ==
  ASSUME IInv, UNCHANGED vars
  PROVE  IInv'
  <1>1. Shapes'
    BY DEF IInv, Shapes, vars
  <1>2. ASSUME NEW h \in Handlers PROVE Prepared(h)' /\ Answered(h)' /\ Fresh(h)'
    <2>1. Prepared(h)'
      BY <1>2 DEF IInv, Prepared, Bounded, NeedsBounds, HasBounds, vars
    <2>2. \A t : /\ Found(h, t)' = Found(h, t) /\ Cast(h, t)' = Cast(h, t)
                /\ RowsSent(h, t)' = RowsSent(h, t)
      BY SameFound DEF vars
    <2>3. Answered(h)'
      BY <1>2, <2>2 DEF IInv, Answered, Bounded, NeedsBounds, HasBounds, vars
    <2>4. LookupFails' = LookupFails
      BY DEF LookupFails, vars
    <2>5. StatusNow' = StatusNow
      BY <2>4 DEF StatusNow, HasBounds, vars
    <2>6. Fresh(h)
      BY <1>2 DEF IInv
    <2>a. CastRefused(h)' <=> CastRefused(h)
      BY <2>2 DEF CastRefused, Bounded, NeedsBounds, HasBounds, vars
    <2>7. Fresh(h)'
      BY <2>4, <2>5, <2>6, <2>a DEF Fresh, vars
    <2> QED BY <2>1, <2>3, <2>7
  <1> QED BY <1>1, <1>2 DEF IInv

LEMMA Inductive ==
  ASSUME IInv, [Next]_vars
  PROVE  IInv'
  <1>1. ASSUME NEW h \in Handlers, Lookup(h) \/ Build(h) \/ Send(h) PROVE IInv'
    BY <1>1, LookupStep, BuildStep, SendStep
  <1>2. CASE ChangeTable
    BY <1>2, ChangeStep
  <1>3. CASE Done \/ UNCHANGED vars
    BY <1>3, Stutter DEF Done
  <1> QED BY <1>1, <1>2, <1>3 DEF Next

\* The inductive invariant: what is prepared, answered and still fresh, of both
\* handlers of nodes (cpp:312-345 and 361-414).
THEOREM Invariance == Spec => []IInv
  BY InitInv, Inductive, PTL DEF Spec

(***************************************************************************)
(* Types.                                                                  *)
(***************************************************************************)

\* A handler that is done has answered.
Replied == \A h \in Handlers : pc[h] = "done" => answer[h].status \in {200, 400, 500}

LEMMA RepliedFirst == Init => Replied
  BY DEF Init, Replied

LEMMA RepliedKept ==
  ASSUME IInv, Replied, [Next]_vars
  PROVE  Replied'
  <1>1. DOMAIN answer = Handlers /\ pc \in [Handlers -> {"lookup", "build", "send", "done"}]
    BY DEF IInv, Shapes
  <1>2. ASSUME NEW h \in Handlers, NEW a, a.status \in {200, 400, 500}, Respond(h, a)
        PROVE  Replied'
    BY <1>1, <1>2 DEF Replied, Respond
  <1>3. ASSUME NEW h \in Handlers, NEW p \in {"build", "send"}, answer' = answer,
               pc' = [pc EXCEPT ![h] = p]
        PROVE  Replied'
    BY <1>1, <1>3 DEF Replied
  <1>4. \A s : Refused(s).status = s
    BY DEF Refused
  <1>5. ASSUME NEW h \in Handlers, Lookup(h)
        PROVE  Replied'
    BY <1>2, <1>3, <1>4, <1>5 DEF Lookup
  <1>6. ASSUME NEW h \in Handlers, Build(h)
        PROVE  Replied'
    BY <1>2, <1>3, <1>4, <1>6 DEF Build
  <1>7. ASSUME NEW h \in Handlers, Send(h)
        PROVE  Replied'
    <2>1. \/ Respond(h, Refused(500))
          \/ \E R, f : Respond(h, [status |-> 200, rows |-> R, failed |-> f])
      BY ZenonT(60), <1>7 DEF Send
    <2>2. CASE Respond(h, Refused(500))
      BY <1>2, <1>4, <2>2
    <2>3. ASSUME NEW R, NEW f, Respond(h, [status |-> 200, rows |-> R, failed |-> f])
          PROVE  Replied'
      <3>1. [status |-> 200, rows |-> R, failed |-> f].status \in {200, 400, 500}
        OBVIOUS
      <3> QED BY <1>2, <2>3, <3>1
    <2> QED BY <2>1, <2>2, <2>3
  <1>8. CASE ChangeTable \/ Done \/ UNCHANGED vars
    BY <1>8 DEF Replied, ChangeTable, Done, vars
  <1> QED BY <1>5, <1>6, <1>7, <1>8 DEF Next

LEMMA TypedFrom ==
  ASSUME IInv, Replied, text \in Texts, changes \in 0..MaxChanges
  PROVE  TypeOK
  <1>1. Shapes /\ MaxChanges \in Nat
    BY QueryAssumption DEF IInv
  <1>2. ASSUME NEW h \in Handlers, Bounded(h)
        PROVE  clause[h] \in [Bounds -> Int \cup {NotFinite}]
    <2>1. /\ DOMAIN params = Bounds /\ \A p \in Bounds : params[p] # Bad
          /\ clause[h] = [p \in Bounds |-> Rounded(params[p])]
      BY <1>2 DEF IInv, Prepared, NeedsBounds, HasBounds
    <2>2. ASSUME NEW p \in Bounds
          PROVE  Rounded(params[p]) \in Int \cup {NotFinite}
      <3>1. params[p] \in Int \/ params[p] = NotFinite
        BY <1>1, <2>1, QueryAssumption DEF Shapes, WellTyped
      <3> QED BY <3>1, RoundedNear DEF Rounded
    <2> QED BY <2>1, <2>2
  <1>3. ASSUME NEW h \in Handlers
        PROVE  answer[h].status \in (IF pc[h] = "done" THEN {200, 400, 500} ELSE {0})
    <2>1. pc[h] # "done" => answer[h] = NoAnswer
      BY <1>3 DEF IInv, Prepared
    <2>2. pc[h] = "done" => answer[h].status \in {200, 400, 500}
      BY <1>3 DEF Replied
    <2> QED BY <2>1, <2>2 DEF NoAnswer
  <1>4. asked \in [Handlers -> 0..MaxChanges]
    <2>1. 0..changes \subseteq 0..MaxChanges
      BY <1>1
    <2> QED BY <1>1, <2>1 DEF Shapes
  <1> QED BY <1>1, <1>2, <1>3, <1>4 DEF TypeOK, Shapes, Columns

\* Only an answer with status 200 has rows, and it knows how it came by them.
LEMMA RowsOf ==
  ASSUME IInv, NEW h \in Handlers, NEW r \in answer[h].rows
  PROVE  /\ answer[h].status = 200
         /\ \E row \in queried[h].rows :
              /\ r = Selected(h, row) /\ NotNull(h, row)
              /\ Bounded(h) => Passes(queried[h], row, clause[h])
         /\ NeedsBounds(h) <=> Bounded(h)
  <1>1. answer[h].status = 200 /\ r \in RowsSent(h, queried[h]) /\ (NeedsBounds(h) <=> Bounded(h))
    BY DEF IInv, Answered
  <1> QED BY <1>1 DEF RowsSent, Cast, Found

\* A bounded handler's clause: the good bounds, rounded.
LEMMA ClauseOf ==
  ASSUME IInv, NEW h \in Handlers, Bounded(h), answer[h].status = 200
  PROVE  /\ GoodBounds
         /\ \A p \in Bounds : /\ clause[h][p] \in Int /\ params[p] \in Int
                             /\ params[p] - Half <= clause[h][p]
                             /\ clause[h][p] <= params[p] + Half
         /\ Half \in Nat
  <1>0. Prepared(h) /\ Answered(h)
    BY DEF IInv
  <1>a. /\ HasBounds /\ \A p \in Bounds : params[p] # Bad
        /\ clause[h] = [p \in Bounds |-> Rounded(params[p])]
    BY <1>0 DEF Prepared, NeedsBounds
  <1>b. \A p \in Bounds : clause[h][p] # NotFinite
    BY <1>0 DEF Answered
  <1>1. /\ HasBounds /\ \A p \in Bounds : params[p] # Bad
        /\ \A p \in Bounds : clause[h][p] = Rounded(params[p])
        /\ \A p \in Bounds : clause[h][p] # NotFinite
    BY <1>a, <1>b
  <1>2. \A p \in Bounds : params[p] \in Int \cup {Bad, NotFinite}
    BY ZenonT(60), <1>1, QueryAssumption DEF IInv, Shapes, WellTyped, HasBounds
  <1>3. \A p \in Bounds : params[p] # NotFinite
    BY <1>1 DEF Rounded
  <1>4. \A p \in Bounds : params[p] \in Int
    BY <1>1, <1>2, <1>3
  <1>5. GoodBounds
    BY <1>1, <1>4 DEF GoodBounds
  <1>6. 0 \in Int
    OBVIOUS
  <1> QED BY <1>1, <1>4, <1>5, <1>6, RoundedNear

\* The coordinates of the table's rows.
LEMMA RowFacts ==
  ASSUME IInv, NEW h \in Handlers, NEW row \in queried[h].rows
  PROVE  /\ row.x \in Int \cup {Null} /\ row.y \in Int \cup {Null}
         /\ "x" \in queried[h].floats => row.x \in Reals \cup {Null}
         /\ "y" \in queried[h].floats => row.y \in Reals \cup {Null}
  <1>1. queried[h] \in Tables \cup {NoTable}
    BY DEF IInv, Shapes
  <1> QED BY <1>1, TableFacts

\* No row outside the viewport is in a binary answer whose look-up has found both
\* coordinates, whatever others do to the table in between, by more than printing and
\* the casts to REAL can make of bounds and coordinates (cpp:158-177).
THEOREM InBounds == Spec => []BinaryInBounds
  <1>1. ASSUME IInv PROVE BinaryInBounds
    <2>1. SUFFICES ASSUME GoodBounds, cols["binary"] = {"x", "y"},
                          NEW r \in answer["binary"].rows
                   PROVE  ~ClearlyOut(r)
      BY DEF BinaryInBounds
    <2>2. "binary" \in Handlers
      BY DEF Handlers
    <2>3. NeedsBounds("binary")
      BY <2>1 DEF NeedsBounds, GoodBounds, Columns
    <2>4. /\ answer["binary"].status = 200 /\ Bounded("binary")
          /\ \E row \in queried["binary"].rows :
               /\ r = Selected("binary", row)
               /\ Passes(queried["binary"], row, clause["binary"])
      BY <1>1, <2>2, <2>3, RowsOf
    <2>5. PICK row \in queried["binary"].rows :
               /\ r = Selected("binary", row)
               /\ Passes(queried["binary"], row, clause["binary"])
      BY <2>4
    <2> DEFINE t == queried["binary"]
               c == clause["binary"]
    <2>6. row.x \in Int /\ row.y \in Int /\ row["x"] = row.x /\ row["y"] = row.y
      BY <1>1, <2>2, <2>5, RowFacts DEF Passes
    <2>7. r.x = AsReal(row.x) /\ r.y = AsReal(row.y)
      <3>1. row["x"] # Null /\ row["y"] # Null
        BY <2>6, QueryAssumption
      <3> QED BY <2>1, <2>5, <3>1 DEF Selected
    <2>8. ("x" \in t.floats => row.x \in Reals) /\ ("y" \in t.floats => row.y \in Reals)
      BY <1>1, <2>2, <2>6, RowFacts, QueryAssumption
    <2>9. /\ \A p \in Bounds : /\ c[p] \in Int /\ params[p] \in Int
                             /\ params[p] - Half <= c[p] /\ c[p] <= params[p] + Half
          /\ Half \in Nat
      BY <1>1, <2>2, <2>4, ClauseOf
    <2>10. /\ Compared(t, "x", c["min_x"]) <= row.x /\ row.x <= Compared(t, "x", c["max_x"])
           /\ Compared(t, "y", c["min_y"]) <= row.y /\ row.y <= Compared(t, "y", c["max_y"])
      BY <2>5 DEF Passes
    <2>b. Bounds = {"min_x", "max_x", "min_y", "max_y"}
      BY DEF Bounds
    <2> HIDE DEF t, c
    <2>11. ~Below(r.x, params["min_x"]) /\ ~Above(r.x, params["max_x"])
      <3>1. PICK v, m, b, n, d : /\ v = row.x /\ m = params["min_x"] /\ b = c["min_x"]
                                 /\ n = params["max_x"] /\ d = c["max_x"]
        OBVIOUS
      <3>2. /\ v \in Int /\ ("x" \in t.floats => v \in Reals) /\ Half \in Nat
            /\ m \in Int /\ b \in Int /\ m - Half <= b /\ b <= m + Half
            /\ n \in Int /\ d \in Int /\ n - Half <= d /\ d <= n + Half
            /\ Compared(t, "x", b) <= v /\ v <= Compared(t, "x", d)
        BY <2>6, <2>8, <2>9, <2>10, <2>b, <3>1
      <3>3. ~Below(AsReal(v), m) /\ ~Above(AsReal(v), n)
        BY <3>2, LowerBound, UpperBound
      <3> QED BY <2>7, <3>1, <3>3
    <2>12. ~Below(r.y, params["min_y"]) /\ ~Above(r.y, params["max_y"])
      <3>1. PICK v, m, b, n, d : /\ v = row.y /\ m = params["min_y"] /\ b = c["min_y"]
                                 /\ n = params["max_y"] /\ d = c["max_y"]
        OBVIOUS
      <3>2. /\ v \in Int /\ ("y" \in t.floats => v \in Reals) /\ Half \in Nat
            /\ m \in Int /\ b \in Int /\ m - Half <= b /\ b <= m + Half
            /\ n \in Int /\ d \in Int /\ n - Half <= d /\ d <= n + Half
            /\ Compared(t, "y", b) <= v /\ v <= Compared(t, "y", d)
        BY <2>6, <2>8, <2>9, <2>10, <2>b, <3>1
      <3>3. ~Below(AsReal(v), m) /\ ~Above(AsReal(v), n)
        BY <3>2, LowerBound, UpperBound
      <3> QED BY <2>7, <3>1, <3>3
    <2> QED BY <2>11, <2>12 DEF ClearlyOut
  <1> QED BY <1>1, Invariance, PTL

\* No row inside the viewport is missing from an answer with status 200 whose look-up
\* has found both coordinates and whose query has not failed, of either handler
\* (cpp:158-190 and 364-397).
THEOREM Complete == Spec => []NothingMissing
  <1>1. ASSUME IInv PROVE NothingMissing
    <2> SUFFICES ASSUME NEW h \in Handlers, answer[h].status = 200, ~answer[h].failed,
                        cols[h] = {"x", "y"}, NEW row \in queried[h].rows,
                        row.x # Null, row.y # Null, GoodBounds => ClearlyIn(row)
                 PROVE  Selected(h, row) \in answer[h].rows
      BY DEF NothingMissing
    <2>1. row.x \in Int /\ row.y \in Int
      BY <1>1, RowFacts
    <2>2. /\ answer[h].rows = RowsSent(h, queried[h])
          /\ Cast(h, queried[h]) = Found(h, queried[h])
      BY <1>1 DEF IInv, Answered
    <2>3. NotNull(h, row)
      BY DEF NotNull
    <2>4. Bounded(h) => Passes(queried[h], row, clause[h])
      <3> SUFFICES ASSUME Bounded(h) PROVE Passes(queried[h], row, clause[h])
        OBVIOUS
      <3> DEFINE t == queried[h]
                 c == clause[h]
      <3>1. /\ \A p \in Bounds : /\ c[p] \in Int /\ params[p] \in Int
                               /\ params[p] - Half <= c[p] /\ c[p] <= params[p] + Half
            /\ Half \in Nat
        BY <1>1, ClauseOf
      <3>2. /\ params["min_x"] + Half <= row.x /\ row.x <= params["max_x"] - Half
            /\ params["min_y"] + Half <= row.y /\ row.y <= params["max_y"] - Half
        BY <1>1, ClauseOf DEF ClearlyIn
      <3>3. ("x" \in t.floats => row.x \in Reals) /\ ("y" \in t.floats => row.y \in Reals)
        BY <1>1, <2>1, RowFacts, QueryAssumption
      <3>b. Bounds = {"min_x", "max_x", "min_y", "max_y"}
        BY DEF Bounds
      <3>4. Compared(t, "x", c["min_x"]) <= row.x /\ row.x <= Compared(t, "x", c["max_x"])
        <4> HIDE DEF t, c
        <4>1. PICK v, m, b, n, d : /\ v = row.x /\ m = params["min_x"] /\ b = c["min_x"]
                                   /\ n = params["max_x"] /\ d = c["max_x"]
          OBVIOUS
        <4>2. /\ v \in Int /\ ("x" \in t.floats => v \in Reals) /\ Half \in Nat
              /\ m \in Int /\ b \in Int /\ m - Half <= b /\ b <= m + Half
              /\ n \in Int /\ d \in Int /\ n - Half <= d /\ d <= n + Half
              /\ m + Half <= v /\ v <= n - Half
          BY <2>1, <3>1, <3>2, <3>3, <3>b, <4>1
        <4>3. b <= v /\ v <= d
          BY <4>2
        <4>4. AsReal(b) <= AsReal(v) /\ AsReal(v) <= AsReal(d)
          BY <4>2, <4>3, RealsInOrder
        <4>5. "x" \in t.floats => AsReal(v) = v
          BY <4>2, RealStays
        <4>6. Compared(t, "x", b) <= v /\ v <= Compared(t, "x", d)
          BY <4>3, <4>4, <4>5 DEF Compared
        <4> QED BY <4>1, <4>6
      <3>5. Compared(t, "y", c["min_y"]) <= row.y /\ row.y <= Compared(t, "y", c["max_y"])
        <4> HIDE DEF t, c
        <4>1. PICK v, m, b, n, d : /\ v = row.y /\ m = params["min_y"] /\ b = c["min_y"]
                                   /\ n = params["max_y"] /\ d = c["max_y"]
          OBVIOUS
        <4>2. /\ v \in Int /\ ("y" \in t.floats => v \in Reals) /\ Half \in Nat
              /\ m \in Int /\ b \in Int /\ m - Half <= b /\ b <= m + Half
              /\ n \in Int /\ d \in Int /\ n - Half <= d /\ d <= n + Half
              /\ m + Half <= v /\ v <= n - Half
          BY <2>1, <3>1, <3>2, <3>3, <3>b, <4>1
        <4>3. b <= v /\ v <= d
          BY <4>2
        <4>4. AsReal(b) <= AsReal(v) /\ AsReal(v) <= AsReal(d)
          BY <4>2, <4>3, RealsInOrder
        <4>5. "y" \in t.floats => AsReal(v) = v
          BY <4>2, RealStays
        <4>6. Compared(t, "y", b) <= v /\ v <= Compared(t, "y", d)
          BY <4>3, <4>4, <4>5 DEF Compared
        <4> QED BY <4>1, <4>6
      <3>8. row.x # Null /\ row.y # Null
        OBVIOUS
      <3> QED BY <3>4, <3>5, <3>8 DEF Passes
    <2> QED BY <2>2, <2>3, <2>4 DEF RowsSent, Found
  <1> QED BY <1>1, Invariance, PTL

\* No NULL coordinate reaches the provider, which packs without a look at the
\* validity (cpp:334-337, 418-438).
THEOREM NullsStayOut == Spec => []NoNullPacked
  <1>1. ASSUME IInv PROVE NoNullPacked
    <2> SUFFICES ASSUME NEW r \in answer["binary"].rows PROVE r.x # Null /\ r.y # Null
      BY DEF NoNullPacked
    <2>1. "binary" \in Handlers
      BY DEF Handlers
    <2>2. PICK row \in queried["binary"].rows :
               r = Selected("binary", row) /\ \A c \in cols["binary"] : row[c] # Null
      BY <1>1, <2>1, RowsOf DEF NotNull
    <2>3. row["x"] = row.x /\ row["y"] = row.y
      OBVIOUS
    <2>4. row.x \in Int \cup {Null} /\ row.y \in Int \cup {Null}
      BY <1>1, <2>1, RowFacts
    <2>5. /\ row.x \in Int => AsReal(row.x) \in Int
          /\ row.y \in Int => AsReal(row.y) \in Int
      BY NearestReal
    <2> QED BY <2>2, <2>3, <2>4, <2>5, QueryAssumption DEF Selected
  <1> QED BY <1>1, Invariance, PTL

\* When nobody changes the table, the binary handler answers like the JSON handler, but
\* for rows that its casts round or do not take (cpp:157-190 and 361-397).
THEOREM Agreement == Spec => []HandlersAgree
  <1>1. ASSUME IInv PROVE HandlersAgree
    <2> DEFINE shown == {r \in answer["json"].rows : \A c \in cols["binary"] : r[c] # Null}
               cast  == {Selected("binary", r) : r \in shown}
    <2> SUFFICES ASSUME \A h \in Handlers : pc[h] = "done",
                        \A h \in Handlers : asked[h] = changes
                 PROVE  /\ answer["binary"].rows \subseteq cast
                        /\ (\A r \in shown : r.casts) =>
                             /\ answer["binary"].status = answer["json"].status
                             /\ answer["binary"].rows = cast
      BY DEF HandlersAgree
    <2>1. "binary" \in Handlers /\ "json" \in Handlers
      BY DEF Handlers
    <2> DEFINE found == IF LookupFails THEN {} ELSE table.columns
    <2>2. /\ Fresh("binary") /\ Answered("binary") /\ Prepared("binary")
          /\ Fresh("json") /\ Answered("json") /\ Prepared("json")
      BY <1>1, <2>1 DEF IInv
    <2>3. \A h \in Handlers : asked[h] = changes /\ pc[h] = "done"
      OBVIOUS
    <2>a. \A t : Cast("json", t) = Found("json", t)
      BY DEF Cast
    <2>4. /\ cols["binary"] = found /\ cols["json"] = found
          /\ answer["binary"].status = StatusNow \/ (StatusNow = 200 /\ CastRefused("binary"))
          /\ answer["json"].status = StatusNow
          /\ \A h \in Handlers : answer[h].status = 200 => queried[h] = table
      BY <2>1, <2>2, <2>3, <2>a DEF Fresh, CastRefused, Handlers
    <2> HIDE DEF found
    <2>5. CASE StatusNow # 200
      <3>1. answer["binary"].rows = {} /\ answer["json"].rows = {}
        BY <2>2, <2>4, <2>5 DEF Answered
      <3>2. cast = {}
        BY <3>1
      <3> QED BY <2>4, <2>5, <3>1, <3>2
    <2>6. CASE StatusNow = 200
      <3>1. /\ answer["json"].status = 200 /\ queried["json"] = table
            /\ NeedsBounds("json") <=> Bounded("json")
            /\ NeedsBounds("binary") <=> Bounded("binary")
        <4>1. answer["json"].status = 200 /\ queried["json"] = table
          BY <2>1, <2>4, <2>6
        <4>2. NeedsBounds("json") <=> Bounded("json")
          BY <2>2, <4>1 DEF Answered
        <4>3. NeedsBounds("binary") <=> Bounded("binary")
          BY <2>2, <2>4, <2>6 DEF Answered, CastRefused
        <4> QED BY <4>1, <4>2, <4>3
      <3>2. answer["json"].rows = Found("json", table)
        <4>1. answer["json"].rows = RowsSent("json", table)
          BY <2>2, <2>a, <3>1 DEF Answered
        <4>2. \A r : Selected("json", r) = r
          BY DEF Selected
        <4> QED BY <2>a, <4>1, <4>2 DEF RowsSent
      <3>3. Bounded("binary") <=> Bounded("json")
        BY <2>4, <3>1 DEF NeedsBounds
      <3>4. Bounded("json") => clause["binary"] = clause["json"]
        BY <2>2, <3>3 DEF Prepared
      <3>5. Found("binary", table) = shown
        BY <3>2, <3>3, <3>4 DEF Found, NotNull
      <3>6. Cast("binary", table) = {r \in shown : r.casts}
        BY <3>5 DEF Cast
      <3>7. RowsSent("binary", table) \subseteq cast
            /\ (Cast("binary", table) = shown => RowsSent("binary", table) = cast)
        <4> HIDE DEF shown
        <4> QED BY <3>6 DEF RowsSent
      <3> HIDE DEF shown, cast
      <3>8. CASE answer["binary"].status = 200
        <4>1. /\ answer["binary"].rows \subseteq RowsSent("binary", table)
              /\ ~answer["binary"].failed => answer["binary"].rows = RowsSent("binary", table)
              /\ answer["binary"].failed => Cast("binary", table) # Found("binary", table)
          BY <2>1, <2>2, <2>4, <3>8 DEF Answered
        <4>2. (\A r \in shown : r.casts) => Cast("binary", table) = shown
          BY <3>6
        <4> QED BY <3>1, <3>5, <3>7, <3>8, <4>1, <4>2
      <3>9. CASE answer["binary"].status # 200
        <4>1. answer["binary"].rows = {} /\ Cast("binary", table) # shown
          BY <2>2, <2>4, <2>6, <3>5, <3>9 DEF Answered, CastRefused
        <4>2. ~(\A r \in shown : r.casts)
          BY <3>6, <4>1
        <4> QED BY <4>1, <4>2
      <3> QED BY <3>8, <3>9
    <2> QED BY <2>5, <2>6
  <1> QED BY <1>1, Invariance, PTL
=============================================================================
