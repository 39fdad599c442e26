------------------------------ MODULE ForjdProofs ------------------------------
(***************************************************************************)
(* What DEML's way to FORJD keeps to, from a request to the last attempt   *)
(* of its calls, whatever the size of either.                              *)
(*                                                                         *)
(* First the gateway, for any number of requests, accounts and pages.  An  *)
(* adapter is a sequence of steps, so the inductive invariant IInv is      *)
(* about the steps still ahead: of each request that is under way it says  *)
(* that the order of its remaining steps is the order of the code (Shape), *)
(* that each of them has what it needs, or an earlier one will get it      *)
(* (Standing), and that its call is that of its first step (OpenCall); of  *)
(* each that is answered, that trail, receipt and answer agree with its    *)
(* last call (Audited, Honest).  A step takes the head off the sequence:   *)
(* the lemma Advance shows that what is said of a sequence is said of its  *)
(* tail.  That every adapter begins in such an order is proved for each of *)
(* them (OtherAdaptersOpen, PageAdaptersOpen).                             *)
(*                                                                         *)
(* The gateway takes for granted that a call is one of ForjdCall.  The     *)
(* second part proves it of ForjdClient, for any number of coroutines and  *)
(* classes and any threshold, cooldown and number of attempts: types, when *)
(* a circuit opens, and that every step of a call is one that ForjdCall    *)
(* allows.  The calls' part of that invariant, ClientInv, is a property of *)
(* one slot at a time: coroutines meet in the breaker only.                *)
(***************************************************************************)
EXTENDS ForjdGateway, ForjdClient, SequenceTheorems, TLAPS

-----------------------------------------------------------------------------
(* The inductive invariant.                                                *)

(* On sequences of steps: all are in X; after one of X come only some of   *)
(* Y; one of X has one of Y before it, unless what Y provides is given;    *)
(* none is in X.                                                           *)
Only(s, X) == \A i \in 1..Len(s) : s[i] \in X
Then(s, X, Y) == \A i \in 1..Len(s) : \A j \in 1..Len(s) : i < j /\ s[i] \in X => s[j] \in Y
Needs(s, X, Y, given) ==
  \A i \in 1..Len(s) : s[i] \in X => given \/ \E j \in 1..(i - 1) : s[j] \in Y
Lacks(s, X) == \A i \in 1..Len(s) : s[i] \notin X

(* The steps of an adapter, those it may end with, those a privileged      *)
(* request takes once the row of its attempt is written, and those the     *)
(* widget takes with a credential of another.                              *)
Names == CallSteps \cup
  {"authorize", "attempt", "writes", "skip", "reads", "credential", "widgetCredential",
   "bind", "payload", "tell", "retired"}
Finals == {"read", "write", "directory", "published", "slugAgain", "ready", "seal",
           "beatSeal", "tell", "retired"}
Privileges == {"writes", "credential", "bind", "payload", "owned", "write", "retired"}
Widget == {"session", "seal"}

(* A beat is followed by its seal.                                         *)
Beats(s) == \A i \in 1..Len(s) : s[i] = "beat" => i < Len(s) /\ s[i + 1] = "beatSeal"

(* The order of the steps ahead.                                           *)
Shape(s) ==
  /\ s \in Seq(Names)
  /\ s # <<>>
  /\ s[Len(s)] \in Finals
  /\ Then(s, {"attempt"}, Privileges)
  /\ Then(s, CallSteps, Names \ {"authorize", "skip"})
  /\ Then(s, WriteSteps, WriteSteps)
  /\ Then(s, {"credential"}, Names \ Widget)
  /\ Then(s, {"widgetCredential"}, Widget)
  /\ Beats(s)

(* A request may read or change the page it names, if it names one.        *)
Mine(q) == q.page = NoPage \/ (Owner[q.page] = q.who /\ q.page \notin Reserved)

(* What the steps ahead need is there or will be: the row of the attempt   *)
(* for a write, the credential and the lookup for a page, the page's       *)
(* standing in the directory and its owner's credential for the widget.    *)
Standing(q, log) ==
  LET s == q.adapter.steps IN
  /\ Needs(s, WriteSteps, {"attempt"}, q.adapter.action = "public" \/ log = <<"attempted">>)
  /\ Needs(s, {"owned"}, {"credential"}, q.tenant = q.who)
  /\ Needs(s, {"read", "write"}, {"owned"}, Mine(q))
  /\ Needs(s, {"widgetCredential"} \cup Widget, {"resolve"}, InDirectory(q.page))
  /\ Needs(s, Widget, {"widgetCredential"}, q.tenant = Owner[q.page])
  /\ q.who \in Accounts /\ q.tenant \notin {q.who, Nobody} => Only(s, Widget)

(* A call under way is that of the first step, and what FORJD has said of  *)
(* it is something it may say to that step.                                *)
OpenCall(q, c) ==
  c.phase = "open" =>
    LET step == Head(q.adapter.steps) IN
    /\ step \in CallSteps
    /\ c.write = (step \in WriteSteps)
    /\ (c.seen = 0) = (q.word = "none")
    /\ q.word = "no" => step \in {"owned", "published", "heal", "resolve"}
    /\ q.word = "yes" /\ step = "owned" => Owner[q.page] = q.tenant

(* A request under way.                                                    *)
Running(q, log, c) ==
  LET s == q.adapter.steps IN
  /\ q.answer = "none"
  /\ Shape(s)
  /\ Standing(q, log)
  /\ OpenCall(q, c)
  /\ log \in {<<>>, <<"attempted">>}
  /\ ~Lacks(s, {"authorize", "attempt"}) => log = <<>>
  /\ ~Lacks(s, {"authorize", "skip"}) => c.phase = "idle"
  /\ ~Lacks(s, {"skip"}) => q.adapter.fallback
  /\ log = <<"attempted">> => Only(s, Privileges)
  /\ c.write => Only(s, WriteSteps) /\ (q.adapter.action = "public" \/ log = <<"attempted">>)

(* FORJD has done what was asked, and has said so.                         *)
Confirms(q, c) == c.write /\ c.seen = 1 /\ c.phase = "ok" /\ q.word = "yes"

(* What may still follow an answer.                                        *)
WithResult == {<<"result">>, <<"shadow", "result">>}
WithShadow == {<<"shadow">>, <<"shadow", "result">>}

(* The rows and the receipt of an answered request.                        *)
Audited(q, log, rec, c) ==
  LET s == q.adapter.steps IN
  /\ log \in {<<>>, <<"denied">>, <<"attempted">>, <<"attempted", "succeeded">>,
              <<"attempted", "failed">>}
  /\ log = <<"denied">> => c.phase = "idle"
  /\ s \in WithResult => log = <<"attempted">>
  /\ log = <<"attempted">> /\ s \notin WithResult => q.answer \in {"gone", "escaped"}
  /\ c.write /\ log \in {<<>>, <<"denied">>} => q.adapter.action = "public"
  /\ log \notin {<<>>, <<"denied">>} /\ q.answer \in Good => Confirms(q, c)
  /\ log = <<"attempted", "succeeded">> => Confirms(q, c)
  /\ s \in WithShadow /\ c.phase = "ok" => Confirms(q, c)
  /\ rec = "accepted" => Confirms(q, c)

(* The answer and the last call.                                           *)
Honest(q, c, reading) ==
  /\ q.answer \in {"data", "done", "listed", "missing"} => c.phase = "ok"
  /\ q.answer = "empty" => q.adapter.fallback /\ reading # "forjd" /\ c.phase # "ok"
  /\ c.write /\ q.word = "yes" => q.answer \in {"done", "degraded", "counted", "gone"}

(* An answered request.                                                    *)
Concluded(q, log, rec, c, reading) ==
  /\ q.answer \in Good \cup Errors \cup {"gone"}
  /\ q.adapter.steps \in {<<>>} \cup WithResult \cup WithShadow
  /\ c.phase # "open"
  /\ Audited(q, log, rec, c)
  /\ Honest(q, c, reading)

RowTypes == {"denied", "attempted", "succeeded", "failed"}
Parties == Accounts \cup {Platform, Visitor, Nobody}
AdapterTypes ==
  [action : {"public", "read"} \cup NativeActions,
   steps : Seq(Names \cup {"shadow", "result"}),
   fallback : BOOLEAN, sealed : BOOLEAN, reshapes : BOOLEAN, escapes : BOOLEAN]
RequestTypes ==
  [who : Parties, page : Pages \cup {NoPage}, adapter : AdapterTypes, tenant : Parties,
   word : {"none", "yes", "no", "error"}, answer : Good \cup Errors \cup {"none", "gone"}]

(* Type correctness.                                                       *)
TypeOK ==
  /\ mode \in Deployments
  /\ req \in [Requests -> RequestTypes]
  /\ rows \in [Requests -> Seq(RowTypes)]
  /\ receipt \in [Requests -> {"none", "accepted", "failed"}]
  /\ Call!CallTypeOK

Runs(r) == Running(req[r], rows[r], call[r]) /\ receipt[r] = "none"
Ended(r) == Concluded(req[r], rows[r], receipt[r], call[r], mode.read)

IInv == TypeOK /\ \A r \in Requests : Runs(r) \/ Ended(r)

-----------------------------------------------------------------------------
(* Sequences of steps and their tails.                                     *)

LEMMA TailFacts ==
  ASSUME NEW S, NEW s \in Seq(S), s # <<>>
  PROVE  /\ Head(s) = s[1] /\ Head(s) \in S
         /\ Len(s) \in Nat \ {0}
         /\ Tail(s) \in Seq(S)
         /\ Len(Tail(s)) = Len(s) - 1
         /\ \A i \in 1..Len(Tail(s)) : Tail(s)[i] = s[i + 1]
OBVIOUS

LEMMA OnlyTail ==
  ASSUME NEW S, NEW s \in Seq(S), s # <<>>, NEW X, Only(s, X)
  PROVE  Only(Tail(s), X)
BY TailFacts DEF Only

LEMMA LacksTail ==
  ASSUME NEW S, NEW s \in Seq(S), s # <<>>, NEW X, Lacks(s, X)
  PROVE  Lacks(Tail(s), X)
BY TailFacts DEF Lacks

LEMMA NotLacking ==
  ASSUME NEW S, NEW s \in Seq(S), s # <<>>, NEW X, Head(s) \in X
  PROVE  ~Lacks(s, X)
<1>1. s[1] \in X /\ 1 \in 1..Len(s)
  BY TailFacts
<1> QED
  BY ONLY <1>1 DEF Lacks

LEMMA ThenTail ==
  ASSUME NEW S, NEW s \in Seq(S), s # <<>>, NEW X, NEW Y, Then(s, X, Y)
  PROVE  /\ Then(Tail(s), X, Y)
         /\ Head(s) \in X => Only(Tail(s), Y)
BY TailFacts DEF Then, Only

(* What the head was needed for is now given.                              *)
LEMMA NeedsTail ==
  ASSUME NEW S, NEW s \in Seq(S), s # <<>>, NEW X, NEW Y, NEW given, NEW after,
         Needs(s, X, Y, given), given => after, Head(s) \in Y => after
  PROVE  Needs(Tail(s), X, Y, after)
<1> SUFFICES ASSUME NEW i \in 1..Len(Tail(s)), Tail(s)[i] \in X, ~after
             PROVE  \E j \in 1..(i - 1) : Tail(s)[j] \in Y
  BY DEF Needs
<1>1. i + 1 \in 1..Len(s) /\ s[i + 1] \in X
  BY TailFacts
<1>2. PICK j \in 1..((i + 1) - 1) : s[j] \in Y
  BY <1>1 DEF Needs
<1>3. j # 1
  BY <1>2, TailFacts
<1>4. j - 1 \in 1..(i - 1) /\ j - 1 \in 1..Len(Tail(s)) /\ Tail(s)[j - 1] = s[j]
  BY <1>2, <1>3, TailFacts
<1> QED
  BY <1>2, <1>4

(* What the first step needs is given.                                     *)
LEMMA NeedsHead ==
  ASSUME NEW S, NEW s \in Seq(S), s # <<>>, NEW X, NEW Y, NEW given,
         Needs(s, X, Y, given), Head(s) \in X
  PROVE  given
BY TailFacts DEF Needs

LEMMA ShapeTail ==
  ASSUME NEW s, Shape(s), Len(s) > 1
  PROVE  Shape(Tail(s))
<1>1. s \in Seq(Names) /\ s # <<>>
  BY DEF Shape
<1>2. Tail(s) # <<>> /\ Tail(s)[Len(Tail(s))] = s[Len(s)]
  <2>1. Tail(s) \in Seq(Names) /\ Len(Tail(s)) = Len(s) - 1 /\ Len(s) \in Nat
    BY <1>1, TailFacts
  <2>2. Len(Tail(s)) \in 1..Len(Tail(s))
    BY <2>1
  <2>3. Tail(s)[Len(Tail(s))] = s[Len(Tail(s)) + 1]
    BY <1>1, <2>2, TailFacts
  <2>4. Len(Tail(s)) + 1 = Len(s)
    BY <2>1
  <2>5. Len(<<>>) = 0 /\ Len(Tail(s)) # 0
    BY <2>1
  <2> QED
    BY <2>3, <2>4, <2>5
<1>3. Beats(Tail(s))
  BY <1>1, TailFacts DEF Shape, Beats
<1> QED
  BY <1>1, <1>2, <1>3, TailFacts, ThenTail DEF Shape

LEMMA ShapeGoesOn ==
  ASSUME NEW s, Shape(s), Head(s) \notin Finals
  PROVE  Len(s) > 1
BY TailFacts DEF Shape

-----------------------------------------------------------------------------
(* How a request goes on.                                                  *)

(* A step is done and another is ahead: what the steps ahead need of it is *)
(* there.                                                                  *)
LEMMA Advance ==
  ASSUME NEW q, NEW log, NEW c, Running(q, log, c), Len(q.adapter.steps) > 1,
         NEW q2, NEW log2, NEW c2,
         q2.adapter.steps = Tail(q.adapter.steps),
         q2.adapter.action = q.adapter.action, q2.adapter.fallback = q.adapter.fallback,
         q2.who = q.who, q2.page = q.page, q2.answer = "none",
         log2 = (IF Head(q.adapter.steps) = "attempt" THEN <<"attempted">> ELSE log),
         q2.tenant =
           CASE Head(q.adapter.steps) = "credential" -> q.who
             [] Head(q.adapter.steps) = "widgetCredential" -> Owner[q.page]
             [] OTHER -> q.tenant,
         Head(q.adapter.steps) = "owned" => Mine(q),
         Head(q.adapter.steps) = "resolve" =>
           InDirectory(q.page) \/ Tail(q.adapter.steps)[1] = "resolve",
         c2.phase # "open", c2.write = c.write,
         Head(q.adapter.steps) \notin CallSteps => c2 = c
  PROVE  Running(q2, log2, c2)
<1> DEFINE now == q.adapter.steps
           rest == q2.adapter.steps
<1>1. Shape(now) /\ Standing(q, log) /\ now \in Seq(Names) /\ now # <<>>
  BY DEF Running, Shape
<1>2. Shape(rest)
  BY <1>1, ShapeTail
<1>3. Mine(q2) <=> Mine(q)
  BY DEF Mine
<1>4. Needs(rest, WriteSteps, {"attempt"},
            q2.adapter.action = "public" \/ log2 = <<"attempted">>)
  BY <1>1, NeedsTail DEF Standing
<1>5. Needs(rest, {"owned"}, {"credential"}, q2.tenant = q2.who)
  <2>1. Head(now) = "widgetCredential" => Only(rest, Widget)
    BY <1>1, ThenTail DEF Shape
  <2>2. CASE Head(now) = "widgetCredential"
    BY <2>1, <2>2 DEF Needs, Only, Widget
  <2>3. CASE Head(now) # "widgetCredential"
    <3> DEFINE given == q.tenant = q.who
               after == q2.tenant = q2.who
    <3>1. Needs(now, {"owned"}, {"credential"}, given) /\ rest = Tail(now)
      BY <1>1 DEF Standing
    <3>2. (given => after) /\ (Head(now) \in {"credential"} => after)
      BY <2>3
    <3> HIDE DEF given, after, now, rest
    <3>3. Needs(Tail(now), {"owned"}, {"credential"}, after)
      BY ONLY <1>1, <3>1, <3>2, NeedsTail
    <3> QED
      BY ONLY <3>1, <3>3 DEF after
  <2> QED
    BY <2>2, <2>3
<1>6. Needs(rest, {"read", "write"}, {"owned"}, Mine(q2))
  BY <1>1, <1>3, NeedsTail DEF Standing
<1>7. Needs(rest, {"widgetCredential"} \cup Widget, {"resolve"}, InDirectory(q2.page))
  <2> DEFINE X == {"widgetCredential"} \cup Widget
  <2>1. CASE Head(now) # "resolve" \/ InDirectory(q.page)
    BY <1>1, <2>1, NeedsTail DEF Standing
  <2>2. CASE rest[1] = "resolve"
    <3> SUFFICES ASSUME NEW i \in 1..Len(rest), rest[i] \in X
                 PROVE  \E j \in 1..(i - 1) : rest[j] \in {"resolve"}
      BY DEF Needs
    <3>1. i # 1
      BY <2>2 DEF Widget
    <3>2. 1 \in 1..(i - 1)
      BY <1>1, <3>1, TailFacts
    <3> QED
      BY <2>2, <3>2
  <2> QED
    BY <2>1, <2>2
<1>8. Needs(rest, Widget, {"widgetCredential"}, q2.tenant = Owner[q2.page])
  <2>1. Head(now) = "credential" => Only(rest, Names \ Widget)
    BY <1>1, ThenTail DEF Shape
  <2>2. CASE Head(now) = "credential"
    BY <2>1, <2>2 DEF Needs, Only
  <2>3. CASE Head(now) # "credential"
    <3> DEFINE given == q.tenant = Owner[q.page]
               after == q2.tenant = Owner[q2.page]
    <3>1. Needs(now, Widget, {"widgetCredential"}, given) /\ rest = Tail(now)
      BY <1>1 DEF Standing
    <3>2. (given => after) /\ (Head(now) \in {"widgetCredential"} => after)
      BY <2>3
    <3> HIDE DEF given, after, now, rest
    <3>3. Needs(Tail(now), Widget, {"widgetCredential"}, after)
      BY ONLY <1>1, <3>1, <3>2, NeedsTail
    <3> QED
      BY ONLY <3>1, <3>3 DEF after
  <2> QED
    BY <2>2, <2>3
<1>9. q2.who \in Accounts /\ q2.tenant \notin {q2.who, Nobody} => Only(rest, Widget)
  <2>1. CASE Head(now) = "widgetCredential"
    BY <1>1, <2>1, ThenTail DEF Shape
  <2>2. CASE Head(now) = "credential"
    BY <2>2
  <2>3. CASE Head(now) \notin {"credential", "widgetCredential"}
    BY <1>1, <2>3, OnlyTail DEF Standing
  <2> QED
    BY <2>1, <2>2, <2>3
<1>10. OpenCall(q2, c2)
  BY DEF OpenCall
<1>11. ~Lacks(rest, {"authorize", "attempt"}) => log2 = <<>>
  <2>1. CASE Head(now) = "attempt"
    <3>1. Then(now, {"attempt"}, Privileges)
      BY <1>1 DEF Shape
    <3>2. Only(rest, Privileges)
      BY <1>1, <2>1, <3>1, ThenTail
    <3> QED
      BY <3>2 DEF Only, Lacks, Privileges
  <2>2. CASE Head(now) # "attempt"
    BY <1>1, <2>2, LacksTail DEF Running
  <2> QED
    BY <2>1, <2>2
<1>12. ~Lacks(rest, {"authorize", "skip"}) => c2.phase = "idle"
  <2>1. CASE Head(now) \in CallSteps
    BY <1>1, <2>1, ThenTail DEF Shape, Only, Lacks
  <2>2. CASE Head(now) \notin CallSteps
    BY <1>1, <2>2, LacksTail DEF Running
  <2> QED
    BY <2>1, <2>2
<1>13. ~Lacks(rest, {"skip"}) => q2.adapter.fallback
  BY <1>1, LacksTail DEF Running
<1>14. log2 = <<"attempted">> => Only(rest, Privileges)
  <2>1. CASE Head(now) = "attempt"
    BY <1>1, <2>1, ThenTail DEF Shape
  <2>2. CASE Head(now) # "attempt"
    BY <1>1, <2>2, OnlyTail DEF Running
  <2> QED
    BY <2>1, <2>2
<1>15. c2.write =>
         Only(rest, WriteSteps) /\ (q2.adapter.action = "public" \/ log2 = <<"attempted">>)
  BY <1>1, OnlyTail DEF Running
<1>16. log2 \in {<<>>, <<"attempted">>}
  BY DEF Running
<1>17. Standing(q2, log2)
  BY <1>4, <1>5, <1>6, <1>7, <1>8, <1>9 DEF Standing
<1> QED
  BY <1>2, <1>10, <1>11, <1>12, <1>13, <1>14, <1>15, <1>16, <1>17 DEF Running

LEMMA TuplesDiffer ==
  /\ <<"attempted">> # <<>> /\ <<"denied">> # <<>> /\ <<"attempted">> # <<"denied">>
  /\ <<"attempted", "succeeded">> # <<>> /\ <<"attempted", "succeeded">> # <<"attempted">>
  /\ <<"attempted", "failed">> # <<>> /\ <<"attempted", "failed">> # <<"attempted">>
  /\ <<"shadow">> # <<>> /\ <<"result">> # <<>> /\ <<"shadow">> # <<"result">>
  /\ <<"shadow", "result">> # <<>> /\ <<"shadow", "result">> # <<"shadow">>
  /\ <<"shadow", "result">> # <<"result">>
OBVIOUS

LEMMA AppendToEmpty == \A e : Append(<<>>, e) = <<e>>
OBVIOUS

(* The row of the result comes last, if a row of the attempt is there.     *)
LEMMA ResultComesLast ==
  ASSUME NEW log \in {<<>>, <<"attempted">>}, NEW after \in {<<>>, <<"shadow">>}, NEW s,
         s = after \o (IF Contains(log, "attempted") THEN <<"result">> ELSE <<>>)
  PROVE  /\ log = <<>> => s \notin WithResult
         /\ log = <<"attempted">> => s \in WithResult
         /\ after = <<>> => s \notin WithShadow
         /\ s \in {<<>>} \cup WithResult \cup WithShadow
<1>1. log = <<>> => ~Contains(log, "attempted")
  BY DEF Contains
<1>2. log = <<"attempted">> => Contains(log, "attempted")
  BY DEF Contains
<1>3. <<"shadow">> \o <<"result">> = <<"shadow", "result">>
  <2> DEFINE S == {"shadow", "result"}
             x == <<"shadow">> \o <<"result">>
             y == <<"shadow", "result">>
  <2>1. x \in Seq(S) /\ y \in Seq(S) /\ Len(x) = Len(y)
    OBVIOUS
  <2>2. \A i \in 1..Len(x) : x[i] = y[i]
    OBVIOUS
  <2> QED
    BY <2>1, <2>2, SeqEqual
<1>4. /\ <<>> \o <<"result">> = <<"result">>
      /\ <<>> \o <<>> = <<>>
      /\ <<"shadow">> \o <<>> = <<"shadow">>
  <2>1. <<"result">> \in Seq({"result"}) /\ <<>> \in Seq({"result"})
        /\ <<"shadow">> \in Seq({"shadow"})
    OBVIOUS
  <2> QED
    BY <2>1, ConcatEmptySeq
<1>5. /\ log = <<>> => s = after
      /\ log = <<"attempted">> => s = after \o <<"result">>
  BY <1>1, <1>2, <1>4
<1>6. CASE log = <<>>
  <2>1. s \in {<<>>, <<"shadow">>}
    BY <1>5, <1>6
  <2>2. s \notin WithResult
    BY <2>1, TuplesDiffer DEF WithResult
  <2> QED
    BY <1>5, <1>6, <2>1, <2>2, TuplesDiffer DEF WithShadow
<1>7. CASE log = <<"attempted">>
  <2>1. after = <<>> => s = <<"result">>
    BY <1>4, <1>5, <1>7
  <2>2. after = <<"shadow">> => s = <<"shadow", "result">>
    BY <1>3, <1>5, <1>7
  <2> QED
    BY <1>7, <2>1, <2>2, TuplesDiffer DEF WithResult, WithShadow
<1> QED
  BY <1>6, <1>7

(* A step ends the work: the request is answered.                          *)
LEMMA Conclusion ==
  ASSUME NEW q, NEW log, NEW c, Running(q, log, c),
         NEW after \in {<<>>, <<"shadow">>}, NEW q2, NEW c2, NEW reading,
         q2.adapter.steps =
           after \o (IF Contains(log, "attempted") THEN <<"result">> ELSE <<>>),
         q2.adapter.action = q.adapter.action,
         q2.answer \in Good \cup Errors,
         c2.phase # "open", c2.write = c.write,
         after = <<"shadow">> /\ c2.phase = "ok" => Confirms(q2, c2),
         log = <<"attempted">> /\ q2.answer \in Good => Confirms(q2, c2),
         Honest(q2, c2, reading)
  PROVE  Concluded(q2, log, "none", c2, reading)
<1>1. log \in {<<>>, <<"attempted">>}
  BY DEF Running
<1>2. c2.write /\ log = <<>> => q2.adapter.action = "public"
  BY DEF Running
<1>3. Audited(q2, log, "none", c2)
  <2>1. CASE log = <<>>
    <3>1. q2.adapter.steps \notin WithResult
      BY <1>1, <2>1, ResultComesLast
    <3>2. q2.adapter.steps \in WithShadow => after = <<"shadow">>
      BY <1>1, ResultComesLast
    <3> QED
      BY <1>2, <2>1, <3>1, <3>2 DEF Audited
  <2>2. CASE log = <<"attempted">>
    <3>1. q2.adapter.steps \in WithResult
      BY <1>1, <2>2, ResultComesLast
    <3>2. q2.adapter.steps \in WithShadow => after = <<"shadow">>
      BY <1>1, ResultComesLast
    <3> QED
      BY <2>2, <3>1, <3>2 DEF Audited
  <2> QED
    BY <1>1, <2>1, <2>2
<1>4. q2.adapter.steps \in {<<>>} \cup WithResult \cup WithShadow
  BY <1>1, ResultComesLast
<1> QED
  BY <1>3, <1>4 DEF Concluded

-----------------------------------------------------------------------------
(* What the parts of an action change.                                     *)

AllSteps == Names \cup {"shadow", "result"}

(* What stays as it was when a request takes a step.                       *)
SameAdapter(q, q2) ==
  /\ q2.adapter.action = q.adapter.action
  /\ q2.adapter.fallback = q.adapter.fallback
  /\ q2.adapter.sealed = q.adapter.sealed
  /\ q2.who = q.who
  /\ q2.page = q.page

LEMMA GoChanges ==
  ASSUME TypeOK, NEW r \in Requests, ~Settled(r), Go(r)
  PROVE  /\ SameAdapter(req[r], req'[r])
         /\ req'[r].adapter.steps = Tail(Step(r))
         /\ req'[r].tenant = req[r].tenant
         /\ req'[r].word = req[r].word
         /\ req'[r].answer = req[r].answer
         /\ \A p \in Requests \ {r} : req'[p] = req[p]
         /\ req' \in [Requests -> RequestTypes]
<1>1. req[r] \in RequestTypes /\ Step(r) \in Seq(AllSteps) /\ Step(r) # <<>>
  BY DEF TypeOK, RequestTypes, AdapterTypes, Step, Settled, AllSteps
<1>2. Tail(Step(r)) \in Seq(AllSteps)
  BY <1>1, TailFacts
<1>3. req'[r] = [req[r] EXCEPT !.adapter.steps = Tail(Step(r))]
  BY DEF Go, TypeOK, Step
<1>4. /\ req'[r].adapter = [req[r].adapter EXCEPT !.steps = Tail(Step(r))]
      /\ req'[r].who = req[r].who /\ req'[r].page = req[r].page
      /\ req'[r].tenant = req[r].tenant /\ req'[r].word = req[r].word
      /\ req'[r].answer = req[r].answer
  BY ONLY <1>1, <1>3 DEF RequestTypes
<1>5. req[r].adapter \in AdapterTypes
  BY ONLY <1>1 DEF RequestTypes
<1>6. /\ req'[r].adapter \in AdapterTypes /\ req'[r].adapter.steps = Tail(Step(r))
      /\ SameAdapter(req[r], req'[r])
  BY ONLY <1>2, <1>4, <1>5 DEF AdapterTypes, AllSteps, SameAdapter
<1>7. req'[r] \in RequestTypes
  <2>1. req'[r] = [req[r] EXCEPT !.adapter = req'[r].adapter]
    BY ONLY <1>1, <1>3, <1>4 DEF RequestTypes
  <2> QED
    BY ONLY <1>1, <1>6, <2>1 DEF RequestTypes
<1>8. /\ \A p \in Requests \ {r} : req'[p] = req[p]
      /\ req' \in [Requests -> RequestTypes]
  BY <1>7 DEF Go, TypeOK
<1> QED
  BY <1>4, <1>6, <1>8

(* A request is answered, and has these steps ahead of it still.           *)
Answers(r, answer, s) ==
  req' = [req EXCEPT ![r].answer = answer, ![r].adapter.steps = s]

LEMMA AnswerChanges ==
  ASSUME TypeOK, NEW r \in Requests, NEW s \in Seq(AllSteps),
         NEW answer \in Good \cup Errors \cup {"gone"}, Answers(r, answer, s)
  PROVE  /\ SameAdapter(req[r], req'[r])
         /\ req'[r].adapter.steps = s
         /\ req'[r].tenant = req[r].tenant
         /\ req'[r].word = req[r].word
         /\ req'[r].answer = answer
         /\ \A p \in Requests \ {r} : req'[p] = req[p]
         /\ req' \in [Requests -> RequestTypes]
<1>1. req[r] \in RequestTypes
  BY DEF TypeOK
<1>2. req'[r] = [req[r] EXCEPT !.answer = answer, !.adapter.steps = s]
  BY DEF TypeOK, Answers
<1>3. req'[r].adapter = [req[r].adapter EXCEPT !.steps = s] /\ req'[r].answer = answer
  BY <1>1, <1>2 DEF RequestTypes, AdapterTypes
<1>4. req'[r] \in RequestTypes
  <2>1. req'[r].adapter \in AdapterTypes
    BY <1>1, <1>3 DEF RequestTypes, AdapterTypes, AllSteps
  <2>2. answer \in Good \cup Errors \cup {"none", "gone"}
    OBVIOUS
  <2>3. req'[r] = [req[r] EXCEPT !.answer = answer, !.adapter = req'[r].adapter]
    BY ONLY <1>1, <1>2, <1>3 DEF RequestTypes
  <2> QED
    BY ONLY <1>1, <2>1, <2>2, <2>3 DEF RequestTypes
<1>5. /\ SameAdapter(req[r], req'[r]) /\ req'[r].adapter.steps = s
      /\ req'[r].tenant = req[r].tenant /\ req'[r].word = req[r].word
  <2>1. req'[r].who = req[r].who /\ req'[r].page = req[r].page
        /\ req'[r].tenant = req[r].tenant /\ req'[r].word = req[r].word
    BY ONLY <1>1, <1>2 DEF RequestTypes
  <2>2. req[r].adapter \in AdapterTypes
    BY ONLY <1>1 DEF RequestTypes
  <2> QED
    BY ONLY <1>3, <2>1, <2>2 DEF SameAdapter, AdapterTypes
<1>6. /\ \A p \in Requests \ {r} : req'[p] = req[p]
      /\ req' \in [Requests -> RequestTypes]
  BY <1>1, <1>4 DEF TypeOK, Answers
<1> QED
  BY <1>3, <1>5, <1>6

LEMMA ConcludeChanges ==
  ASSUME TypeOK, NEW r \in Requests, rows[r] \in {<<>>, <<"attempted">>},
         NEW answer \in Good \cup Errors, NEW after \in {<<>>, <<"shadow">>},
         ConcludeAfter(r, answer, after)
  PROVE  /\ SameAdapter(req[r], req'[r])
         /\ req'[r].adapter.steps =
              after \o (IF Contains(rows[r], "attempted") THEN <<"result">> ELSE <<>>)
         /\ req'[r].tenant = req[r].tenant
         /\ req'[r].word = req[r].word
         /\ req'[r].answer = answer
         /\ \A p \in Requests \ {r} : req'[p] = req[p]
         /\ req' \in [Requests -> RequestTypes]
<1> DEFINE s == after \o (IF Contains(rows[r], "attempted") THEN <<"result">> ELSE <<>>)
<1>1. req[r] \in RequestTypes
  BY DEF TypeOK
<1>2. s \in Seq(AllSteps)
  <2>1. s \in {<<>>} \cup WithResult \cup WithShadow
    BY ResultComesLast
  <2>2. "shadow" \in AllSteps /\ "result" \in AllSteps
    BY DEF AllSteps
  <2>3. /\ <<>> \in Seq(AllSteps) /\ <<"shadow">> \in Seq(AllSteps)
        /\ <<"result">> \in Seq(AllSteps) /\ <<"shadow", "result">> \in Seq(AllSteps)
    BY <2>2
  <2> QED
    BY <2>1, <2>3 DEF WithResult, WithShadow
<1>3. Answers(r, answer, s)
  BY DEF ConcludeAfter, Attempted, Answers
<1>4. answer \in Good \cup Errors \cup {"gone"}
  OBVIOUS
<1> HIDE DEF s
<1>5. /\ SameAdapter(req[r], req'[r]) /\ req'[r].adapter.steps = s
      /\ req'[r].tenant = req[r].tenant /\ req'[r].word = req[r].word
      /\ req'[r].answer = answer
      /\ \A p \in Requests \ {r} : req'[p] = req[p]
      /\ req' \in [Requests -> RequestTypes]
  BY <1>2, <1>3, <1>4, AnswerChanges
<1> QED
  BY <1>5 DEF s

LEMMA EndChanges ==
  ASSUME TypeOK, NEW r \in Requests, NEW how, Call!End(r, how), how \in Call!Ends
  PROVE  /\ call[r].phase = "open"
         /\ call'[r].phase = how
         /\ call'[r].write = call[r].write
         /\ call'[r].seen = call[r].seen
         /\ how \in {"ok", "rejected"} => call[r].seen = 1
         /\ how \in {"blocked", "refused"} => call[r].seen = 0
         /\ \A p \in Requests \ {r} : call'[p] = call[p]
         /\ call' \in [Requests -> [phase : {"idle", "open"} \cup Call!Ends,
                                    write : BOOLEAN, seen : 0..1]]
BY DEF TypeOK, Call!CallTypeOK, Call!End, Call!Ends

LEMMA LogChanges ==
  ASSUME TypeOK, NEW r \in Requests, NEW row \in RowTypes, Log(r, row)
  PROVE  /\ rows'[r] = Append(rows[r], row)
         /\ rows[r] = <<>> => rows'[r] = <<row>>
         /\ \A p \in Requests \ {r} : rows'[p] = rows[p]
         /\ rows' \in [Requests -> Seq(RowTypes)]
<1>1. rows[r] \in Seq(RowTypes) /\ Append(rows[r], row) \in Seq(RowTypes)
  BY AppendProperties DEF TypeOK
<1>2. rows'[r] = Append(rows[r], row)
  BY DEF Log, TypeOK
<1>3. rows[r] = <<>> => rows'[r] = <<row>>
  BY <1>2, AppendToEmpty
<1>4. /\ \A p \in Requests \ {r} : rows'[p] = rows[p]
      /\ rows' \in [Requests -> Seq(RowTypes)]
  BY <1>1 DEF Log, TypeOK
<1> QED
  BY <1>2, <1>3, <1>4

LEMMA StepRuns ==
  ASSUME IInv, NEW r \in Requests, NEW step \in Names, At(r, step)
  PROVE  /\ Running(req[r], rows[r], call[r]) /\ receipt[r] = "none"
         /\ Step(r) # <<>> /\ Head(Step(r)) = step /\ TypeOK
<1>1. Step(r) # <<>> /\ Head(Step(r)) = step
  BY DEF At, Settled
<1>2. Head(<<"shadow">>) = "shadow" /\ Head(<<"result">>) = "result"
      /\ Head(<<"shadow", "result">>) = "shadow"
  OBVIOUS
<1>3. ~Ended(r)
  BY <1>1, <1>2 DEF Ended, Concluded, WithResult, WithShadow, Step, Names, CallSteps
<1> QED
  BY <1>1, <1>3 DEF IInv, Runs

-----------------------------------------------------------------------------
(* One request at a time.                                                  *)

(* The other requests are as they were.                                    *)
LEMMA OthersStay ==
  ASSUME IInv, NEW r \in Requests, TypeOK', mode' = mode,
         \A p \in Requests \ {r} : /\ req'[p] = req[p] /\ rows'[p] = rows[p]
                                  /\ receipt'[p] = receipt[p] /\ call'[p] = call[p],
         Runs(r)' \/ Ended(r)'
  PROVE  IInv'
<1> SUFFICES ASSUME NEW p \in Requests, p # r PROVE Runs(p)' \/ Ended(p)'
  BY DEF IInv
<1>1. Runs(p) \/ Ended(p)
  BY DEF IInv
<1> QED
  BY <1>1 DEF Runs, Ended

(* A call has ended with what FORJD has said.                              *)
LEMMA CallOutcome ==
  ASSUME IInv, NEW r \in Requests, NEW step \in CallSteps, NEW how \in Ways, Ends(r, step, how)
  PROVE  /\ call'[r].phase = how /\ call'[r].seen = call[r].seen
         /\ call'[r].write = (step \in WriteSteps) /\ call[r].write = (step \in WriteSteps)
         /\ how = "ok" => call[r].seen = 1 /\ req[r].word \in {"yes", "no"}
         /\ how = "ok" /\ req[r].word = "no" => step \in {"owned", "published", "heal", "resolve"}
         /\ req[r].word = "yes" => how \in {"ok", "failed"}
         /\ req[r].word = "yes" /\ step = "owned" => Owner[req[r].page] = req[r].tenant
         /\ \A p \in Requests \ {r} : call'[p] = call[p]
         /\ Call!CallTypeOK'
<1>1. how \in Call!Ends
  BY DEF Ways, Call!Ends
<1>2. Call!End(r, how) /\ At(r, step) /\ TypeOK
  BY DEF Ends, IInv
<1>3. /\ call[r].phase = "open" /\ call'[r].phase = how
      /\ call'[r].write = call[r].write /\ call'[r].seen = call[r].seen
      /\ how \in {"ok", "rejected"} => call[r].seen = 1
      /\ how \in {"blocked", "refused"} => call[r].seen = 0
      /\ \A p \in Requests \ {r} : call'[p] = call[p]
  BY <1>1, <1>2, EndChanges
<1>4. Call!CallTypeOK'
  BY <1>1, <1>2, EndChanges DEF Call!CallTypeOK
<1>5. OpenCall(req[r], call[r]) /\ Head(req[r].adapter.steps) = step
  BY <1>2, StepRuns DEF Running, Names, Step
<1> QED
  BY <1>2, <1>3, <1>4, <1>5 DEF OpenCall, Ends, Ways

(* What becomes of the call in a step: its end, or nothing.                *)
CallGoesOn(r, step) ==
  IF step \in CallSteps THEN \E how \in Ways : Ends(r, step, how) ELSE call' = call

LEMMA CallAfterStep ==
  ASSUME IInv, NEW r \in Requests, NEW step \in Names, At(r, step), CallGoesOn(r, step)
  PROVE  /\ call'[r].phase # "open"
         /\ call'[r].write = call[r].write
         /\ step \notin CallSteps => call' = call /\ ~call[r].write
         /\ \A p \in Requests \ {r} : call'[p] = call[p]
         /\ Call!CallTypeOK'
<1>1. CASE step \in CallSteps
  BY <1>1, CallOutcome DEF CallGoesOn, Ways
<1>2. CASE step \notin CallSteps
  <2>1. /\ Running(req[r], rows[r], call[r]) /\ Head(req[r].adapter.steps) = step
        /\ req[r].adapter.steps # <<>>
    BY StepRuns DEF Step
  <2>2. call[r].phase # "open"
    BY <1>2, <2>1 DEF Running, OpenCall
  <2>3. req[r].adapter.steps[1] = step /\ Len(req[r].adapter.steps) \in Nat \ {0}
    BY <2>1, TailFacts DEF Running, Shape
  <2>4. ~Only(req[r].adapter.steps, WriteSteps)
    BY <1>2, <2>3 DEF Only, WriteSteps, CallSteps
  <2>5. call[r].write \in BOOLEAN /\ ~call[r].write /\ Call!CallTypeOK
    BY <2>1, <2>4 DEF Running, IInv, TypeOK, Call!CallTypeOK
  <2> QED
    BY <1>2, <2>2, <2>5 DEF CallGoesOn, Call!CallTypeOK
<1> QED
  BY <1>1, <1>2

(* A step that goes on to the next.                                        *)
LEMMA Continues ==
  ASSUME IInv, NEW r \in Requests, NEW step \in Names \ Finals, At(r, step), Go(r),
         step \notin {"credential", "widgetCredential", "attempt"},
         step = "owned" => Mine(req[r]),
         step = "resolve" => InDirectory(req[r].page) \/ Tail(Step(r))[1] = "resolve",
         CallGoesOn(r, step), UNCHANGED <<mode, rows, receipt>>
  PROVE  IInv'
<1>1. /\ Running(req[r], rows[r], call[r]) /\ receipt[r] = "none" /\ TypeOK
      /\ Head(req[r].adapter.steps) = step /\ ~Settled(r)
  BY StepRuns DEF Step, Settled
<1>2. Len(req[r].adapter.steps) > 1
  BY <1>1, ShapeGoesOn DEF Running
<1>3. /\ SameAdapter(req[r], req'[r])
      /\ req'[r].adapter.steps = Tail(req[r].adapter.steps)
      /\ req'[r].tenant = req[r].tenant
      /\ req'[r].word = req[r].word
      /\ req'[r].answer = req[r].answer
      /\ \A p \in Requests \ {r} : req'[p] = req[p]
      /\ req' \in [Requests -> RequestTypes]
  BY <1>1, GoChanges DEF Step
<1>4. /\ call'[r].phase # "open" /\ call'[r].write = call[r].write
      /\ step \notin CallSteps => call' = call
      /\ \A p \in Requests \ {r} : call'[p] = call[p]
      /\ Call!CallTypeOK'
  BY CallAfterStep
<1>5. Running(req'[r], rows[r], call'[r])
  <2> DEFINE q == req[r]
             q2 == req'[r]
             c2 == call'[r]
             log2 == rows[r]
  <2>1. log2 = IF Head(q.adapter.steps) = "attempt" THEN <<"attempted">> ELSE rows[r]
    BY <1>1
  <2>2. q2.tenant = CASE Head(q.adapter.steps) = "credential" -> q.who
                      [] Head(q.adapter.steps) = "widgetCredential" -> Owner[q.page]
                      [] OTHER -> q.tenant
    BY <1>1, <1>3
  <2>3. /\ q2.adapter.steps = Tail(q.adapter.steps)
        /\ q2.adapter.action = q.adapter.action /\ q2.adapter.fallback = q.adapter.fallback
        /\ q2.who = q.who /\ q2.page = q.page /\ q2.answer = "none"
    BY <1>1, <1>3 DEF SameAdapter, Running
  <2>4. /\ Head(q.adapter.steps) = "owned" => Mine(q)
        /\ Head(q.adapter.steps) = "resolve" =>
             InDirectory(q.page) \/ Tail(q.adapter.steps)[1] = "resolve"
        /\ Head(q.adapter.steps) \notin CallSteps => c2 = call[r]
    BY <1>1, <1>4 DEF Step
  <2> HIDE DEF q, q2, c2, log2
  <2>5. Running(q2, log2, c2)
    BY <1>1, <1>2, <1>4, <2>1, <2>2, <2>3, <2>4, Advance DEF q, c2
  <2> QED
    BY <2>5 DEF q2, log2, c2
<1>6. TypeOK'
  BY <1>1, <1>3, <1>4 DEF TypeOK
<1> QED
  BY <1>1, <1>3, <1>4, <1>5, <1>6, OthersStay DEF Runs

(* A step that answers the request.                                        *)
LEMMA Concludes ==
  ASSUME IInv, NEW r \in Requests, NEW step \in Names, At(r, step),
         NEW answer \in Good \cup Errors, NEW after \in {<<>>, <<"shadow">>},
         ConcludeAfter(r, answer, after),
         CallGoesOn(r, step), UNCHANGED <<mode, rows, receipt>>,
         after = <<"shadow">> /\ call'[r].phase = "ok" => Confirms(req[r], call'[r]),
         rows[r] = <<"attempted">> /\ answer \in Good => Confirms(req[r], call'[r]),
         answer \in {"data", "done", "listed", "missing"} => call'[r].phase = "ok",
         answer = "empty" =>
           req[r].adapter.fallback /\ mode.read # "forjd" /\ call'[r].phase # "ok",
         call'[r].write /\ req[r].word = "yes" => answer \in {"done", "degraded", "counted"}
  PROVE  IInv'
<1>1. /\ Running(req[r], rows[r], call[r]) /\ receipt[r] = "none" /\ TypeOK
      /\ rows[r] \in {<<>>, <<"attempted">>}
  BY StepRuns DEF Running
<1>2. /\ SameAdapter(req[r], req'[r])
      /\ req'[r].adapter.steps =
           after \o (IF Contains(rows[r], "attempted") THEN <<"result">> ELSE <<>>)
      /\ req'[r].word = req[r].word
      /\ req'[r].answer = answer
      /\ \A p \in Requests \ {r} : req'[p] = req[p]
      /\ req' \in [Requests -> RequestTypes]
  BY <1>1, ConcludeChanges
<1>3. /\ call'[r].phase # "open" /\ call'[r].write = call[r].write
      /\ \A p \in Requests \ {r} : call'[p] = call[p]
      /\ Call!CallTypeOK'
  BY CallAfterStep
<1>4. Honest(req'[r], call'[r], mode.read)
  BY <1>2 DEF Honest, SameAdapter
<1>5. Confirms(req[r], call'[r]) => Confirms(req'[r], call'[r])
  BY <1>2 DEF Confirms
<1>6. Concluded(req'[r], rows[r], "none", call'[r], mode.read)
  <2> DEFINE q2 == req'[r]
             c2 == call'[r]
  <2>1. /\ Running(req[r], rows[r], call[r])
        /\ q2.adapter.steps =
             after \o (IF Contains(rows[r], "attempted") THEN <<"result">> ELSE <<>>)
        /\ q2.adapter.action = req[r].adapter.action
        /\ q2.answer \in Good \cup Errors
        /\ c2.phase # "open" /\ c2.write = call[r].write
        /\ Honest(q2, c2, mode.read)
    BY <1>1, <1>2, <1>3, <1>4 DEF SameAdapter
  <2>2. /\ after = <<"shadow">> /\ c2.phase = "ok" => Confirms(q2, c2)
        /\ rows[r] = <<"attempted">> /\ q2.answer \in Good => Confirms(q2, c2)
    BY <1>2, <1>5
  <2>3. after \in {<<>>, <<"shadow">>}
    OBVIOUS
  <2> HIDE DEF q2, c2
  <2>4. Concluded(q2, rows[r], "none", c2, mode.read)
    BY ONLY <2>1, <2>2, <2>3, Conclusion
  <2> QED
    BY ONLY <2>4 DEF q2, c2
<1>7. TypeOK'
  BY <1>1, <1>2, <1>3 DEF TypeOK
<1> QED
  BY <1>1, <1>2, <1>3, <1>6, <1>7, OthersStay DEF Ended

(* What is not part of a privileged adapter's work is done by no request   *)
(* that has left the row of an attempt.                                    *)
LEMMA NotPrivileged ==
  ASSUME IInv, NEW r \in Requests, NEW step \in Names \ Privileges, At(r, step)
  PROVE  rows[r] = <<>>
<1>1. /\ Running(req[r], rows[r], call[r]) /\ Head(req[r].adapter.steps) = step
      /\ req[r].adapter.steps # <<>>
  BY StepRuns DEF Step
<1>2. req[r].adapter.steps[1] = step /\ Len(req[r].adapter.steps) \in Nat \ {0}
  BY <1>1, TailFacts DEF Running, Shape
<1>3. ~Only(req[r].adapter.steps, Privileges)
  BY <1>2 DEF Only
<1> QED
  BY <1>1, <1>3 DEF Running

(* The request is given up: by its client, or by an exception.             *)
LEMMA GivenUp ==
  ASSUME IInv, NEW r \in Requests, NEW answer \in {"gone", "escaped"},
         Answers(r, answer, <<>>),
         IF InCall(r) THEN Call!End(r, "dropped") ELSE UNCHANGED call,
         UNCHANGED <<mode, rows, receipt>>,
         call[r].write => answer = "gone"
  PROVE  IInv'
<1>1. TypeOK /\ req[r] \in RequestTypes
  BY DEF IInv, TypeOK
<1> DEFINE none == <<>>
<1>2. /\ none \in Seq(AllSteps) /\ answer \in Good \cup Errors \cup {"gone"}
      /\ r \in Requests /\ Answers(r, answer, none)
  BY DEF Errors
<1>3. /\ SameAdapter(req[r], req'[r]) /\ req'[r].adapter.steps = <<>>
      /\ req'[r].word = req[r].word /\ req'[r].answer = answer
      /\ \A p \in Requests \ {r} : req'[p] = req[p]
      /\ req' \in [Requests -> RequestTypes]
  <2> HIDE DEF none
  <2>1. /\ SameAdapter(req[r], req'[r]) /\ req'[r].adapter.steps = none
        /\ req'[r].word = req[r].word /\ req'[r].answer = answer
        /\ \A p \in Requests \ {r} : req'[p] = req[p]
        /\ req' \in [Requests -> RequestTypes]
    BY ONLY <1>1, <1>2, AnswerChanges
  <2> QED
    BY ONLY <2>1 DEF none
<1>4. req'[r].adapter.action = req[r].adapter.action
  BY <1>3 DEF SameAdapter
<1>5. /\ call'[r].phase = IF InCall(r) THEN "dropped" ELSE call[r].phase
      /\ call'[r].write = call[r].write /\ call'[r].seen = call[r].seen
      /\ ~InCall(r) => call'[r] = call[r]
      /\ \A p \in Requests \ {r} : call'[p] = call[p]
      /\ Call!CallTypeOK'
  BY <1>1, EndChanges DEF Call!Ends, TypeOK, Call!CallTypeOK
<1>6. Concluded(req'[r], rows[r], receipt[r], call'[r], mode.read)
  <2>1. CASE Runs(r)
    <3>1. /\ rows[r] \in {<<>>, <<"attempted">>} /\ receipt[r] = "none"
          /\ call[r].write => req[r].adapter.action = "public" \/ rows[r] = <<"attempted">>
      BY <2>1 DEF Runs, Running
    <3>2. Audited(req'[r], rows[r], receipt[r], call'[r])
      <4>1. rows[r] # <<"denied">> /\ rows[r] # <<"attempted", "succeeded">>
        BY <3>1, TuplesDiffer
      <4>2. <<>> \notin WithResult /\ <<>> \notin WithShadow /\ answer \notin Good
        BY TuplesDiffer DEF WithResult, WithShadow, Good
      <4>3. call'[r].write /\ rows[r] = <<>> => req'[r].adapter.action = "public"
        BY <1>4, <1>5, <3>1, TuplesDiffer
      <4> QED
        BY <1>3, <3>1, <4>1, <4>2, <4>3 DEF Audited
    <3>3. answer \notin {"data", "done", "listed", "missing", "empty"}
      OBVIOUS
    <3> QED
      BY <1>2, <1>3, <1>5, <3>2, <3>3 DEF Concluded, Honest, InCall
  <2>2. CASE Ended(r)
    <3>1. call'[r] = call[r] /\ Audited(req[r], rows[r], receipt[r], call[r])
          /\ call[r].phase # "open"
      BY <1>5, <2>2 DEF Ended, Concluded, InCall
    <3>2. Confirms(req[r], call[r]) => Confirms(req'[r], call'[r])
      BY <1>3, <3>1 DEF Confirms
    <3>3. Audited(req'[r], rows[r], receipt[r], call'[r])
      BY <1>3, <1>4, <3>1, <3>2, TuplesDiffer DEF Audited, WithResult, WithShadow, Good
    <3> QED
      BY <1>2, <1>3, <3>1, <3>3 DEF Concluded, Honest
  <2> QED
    BY <2>1, <2>2 DEF IInv
<1>7. TypeOK'
  BY <1>1, <1>3, <1>5 DEF TypeOK
<1> QED
  BY <1>3, <1>5, <1>6, <1>7, OthersStay DEF Ended

-----------------------------------------------------------------------------
(* The steps before a call.                                                *)

(* An answer that is neither success nor data, before any call.            *)
LEMMA Refuses ==
  ASSUME IInv, NEW r \in Requests, NEW step \in Names \ CallSteps, At(r, step),
         NEW answer \in Errors, answer # "missing", Conclude(r, answer), Local
  PROVE  IInv'
<1>1. CallGoesOn(r, step) /\ UNCHANGED <<mode, rows, receipt>>
  BY DEF CallGoesOn, Local
<1>2. ~call'[r].write
  BY <1>1, CallAfterStep DEF Local
<1>3. answer \notin Good /\ answer \notin {"data", "done", "listed", "missing", "empty"}
  BY DEF Errors, Good
<1> QED
  BY <1>1, <1>2, <1>3, Concludes DEF Conclude

LEMMA GateKeeps ==
  ASSUME IInv, NEW r \in Requests, Gate(r) PROVE IInv'
<1>1. PICK step \in {"writes", "skip", "reads"} :
        /\ At(r, step)
        /\ \/ Go(r)
           \/ step # "skip" /\ Conclude(r, "off")
           \/ step = "skip" /\ ~ReadsFromForjd /\ Conclude(r, "empty")
  BY DEF Gate
<1>2. Local /\ step \in Names \ (CallSteps \cup Finals)
  BY DEF Gate, Names, CallSteps, Finals
<1>3. CallGoesOn(r, step) /\ UNCHANGED <<mode, rows, receipt>>
  BY <1>2 DEF CallGoesOn, Local
<1>4. CASE Go(r)
  BY <1>1, <1>2, <1>3, <1>4, Continues
<1>5. CASE step # "skip" /\ Conclude(r, "off")
  BY <1>1, <1>2, <1>5, Refuses DEF Errors
<1>6. CASE step = "skip" /\ ~ReadsFromForjd /\ Conclude(r, "empty")
  <2>1. Running(req[r], rows[r], call[r]) /\ Head(req[r].adapter.steps) = "skip"
        /\ req[r].adapter.steps # <<>>
    BY <1>1, <1>2, <1>6, StepRuns DEF Step
  <2>2. ~Lacks(req[r].adapter.steps, {"skip"}) /\ ~Lacks(req[r].adapter.steps, {"authorize", "skip"})
    <3>1. req[r].adapter.steps \in Seq(Names)
      BY <2>1 DEF Running, Shape
    <3> QED
      BY ONLY <2>1, <3>1, NotLacking
  <2>3. req[r].adapter.fallback /\ call[r].phase = "idle" /\ mode.read # "forjd"
    BY <1>6, <2>1, <2>2 DEF Running, ReadsFromForjd
  <2>4. rows[r] = <<>>
    BY <1>1, <1>2, <1>6, NotPrivileged DEF Privileges
  <2>5. call' = call /\ ~call'[r].write
    BY <1>1, <1>2, <1>3, CallAfterStep DEF Local
  <2> QED
    BY <1>1, <1>2, <1>3, <1>6, <2>3, <2>4, <2>5, Concludes, TuplesDiffer DEF Conclude, Good
<1> QED
  BY <1>1, <1>4, <1>5, <1>6

LEMMA PayloadKeeps ==
  ASSUME IInv, NEW r \in Requests, Payload(r) PROVE IInv'
<1>1. At(r, "payload") /\ Local /\ "payload" \in Names \ (CallSteps \cup Finals)
  BY DEF Payload, Names, CallSteps, Finals
<1>2. CallGoesOn(r, "payload") /\ UNCHANGED <<mode, rows, receipt>>
  BY <1>1 DEF CallGoesOn, Local
<1>3. CASE Go(r)
  BY <1>1, <1>2, <1>3, Continues
<1>4. CASE \E answer \in {"bad", "denied"} : Conclude(r, answer)
  BY <1>1, <1>4, Refuses DEF Errors
<1> QED
  BY <1>3, <1>4 DEF Payload

LEMMA BindKeeps ==
  ASSUME IInv, NEW r \in Requests, Bind(r) PROVE IInv'
<1>1. At(r, "bind") /\ Local /\ "bind" \in Names \ (CallSteps \cup Finals)
  BY DEF Bind, Names, CallSteps, Finals
<1>2. CallGoesOn(r, "bind") /\ UNCHANGED <<mode, rows, receipt>>
  BY <1>1 DEF CallGoesOn, Local
<1>3. CASE Go(r)
  BY <1>1, <1>2, <1>3, Continues
<1>4. CASE Conclude(r, "bad")
  BY <1>1, <1>4, Refuses DEF Errors
<1>5. CASE Answers(r, "escaped", <<>>)
  <2>1. ~call[r].write /\ call' = call
    BY <1>1, <1>2, CallAfterStep
  <2>2. ~InCall(r)
    BY <1>1, <1>2, <2>1, CallAfterStep DEF InCall
  <2> QED
    BY <1>2, <1>5, <2>1, <2>2, GivenUp
<1> QED
  BY <1>3, <1>4, <1>5 DEF Bind, Answers

LEMMA TellKeeps ==
  ASSUME IInv, NEW r \in Requests, Tell(r) PROVE IInv'
<1>1. At(r, "tell") /\ Local /\ "tell" \in Names \ (CallSteps \cup Privileges)
  BY DEF Tell, Names, CallSteps, Privileges
<1>2. CallGoesOn(r, "tell") /\ UNCHANGED <<mode, rows, receipt>>
  BY <1>1 DEF CallGoesOn, Local
<1>3. rows[r] = <<>> /\ ~call'[r].write
  BY <1>1, <1>2, NotPrivileged, CallAfterStep
<1> QED
  BY <1>1, <1>2, <1>3, Concludes, TuplesDiffer DEF Tell, Conclude, Good

LEMMA RetiredKeeps ==
  ASSUME IInv, NEW r \in Requests, Retired(r) PROVE IInv'
<1>1. "retired" \in Names \ CallSteps /\ "unsupported" \in Errors
  BY DEF Names, CallSteps, Errors
<1> QED
  BY <1>1, Refuses DEF Retired

(* A denial comes before any call and before any other row.                *)
LEMMA DeniesWithRow ==
  ASSUME IInv, NEW r \in Requests, At(r, "authorize"), Conclude(r, "denied"),
         Log(r, "denied"), UNCHANGED <<mode, mapping, receipt, call>>
  PROVE  IInv'
<1>1. /\ Running(req[r], rows[r], call[r]) /\ receipt[r] = "none" /\ TypeOK
      /\ Head(req[r].adapter.steps) = "authorize" /\ req[r].adapter.steps # <<>>
  BY StepRuns DEF Step, Names
<1>2. /\ ~Lacks(req[r].adapter.steps, {"authorize", "attempt"})
      /\ ~Lacks(req[r].adapter.steps, {"authorize", "skip"})
  <2>1. req[r].adapter.steps \in Seq(Names)
    BY <1>1 DEF Running, Shape
  <2> QED
    BY ONLY <1>1, <2>1, NotLacking
<1>3. rows[r] = <<>> /\ call[r].phase = "idle"
  BY <1>1, <1>2 DEF Running
<1>4. "authorize" \in Names /\ CallGoesOn(r, "authorize") /\ "authorize" \notin CallSteps
  BY DEF Names, CallSteps, CallGoesOn
<1>5. ~call[r].write
  BY <1>4, CallAfterStep
<1>6. /\ req'[r].adapter.steps = <<>> \o (IF Contains(rows[r], "attempted") THEN <<"result">> ELSE <<>>)
      /\ req'[r].answer = "denied"
      /\ \A p \in Requests \ {r} : req'[p] = req[p]
      /\ req' \in [Requests -> RequestTypes]
  BY <1>1, <1>3, ConcludeChanges DEF Conclude, Errors
<1>7. req'[r].adapter.steps = <<>>
  <2>1. req'[r].adapter.steps \notin WithResult /\ req'[r].adapter.steps \notin WithShadow
        /\ req'[r].adapter.steps \in {<<>>} \cup WithResult \cup WithShadow
    BY <1>3, <1>6, ResultComesLast
  <2> QED
    BY <2>1
<1>8. /\ rows' \in [Requests -> Seq(RowTypes)] /\ rows'[r] = <<"denied">>
      /\ \A p \in Requests \ {r} : rows'[p] = rows[p]
  BY <1>1, <1>3, LogChanges DEF RowTypes
<1>9. Concluded(req'[r], rows'[r], "none", call'[r], mode.read)
  <2>1. Audited(req'[r], rows'[r], "none", call'[r])
    BY <1>3, <1>5, <1>6, <1>7, <1>8, TuplesDiffer DEF Audited, WithResult, WithShadow, Good
  <2>2. Honest(req'[r], call'[r], mode.read)
    BY <1>5, <1>6 DEF Honest
  <2> QED
    BY <1>3, <1>6, <1>7, <2>1, <2>2 DEF Concluded, Errors
<1>10. TypeOK'
  BY <1>1, <1>6, <1>8 DEF TypeOK, Call!CallTypeOK
<1> QED
  BY <1>1, <1>6, <1>8, <1>9, <1>10, OthersStay DEF Ended

LEMMA AuthorizeKeeps ==
  ASSUME IInv, NEW r \in Requests, Authorize(r) PROVE IInv'
<1>1. "authorize" \in Names \ (CallSteps \cup Finals) /\ At(r, "authorize")
  BY DEF Authorize, Names, CallSteps, Finals
<1>2. CASE Conclude(r, "denied") /\ Local
  BY <1>1, <1>2, Refuses DEF Errors
<1>3. CASE Go(r) /\ Local
  <2>1. CallGoesOn(r, "authorize") /\ UNCHANGED <<mode, rows, receipt>>
    BY <1>1, <1>3 DEF CallGoesOn, Local
  <2> QED
    BY <1>1, <1>3, <2>1, Continues
<1>4. CASE /\ Conclude(r, "denied") /\ Log(r, "denied")
           /\ UNCHANGED <<mode, mapping, receipt, call>>
  BY <1>1, <1>4, DeniesWithRow
<1> QED
  BY <1>2, <1>3, <1>4 DEF Authorize

LEMMA AttemptKeeps ==
  ASSUME IInv, NEW r \in Requests, Attempt(r) PROVE IInv'
<1>1. /\ Running(req[r], rows[r], call[r]) /\ receipt[r] = "none" /\ TypeOK
      /\ Head(req[r].adapter.steps) = "attempt" /\ req[r].adapter.steps # <<>>
      /\ ~Settled(r)
  BY StepRuns DEF Attempt, Step, Names, Settled
<1>2. Len(req[r].adapter.steps) > 1
  BY <1>1, ShapeGoesOn DEF Running, Finals
<1>3. rows[r] = <<>>
  <2>1. ~Lacks(req[r].adapter.steps, {"authorize", "attempt"})
    BY <1>1, TailFacts DEF Running, Shape, Lacks
  <2> QED
    BY <1>1, <2>1 DEF Running
<1>4. /\ SameAdapter(req[r], req'[r])
      /\ req'[r].adapter.steps = Tail(req[r].adapter.steps)
      /\ req'[r].tenant = req[r].tenant
      /\ req'[r].answer = req[r].answer
      /\ \A p \in Requests \ {r} : req'[p] = req[p]
      /\ req' \in [Requests -> RequestTypes]
  BY <1>1, GoChanges DEF Attempt, Step
<1>5. /\ rows' \in [Requests -> Seq(RowTypes)] /\ rows'[r] = <<"attempted">>
      /\ \A p \in Requests \ {r} : rows'[p] = rows[p]
  BY <1>1, <1>3, LogChanges DEF Attempt, RowTypes
<1>6. call[r].phase # "open" /\ call' = call
  BY <1>1 DEF Attempt, Running, OpenCall, CallSteps
<1>7. Running(req'[r], rows'[r], call'[r])
  <2> DEFINE q == req[r]
             q2 == req'[r]
             log2 == rows'[r]
  <2>1. log2 = IF Head(q.adapter.steps) = "attempt" THEN <<"attempted">> ELSE rows[r]
    BY <1>1, <1>5
  <2>2. q2.tenant = CASE Head(q.adapter.steps) = "credential" -> q.who
                      [] Head(q.adapter.steps) = "widgetCredential" -> Owner[q.page]
                      [] OTHER -> q.tenant
    BY <1>1, <1>4
  <2>3. /\ q2.adapter.action = q.adapter.action /\ q2.adapter.fallback = q.adapter.fallback
        /\ q2.who = q.who /\ q2.page = q.page /\ q2.answer = "none"
    BY <1>1, <1>4 DEF SameAdapter, Running
  <2> HIDE DEF q2, log2
  <2>4. Running(q2, log2, call[r])
    BY <1>1, <1>2, <1>4, <1>6, <2>1, <2>2, <2>3, Advance DEF q2
  <2> QED
    BY <1>6, <2>4 DEF q2, log2
<1>8. TypeOK'
  BY <1>1, <1>4, <1>5, <1>6 DEF TypeOK, Attempt, Call!CallTypeOK
<1> QED
  BY <1>1, <1>4, <1>5, <1>6, <1>7, <1>8, OthersStay DEF Runs, Attempt

(* The tenant a request is bound to.                                       *)
LEMMA BoundChanges ==
  ASSUME TypeOK, NEW r \in Requests, ~Settled(r), NEW tenant \in Parties, Bound(r, tenant)
  PROVE  /\ SameAdapter(req[r], req'[r])
         /\ req'[r].adapter.steps = Tail(Step(r))
         /\ req'[r].tenant = tenant
         /\ req'[r].answer = req[r].answer
         /\ \A p \in Requests \ {r} : req'[p] = req[p]
         /\ req' \in [Requests -> RequestTypes]
<1>1. req[r] \in RequestTypes /\ Step(r) \in Seq(AllSteps) /\ Step(r) # <<>>
  BY DEF TypeOK, RequestTypes, AdapterTypes, Step, Settled, AllSteps
<1>2. Tail(Step(r)) \in Seq(AllSteps)
  BY <1>1, TailFacts
<1>3. req'[r] = [req[r] EXCEPT !.tenant = tenant, !.adapter.steps = Tail(Step(r))]
  BY DEF Bound, TypeOK, Step
<1>4. req'[r].adapter = [req[r].adapter EXCEPT !.steps = Tail(Step(r))]
      /\ req'[r].tenant = tenant
  BY ONLY <1>1, <1>3 DEF RequestTypes, AdapterTypes
<1>5. req'[r].who = req[r].who /\ req'[r].page = req[r].page
      /\ req'[r].word = req[r].word /\ req'[r].answer = req[r].answer
  BY ONLY <1>1, <1>3 DEF RequestTypes
<1>6. req[r].adapter \in AdapterTypes
  BY ONLY <1>1 DEF RequestTypes
<1>7. req'[r].adapter \in AdapterTypes
  BY <1>2, <1>4, <1>6 DEF AdapterTypes, AllSteps
<1>8. req'[r] \in RequestTypes
  <2>1. req'[r] = [req[r] EXCEPT !.tenant = tenant, !.adapter = req'[r].adapter]
    BY ONLY <1>1, <1>3, <1>4 DEF RequestTypes
  <2> QED
    BY ONLY <1>1, <1>7, <2>1, tenant \in Parties DEF RequestTypes
<1>9. SameAdapter(req[r], req'[r]) /\ req'[r].adapter.steps = Tail(Step(r))
  BY ONLY <1>4, <1>5, <1>6 DEF SameAdapter, AdapterTypes
<1>10. /\ \A p \in Requests \ {r} : req'[p] = req[p]
       /\ req' \in [Requests -> RequestTypes]
  BY <1>1, <1>8 DEF Bound, TypeOK
<1> QED
  BY <1>4, <1>5, <1>9, <1>10

LEMMA Binds ==
  ASSUME IInv, NEW r \in Requests, NEW step \in {"credential", "widgetCredential"},
         At(r, step), NEW tenant \in Parties, Bound(r, tenant),
         tenant = IF step = "credential" THEN req[r].who ELSE Owner[req[r].page],
         UNCHANGED <<mode, rows, receipt, call>>
  PROVE  IInv'
<1>1. step \in Names \ (Finals \cup CallSteps)
  BY DEF Names, CallSteps, Finals
<1>2. /\ Running(req[r], rows[r], call[r]) /\ receipt[r] = "none" /\ TypeOK
      /\ Head(req[r].adapter.steps) = step /\ ~Settled(r)
  BY <1>1, StepRuns DEF Step, Settled
<1>3. Len(req[r].adapter.steps) > 1
  BY <1>1, <1>2, ShapeGoesOn DEF Running
<1>4. /\ SameAdapter(req[r], req'[r])
      /\ req'[r].adapter.steps = Tail(req[r].adapter.steps)
      /\ req'[r].tenant = tenant
      /\ req'[r].answer = req[r].answer
      /\ \A p \in Requests \ {r} : req'[p] = req[p]
      /\ req' \in [Requests -> RequestTypes]
  BY <1>2, BoundChanges DEF Step
<1>5. call[r].phase # "open"
  BY <1>1, <1>2 DEF Running, OpenCall
<1>6. Running(req'[r], rows[r], call[r])
  <2> DEFINE q == req[r]
             q2 == req'[r]
             log2 == rows[r]
  <2>1. log2 = IF Head(q.adapter.steps) = "attempt" THEN <<"attempted">> ELSE rows[r]
    BY <1>2
  <2>2. q2.tenant = CASE Head(q.adapter.steps) = "credential" -> q.who
                      [] Head(q.adapter.steps) = "widgetCredential" -> Owner[q.page]
                      [] OTHER -> q.tenant
    BY <1>2, <1>4
  <2>3. /\ q2.adapter.action = q.adapter.action /\ q2.adapter.fallback = q.adapter.fallback
        /\ q2.who = q.who /\ q2.page = q.page /\ q2.answer = "none"
    BY <1>2, <1>4 DEF SameAdapter, Running
  <2> HIDE DEF q2, log2
  <2>4. Running(q2, log2, call[r])
    BY <1>1, <1>2, <1>3, <1>4, <1>5, <2>1, <2>2, <2>3, Advance DEF q2
  <2> QED
    BY <2>4 DEF q2, log2
<1>7. TypeOK'
  BY <1>2, <1>4 DEF TypeOK, Call!CallTypeOK
<1> QED
  BY <1>2, <1>4, <1>6, <1>7, OthersStay DEF Runs

LEMMA CredentialKeeps ==
  ASSUME IInv, NEW r \in Requests, Credential(r) PROVE IInv'
<1>1. At(r, "credential") /\ "credential" \in Names \ CallSteps /\ req[r].who \in Parties
  BY DEF Credential, Names, CallSteps, IInv, TypeOK, RequestTypes
<1>2. CASE Bound(r, req[r].who)
  BY <1>1, <1>2, Binds DEF Credential, Provisions
<1>3. CASE Conclude(r, "degraded") /\ UNCHANGED mapping
  BY <1>1, <1>3, Refuses DEF Credential, Errors, Local
<1> QED
  BY <1>2, <1>3 DEF Credential, Provisions, Resolves, TenantOf

LEMMA WidgetCredentialKeeps ==
  ASSUME IInv, NEW r \in Requests, WidgetCredential(r) PROVE IInv'
<1>1. /\ At(r, "widgetCredential") /\ Local
      /\ "widgetCredential" \in Names \ (CallSteps \cup Privileges)
  BY DEF WidgetCredential, Names, CallSteps, Privileges
<1>2. CASE Conclude(r, "soft")
  <2>1. CallGoesOn(r, "widgetCredential") /\ UNCHANGED <<mode, rows, receipt>>
    BY <1>1 DEF CallGoesOn, Local
  <2>2. rows[r] = <<>> /\ ~call'[r].write
    BY <1>1, <2>1, NotPrivileged, CallAfterStep
  <2> QED
    BY <1>1, <1>2, <2>1, <2>2, Concludes, TuplesDiffer DEF Conclude, Good
<1>3. CASE Owner[req[r].page] \in Parties /\ Bound(r, Owner[req[r].page])
  BY <1>1, <1>3, Binds DEF Local
<1> QED
  BY <1>2, <1>3 DEF WidgetCredential, Parties

-----------------------------------------------------------------------------
(* The start of a call, and FORJD's part in it.                            *)

Hears(r, word) == req' = [req EXCEPT ![r].word = word]

LEMMA HearsChanges ==
  ASSUME TypeOK, NEW r \in Requests, NEW word \in {"none", "yes", "no", "error"},
         Hears(r, word)
  PROVE  /\ req'[r].adapter = req[r].adapter
         /\ req'[r].who = req[r].who /\ req'[r].page = req[r].page
         /\ req'[r].tenant = req[r].tenant /\ req'[r].answer = req[r].answer
         /\ req'[r].word = word
         /\ \A p \in Requests \ {r} : req'[p] = req[p]
         /\ req' \in [Requests -> RequestTypes]
<1>1. /\ req \in [Requests -> RequestTypes] /\ req[r] \in RequestTypes
      /\ req' = [req EXCEPT ![r] = [@ EXCEPT !.word = word]]
      /\ word \in {"none", "yes", "no", "error"}
  BY DEF Hears, TypeOK
<1>2. req'[r] = [req[r] EXCEPT !.word = word]
  BY <1>1
<1>3. /\ req'[r].adapter = req[r].adapter
      /\ req'[r].who = req[r].who /\ req'[r].page = req[r].page
      /\ req'[r].tenant = req[r].tenant /\ req'[r].answer = req[r].answer
      /\ req'[r].word = word
      /\ req'[r] \in RequestTypes
  BY ONLY <1>1, <1>2 DEF RequestTypes
<1> QED
  BY <1>1, <1>3

(* All that is said of a request whose call is under way.                  *)
LEMMA CallGoesOnRunning ==
  ASSUME NEW q, NEW log, NEW c, Running(q, log, c), NEW q2, NEW c2,
         q2.adapter = q.adapter, q2.who = q.who, q2.page = q.page, q2.tenant = q.tenant,
         q2.answer = q.answer, Head(q.adapter.steps) \in CallSteps,
         OpenCall(q2, c2),
         c2.write => Head(q.adapter.steps) \in WriteSteps
  PROVE  Running(q2, log, c2)
<1> DEFINE now == q.adapter.steps
<1>1. Shape(now) /\ Standing(q, log) /\ now \in Seq(Names) /\ now # <<>>
  BY DEF Running, Shape
<1>2. Mine(q2) <=> Mine(q)
  BY DEF Mine
<1>3. Standing(q2, log)
  <2>1. Needs(now, {"read", "write"}, {"owned"}, Mine(q2))
    BY <1>1, <1>2 DEF Standing, Needs
  <2>2. /\ Needs(now, {"owned"}, {"credential"}, q2.tenant = q2.who)
        /\ Needs(now, {"widgetCredential"} \cup Widget, {"resolve"}, InDirectory(q2.page))
        /\ Needs(now, Widget, {"widgetCredential"}, q2.tenant = Owner[q2.page])
    BY <1>1 DEF Standing, Needs
  <2>3. Needs(now, WriteSteps, {"attempt"},
              q2.adapter.action = "public" \/ log = <<"attempted">>)
    BY <1>1 DEF Standing
  <2> QED
    BY <1>1, <2>1, <2>2, <2>3 DEF Standing
<1>4. Lacks(now, {"authorize", "skip"})
  <2>1. Only(Tail(now), Names \ {"authorize", "skip"})
    BY <1>1, ThenTail DEF Shape
  <2> SUFFICES ASSUME NEW i \in 1..Len(now), i # 1 PROVE now[i] \notin {"authorize", "skip"}
    BY <1>1, TailFacts DEF Lacks, CallSteps
  <2>2. i - 1 \in 1..Len(Tail(now)) /\ Tail(now)[i - 1] = now[i]
    BY <1>1, TailFacts
  <2> QED
    BY <2>1, <2>2 DEF Only
<1>5. c2.write => Only(now, WriteSteps)
  <2> SUFFICES ASSUME Head(now) \in WriteSteps PROVE Only(now, WriteSteps)
    OBVIOUS
  <2>1. Only(Tail(now), WriteSteps)
    BY <1>1, ThenTail DEF Shape
  <2> SUFFICES ASSUME NEW i \in 1..Len(now), i # 1 PROVE now[i] \in WriteSteps
    BY <1>1, TailFacts DEF Only
  <2>2. i - 1 \in 1..Len(Tail(now)) /\ Tail(now)[i - 1] = now[i]
    BY <1>1, TailFacts
  <2> QED
    BY <2>1, <2>2 DEF Only
<1>6. c2.write => q2.adapter.action = "public" \/ log = <<"attempted">>
  BY <1>1, NeedsHead DEF Standing
<1> QED
  BY <1>1, <1>3, <1>4, <1>5, <1>6 DEF Running, Lacks

LEMMA IssueKeeps ==
  ASSUME IInv, NEW r \in Requests, Issue(r) PROVE IInv'
<1>1. PICK step \in CallSteps : At(r, step) /\ Call!Begin(r, step \in WriteSteps)
  BY DEF Issue
<1>2. Hears(r, "none") /\ UNCHANGED <<mode, mapping, rows, receipt>>
  BY DEF Issue, Hears
<1>3. /\ Running(req[r], rows[r], call[r]) /\ receipt[r] = "none" /\ TypeOK
      /\ Head(req[r].adapter.steps) = step
  BY <1>1, StepRuns DEF Step, Names
<1>4. /\ req'[r].adapter = req[r].adapter
      /\ req'[r].who = req[r].who /\ req'[r].page = req[r].page
      /\ req'[r].tenant = req[r].tenant /\ req'[r].answer = req[r].answer
      /\ req'[r].word = "none"
      /\ \A p \in Requests \ {r} : req'[p] = req[p]
      /\ req' \in [Requests -> RequestTypes]
  BY <1>2, <1>3, HearsChanges
<1>5. /\ call'[r].phase = "open" /\ call'[r].seen = 0
      /\ call'[r].write = (step \in WriteSteps)
      /\ \A p \in Requests \ {r} : call'[p] = call[p]
      /\ Call!CallTypeOK'
  BY <1>1, <1>3 DEF Call!Begin, TypeOK, Call!CallTypeOK
<1>6. OpenCall(req'[r], call'[r])
  BY <1>1, <1>3, <1>4, <1>5 DEF OpenCall
<1>7. Running(req'[r], rows[r], call'[r])
  BY <1>1, <1>3, <1>4, <1>5, <1>6, CallGoesOnRunning
<1>8. TypeOK'
  BY <1>2, <1>3, <1>4, <1>5 DEF TypeOK
<1> QED
  BY <1>2, <1>3, <1>4, <1>5, <1>7, <1>8, OthersStay DEF Runs

LEMMA ForjdTakesKeeps ==
  ASSUME IInv, NEW r \in Requests, ForjdTakes(r) PROVE IInv'
<1>1. PICK word \in {"yes", "no", "error"} :
        /\ word = "yes" /\ At(r, "owned") => Owner[req[r].page] = req[r].tenant
        /\ word = "no" => \E step \in {"owned", "published", "heal", "resolve"} : At(r, step)
        /\ Hears(r, word)
  BY DEF ForjdTakes, Hears
<1>2. Call!Reach(r) /\ UNCHANGED <<mode, mapping, rows, receipt>>
  BY DEF ForjdTakes
<1>3. /\ Running(req[r], rows[r], call[r]) /\ receipt[r] = "none" /\ TypeOK
      /\ call[r].phase = "open" /\ ~Settled(r)
  BY <1>2 DEF Call!Reach, IInv, Runs, Ended, Concluded, Running, Shape, Settled, Step
<1>4. /\ req'[r].adapter = req[r].adapter
      /\ req'[r].who = req[r].who /\ req'[r].page = req[r].page
      /\ req'[r].tenant = req[r].tenant /\ req'[r].answer = req[r].answer
      /\ req'[r].word = word
      /\ \A p \in Requests \ {r} : req'[p] = req[p]
      /\ req' \in [Requests -> RequestTypes]
  BY <1>1, <1>3, HearsChanges
<1>5. /\ call'[r].phase = "open" /\ call'[r].seen = 1
      /\ call'[r].write = call[r].write
      /\ \A p \in Requests \ {r} : call'[p] = call[p]
      /\ Call!CallTypeOK'
  BY <1>2, <1>3 DEF Call!Reach, TypeOK, Call!CallTypeOK
<1>6. OpenCall(req'[r], call'[r])
  BY <1>1, <1>3, <1>4, <1>5 DEF OpenCall, Running, At, Step
<1>7. Running(req'[r], rows[r], call'[r])
  <2>1. /\ Head(req[r].adapter.steps) \in CallSteps
        /\ call'[r].write => Head(req[r].adapter.steps) \in WriteSteps
    BY <1>3, <1>5 DEF Running, OpenCall
  <2> QED
    BY <1>3, <1>4, <1>6, <2>1, CallGoesOnRunning
<1>8. TypeOK'
  BY <1>2, <1>3, <1>4, <1>5 DEF TypeOK
<1> QED
  BY <1>2, <1>3, <1>4, <1>5, <1>7, <1>8, OthersStay DEF Runs

-----------------------------------------------------------------------------
(* What follows a call.                                                    *)

(* An error after a call: an outage, or a refusal of what was not done.    *)
LEMMA Fails ==
  ASSUME IInv, NEW r \in Requests, NEW step \in CallSteps, NEW how \in Ways,
         Ends(r, step, how), NEW answer \in Errors \ {"missing"},
         answer = "degraded" \/ step \notin WriteSteps \/ req[r].word # "yes",
         NEW after \in {<<>>, <<"shadow">>}, ConcludeAfter(r, answer, after),
         after = <<"shadow">> => how # "ok"
  PROVE  IInv'
<1>1. step \in Names /\ At(r, step) /\ CallGoesOn(r, step) /\ UNCHANGED <<mode, rows, receipt>>
  BY DEF Names, Ends, CallGoesOn
<1>2. answer \in Good \cup Errors /\ answer \notin Good
      /\ answer \notin {"data", "done", "listed", "missing", "empty"}
  BY DEF Good, Errors
<1>3. call'[r].phase = how /\ call'[r].write = (step \in WriteSteps)
  BY CallOutcome
<1>4. /\ after = <<"shadow">> /\ call'[r].phase = "ok" => Confirms(req[r], call'[r])
      /\ call'[r].write /\ req[r].word = "yes" => answer \in {"done", "degraded", "counted"}
  BY <1>3
<1> QED
  BY <1>1, <1>2, <1>4, Concludes

LEMMA FailsWith ==
  ASSUME IInv, NEW r \in Requests, NEW step \in CallSteps, NEW how \in Failures,
         Ends(r, step, how), NEW after \in {<<>>, <<"shadow">>},
         ConcludeAfter(r, ErrorOf(how), after)
  PROVE  IInv'
<1>1. ErrorOf(how) \in Errors \ {"missing"} /\ how \in Ways /\ how # "ok"
  BY DEF ErrorOf, Errors, Failures, Ways
<1>2. req[r].word = "yes" => ErrorOf(how) = "degraded"
  BY <1>1, CallOutcome DEF ErrorOf
<1> QED
  BY <1>1, <1>2, Fails

(* An answer to a read for which there is no privilege.                    *)
LEMMA Informs ==
  ASSUME IInv, NEW r \in Requests, NEW step \in CallSteps \ (Privileges \cup WriteSteps),
         NEW how \in Ways, Ends(r, step, how), NEW answer \in Good \cup Errors,
         how = "ok" \/ answer \in {"soft", "notFound"}, answer # "empty", Conclude(r, answer)
  PROVE  IInv'
<1>1. /\ step \in Names \ Privileges /\ At(r, step) /\ CallGoesOn(r, step)
      /\ UNCHANGED <<mode, rows, receipt>>
  BY DEF Names, Ends, CallGoesOn
<1>2. rows[r] = <<>>
  BY <1>1, NotPrivileged
<1>3. call'[r].phase = how /\ ~call'[r].write
  BY CallOutcome
<1> QED
  BY <1>1, <1>2, <1>3, Concludes, TuplesDiffer DEF Conclude

LEMMA ReadReturnsKeeps ==
  ASSUME IInv, NEW r \in Requests, ReadReturns(r) PROVE IInv'
<1>1. PICK how \in Ways :
        /\ Ends(r, "read", how)
        /\ \/ how = "ok" /\ Conclude(r, "data")
           \/ how = "ok" /\ req[r].adapter.reshapes /\ Conclude(r, "degraded")
           \/ how # "ok" /\ Conclude(r, ReadAnswer(r, how))
  BY DEF ReadReturns
<1>2. "read" \in CallSteps \ (Privileges \cup WriteSteps)
  BY DEF CallSteps, Privileges, WriteSteps
<1>3. CASE how = "ok" /\ \E answer \in {"data", "degraded"} : Conclude(r, answer)
  BY <1>1, <1>2, <1>3, Informs DEF Good, Errors
<1>4. CASE how # "ok" /\ Conclude(r, ErrorOf(how))
  BY <1>1, <1>2, <1>4, FailsWith DEF Conclude, Failures
<1>5. CASE /\ how # "ok" /\ req[r].adapter.fallback /\ EmptyReadFallback
           /\ Conclude(r, "empty")
  <2>1. /\ "read" \in Names \ Privileges /\ At(r, "read") /\ CallGoesOn(r, "read")
        /\ UNCHANGED <<mode, rows, receipt>>
    BY <1>1, <1>2 DEF Names, Ends, CallGoesOn
  <2>2. rows[r] = <<>>
    BY <2>1, NotPrivileged
  <2>3. call'[r].phase = how /\ ~call'[r].write
    BY <1>1, <1>2, CallOutcome
  <2>4. mode.read # "forjd"
    BY <1>5 DEF EmptyReadFallback
  <2> QED
    BY <1>5, <2>1, <2>2, <2>3, <2>4, Concludes, TuplesDiffer DEF Conclude, Good
<1> QED
  BY <1>1, <1>3, <1>4, <1>5 DEF ReadAnswer

LEMMA WriteReturnsKeeps ==
  ASSUME IInv, NEW r \in Requests, WriteReturns(r) PROVE IInv'
<1>1. PICK how \in Ways, after \in {<<>>, <<"shadow">>} :
        /\ Ends(r, "write", how)
        /\ \/ how = "ok" /\ ConcludeAfter(r, "done", after)
           \/ how = "ok" /\ Conclude(r, "degraded")
           \/ how # "ok" /\ ConcludeAfter(r, ErrorOf(how), after)
  BY DEF WriteReturns, Shadowed
<1>2. "write" \in CallSteps /\ "write" \in WriteSteps
  BY DEF CallSteps, WriteSteps
<1>3. CASE how = "ok" /\ ConcludeAfter(r, "done", after)
  <2>1. /\ "write" \in Names /\ At(r, "write") /\ CallGoesOn(r, "write")
        /\ UNCHANGED <<mode, rows, receipt>>
    BY <1>1, <1>2 DEF Names, Ends, CallGoesOn
  <2>2. Confirms(req[r], call'[r])
    <3>1. req[r].word = "yes"
      BY <1>1, <1>2, <1>3, CallOutcome
    <3>2. /\ call'[r].phase = how /\ call'[r].seen = call[r].seen
          /\ call'[r].write = ("write" \in WriteSteps)
          /\ how = "ok" => call[r].seen = 1
      BY <1>1, <1>2, CallOutcome
    <3> QED
      BY <1>2, <1>3, <3>1, <3>2 DEF Confirms
  <2>3. "done" \in Good \cup Errors /\ call'[r].phase = "ok"
    BY <2>2 DEF Good, Confirms
  <2> QED
    BY <1>3, <2>1, <2>2, <2>3, Concludes
<1>4. CASE how = "ok" /\ Conclude(r, "degraded")
  BY <1>1, <1>2, <1>4, Fails DEF Conclude, Errors
<1>5. CASE how # "ok" /\ ConcludeAfter(r, ErrorOf(how), after)
  BY <1>1, <1>2, <1>5, FailsWith DEF Failures
<1> QED
  BY <1>1, <1>3, <1>4, <1>5

LEMMA OwnedReturnsKeeps ==
  ASSUME IInv, NEW r \in Requests, OwnedReturns(r) PROVE IInv'
<1>1. PICK how \in Ways :
        /\ Ends(r, "owned", how)
        /\ IF how # "ok" THEN Conclude(r, ErrorOf(how))
           ELSE \/ Conclude(r, "degraded")
                \/ req[r].word = "no" /\ Conclude(r, "missing")
                \/ /\ req[r].word = "yes"
                   /\ IF req[r].page \in Reserved THEN Conclude(r, "denied") ELSE Go(r)
  BY DEF OwnedReturns
<1>2. "owned" \in CallSteps /\ "owned" \notin WriteSteps /\ "owned" \notin Finals
  BY DEF CallSteps, WriteSteps, Finals
<1>3. /\ "owned" \in Names /\ At(r, "owned") /\ CallGoesOn(r, "owned")
      /\ UNCHANGED <<mode, rows, receipt>>
  BY <1>1, <1>2 DEF Names, Ends, CallGoesOn
<1>4. call'[r].phase = how /\ ~call'[r].write
  BY <1>1, <1>2, CallOutcome
<1>5. CASE how # "ok" /\ Conclude(r, ErrorOf(how))
  BY <1>1, <1>2, <1>5, FailsWith DEF Failures, Conclude
<1>6. CASE how = "ok" /\ \E answer \in {"degraded", "denied"} : Conclude(r, answer)
  BY <1>1, <1>2, <1>6, Fails DEF Conclude, Errors
<1>7. CASE how = "ok" /\ Conclude(r, "missing")
  <2>1. "missing" \in Good \cup Errors /\ "missing" \notin Good
    BY DEF Good, Errors
  <2> QED
    BY <1>3, <1>4, <1>7, <2>1, Concludes DEF Conclude
<1>8. CASE req[r].word = "yes" /\ req[r].page \notin Reserved /\ Go(r)
  <2>1. Owner[req[r].page] = req[r].tenant
    BY <1>1, <1>2, <1>8, CallOutcome
  <2>2. /\ Running(req[r], rows[r], call[r]) /\ Head(req[r].adapter.steps) = "owned"
        /\ req[r].adapter.steps # <<>>
    BY <1>3, StepRuns DEF Step
  <2>3. req[r].tenant = req[r].who
    BY <2>2, NeedsHead DEF Running, Shape, Standing
  <2> QED
    BY <1>2, <1>3, <1>8, <2>1, <2>3, Continues DEF Mine
<1> QED
  BY <1>1, <1>5, <1>6, <1>7, <1>8

LEMMA DirectoryReturnsKeeps ==
  ASSUME IInv, NEW r \in Requests, DirectoryReturns(r) PROVE IInv'
<1>1. PICK how \in Ways, step \in {"directory", "published"} :
        /\ Ends(r, step, how)
        /\ \/ /\ how = "ok"
              /\ \E answer \in {"data", "degraded", "listed", "missing"} : Conclude(r, answer)
           \/ how # "ok" /\ Conclude(r, ErrorOf(how))
  BY DEF DirectoryReturns
<1>2. step \in CallSteps \ (Privileges \cup WriteSteps)
  BY DEF CallSteps, Privileges, WriteSteps
<1>3. CASE /\ how = "ok"
           /\ \E answer \in {"data", "degraded", "listed", "missing"} : Conclude(r, answer)
  BY <1>1, <1>2, <1>3, Informs DEF Good, Errors
<1>4. CASE how # "ok" /\ Conclude(r, ErrorOf(how))
  BY <1>1, <1>2, <1>4, FailsWith DEF Conclude, Failures
<1> QED
  BY <1>1, <1>3, <1>4

LEMMA SlugReturnsKeeps ==
  ASSUME IInv, NEW r \in Requests, SlugReturns(r) PROVE IInv'
<1>1. PICK how \in Ways, step \in {"slug", "heal", "slugAgain"} :
        /\ Ends(r, step, how)
        /\ \/ how = "ok" /\ \E answer \in {"data", "degraded", "notFound"} : Conclude(r, answer)
           \/ step # "slugAgain" /\ Go(r)
           \/ how # "ok" /\ Conclude(r, ErrorOf(how))
           \/ \E answer \in {"degraded", "notFound"} : Conclude(r, answer)
  BY DEF SlugReturns
<1>2. step \in CallSteps \ (Privileges \cup WriteSteps)
  BY DEF CallSteps, Privileges, WriteSteps
<1>3. CASE how = "ok" /\ \E answer \in {"data", "degraded", "notFound"} : Conclude(r, answer)
  BY <1>1, <1>2, <1>3, Informs DEF Good, Errors
<1>4. CASE step # "slugAgain" /\ Go(r)
  <2>1. /\ step \in Names \ Finals /\ At(r, step) /\ CallGoesOn(r, step)
        /\ UNCHANGED <<mode, rows, receipt>>
    BY <1>1, <1>2, <1>4 DEF Names, Finals, Ends, CallGoesOn
  <2> QED
    BY <1>4, <2>1, Continues
<1>5. CASE how # "ok" /\ Conclude(r, ErrorOf(how))
  BY <1>1, <1>2, <1>5, FailsWith DEF Conclude, Failures
<1>6. CASE \E answer \in {"degraded", "notFound"} : Conclude(r, answer)
  BY <1>1, <1>2, <1>6, Fails DEF Conclude, Errors
<1> QED
  BY <1>1, <1>3, <1>4, <1>5, <1>6

LEMMA CapabilitiesReturnKeeps ==
  ASSUME IInv, NEW r \in Requests, CapabilitiesReturn(r) PROVE IInv'
<1>1. PICK how \in Ways, step \in {"capabilities", "ready"} :
        /\ Ends(r, step, how)
        /\ \/ step = "capabilities" /\ Go(r)
           \/ how # "ok" /\ Conclude(r, ErrorOf(how))
           \/ how = "ok" /\ Conclude(r, "data")
           \/ Conclude(r, "degraded")
  BY DEF CapabilitiesReturn
<1>2. step \in CallSteps \ (Privileges \cup WriteSteps)
  BY DEF CallSteps, Privileges, WriteSteps
<1>3. CASE step = "capabilities" /\ Go(r)
  <2>1. /\ step \in Names \ Finals /\ At(r, step) /\ CallGoesOn(r, step)
        /\ UNCHANGED <<mode, rows, receipt>>
    BY <1>1, <1>2, <1>3 DEF Names, Finals, Ends, CallGoesOn
  <2> QED
    BY <1>3, <2>1, Continues
<1>4. CASE how # "ok" /\ Conclude(r, ErrorOf(how))
  BY <1>1, <1>2, <1>4, FailsWith DEF Conclude, Failures
<1>5. CASE how = "ok" /\ Conclude(r, "data")
  BY <1>1, <1>2, <1>5, Informs DEF Good
<1>6. CASE Conclude(r, "degraded")
  BY <1>1, <1>2, <1>6, Fails DEF Conclude, Errors
<1> QED
  BY <1>1, <1>3, <1>4, <1>5, <1>6

LEMMA SealReturnsKeeps ==
  ASSUME IInv, NEW r \in Requests, SealReturns(r) PROVE IInv'
<1>1. PICK how \in Ways, step \in {"session", "seal"} :
        /\ Ends(r, step, how)
        /\ \/ step = "session" /\ Go(r)
           \/ how = "ok" /\ Conclude(r, "done")
           \/ Conclude(r, "degraded")
  BY DEF SealReturns
<1>2. step \in CallSteps \ Privileges
  BY DEF CallSteps, Privileges
<1>3. /\ step \in Names \ Privileges /\ At(r, step) /\ CallGoesOn(r, step)
      /\ UNCHANGED <<mode, rows, receipt>>
  BY <1>1, <1>2 DEF Names, Ends, CallGoesOn
<1>4. CASE step = "session" /\ Go(r)
  BY <1>3, <1>4, Continues DEF Finals
<1>5. CASE how = "ok" /\ Conclude(r, "done")
  <2>1. rows[r] = <<>>
    BY <1>3, NotPrivileged
  <2>2. call'[r].phase = how
    BY <1>1, <1>2, CallOutcome
  <2> QED
    BY <1>3, <1>5, <2>1, <2>2, Concludes, TuplesDiffer DEF Conclude, Good
<1>6. CASE Conclude(r, "degraded")
  BY <1>1, <1>2, <1>6, Fails DEF Conclude, Errors
<1> QED
  BY <1>1, <1>4, <1>5, <1>6

(* A request one step further on.                                          *)
Past(q) == [q EXCEPT !.adapter.steps = Tail(q.adapter.steps)]

LEMMA AdvancePast ==
  ASSUME NEW q \in RequestTypes, NEW log, NEW c, Running(q, log, c),
         Len(q.adapter.steps) > 1,
         Head(q.adapter.steps) \notin {"attempt", "credential", "widgetCredential", "owned"},
         Head(q.adapter.steps) = "resolve" =>
           InDirectory(q.page) \/ Tail(q.adapter.steps)[1] = "resolve",
         NEW c2, c2.phase # "open", c2.write = c.write,
         Head(q.adapter.steps) \notin CallSteps => c2 = c
  PROVE  /\ Running(Past(q), log, c2)
         /\ Past(q) \in RequestTypes
         /\ Past(q).adapter.steps = Tail(q.adapter.steps)
         /\ Past(q).page = q.page
<1>1. q.adapter \in AdapterTypes /\ q.adapter.steps \in Seq(Names) /\ q.adapter.steps # <<>>
  BY DEF RequestTypes, Running, Shape
<1>2. Tail(q.adapter.steps) \in Seq(Names)
  BY <1>1, TailFacts
<1>3. Past(q).adapter = [q.adapter EXCEPT !.steps = Tail(q.adapter.steps)]
      /\ Past(q).who = q.who /\ Past(q).page = q.page /\ Past(q).tenant = q.tenant
      /\ Past(q).answer = q.answer /\ Past(q).word = q.word
  BY DEF Past, RequestTypes
<1>4. /\ Past(q).adapter.steps = Tail(q.adapter.steps)
      /\ Past(q).adapter.action = q.adapter.action
      /\ Past(q).adapter.fallback = q.adapter.fallback
  BY ONLY <1>1, <1>3 DEF AdapterTypes
<1>5. Past(q) \in RequestTypes
  <2>1. Tail(q.adapter.steps) \in Seq(Names \cup {"shadow", "result"})
    BY <1>2
  <2>2. Past(q).adapter \in AdapterTypes
    BY ONLY <1>1, <1>3, <2>1 DEF AdapterTypes
  <2>3. Past(q) = [q EXCEPT !.adapter = Past(q).adapter]
    BY <1>3 DEF Past, RequestTypes
  <2> QED
    BY ONLY <2>2, <2>3, q \in RequestTypes DEF RequestTypes
<1>6. Running(Past(q), log, c2)
  <2> DEFINE q2 == Past(q)
             log2 == log
  <2>1. log2 = IF Head(q.adapter.steps) = "attempt" THEN <<"attempted">> ELSE log
    OBVIOUS
  <2>2. q2.tenant = CASE Head(q.adapter.steps) = "credential" -> q.who
                      [] Head(q.adapter.steps) = "widgetCredential" -> Owner[q.page]
                      [] OTHER -> q.tenant
    BY <1>3
  <2>3. /\ q2.who = q.who /\ q2.page = q.page /\ q2.answer = "none"
    BY <1>3 DEF Running
  <2> HIDE DEF q2, log2
  <2>4. Running(q2, log2, c2)
    BY <1>4, <2>1, <2>2, <2>3, Advance DEF q2
  <2> QED
    BY <2>4 DEF q2, log2
<1> QED
  BY <1>3, <1>4, <1>5, <1>6

(* One request changes, with its call, and is running or has ended.        *)
LEMMA OneChanges ==
  ASSUME IInv, NEW r \in Requests, NEW q2 \in RequestTypes,
         req' = [req EXCEPT ![r] = q2], UNCHANGED <<mode, rows, receipt>>,
         Call!CallTypeOK', \A p \in Requests \ {r} : call'[p] = call[p],
         \/ Running(q2, rows[r], call'[r]) /\ receipt[r] = "none"
         \/ Concluded(q2, rows[r], receipt[r], call'[r], mode.read)
  PROVE  IInv'
<1>1. /\ req'[r] = q2 /\ \A p \in Requests \ {r} : req'[p] = req[p]
      /\ req' \in [Requests -> RequestTypes]
  BY DEF IInv, TypeOK
<1>2. TypeOK'
  BY <1>1 DEF IInv, TypeOK
<1> QED
  BY <1>1, <1>2, OthersStay DEF Runs, Ended

LEMMA ResolveReturnsKeeps ==
  ASSUME IInv, NEW r \in Requests, ResolveReturns(r) PROVE IInv'
<1>1. PICK how \in Ways :
        /\ Ends(r, "resolve", how)
        /\ \/ /\ InDirectory(req[r].page)
              /\ req' = [req EXCEPT ![r].adapter.steps =
                           IF Tail(@)[1] = "resolve" THEN Tail(Tail(@)) ELSE Tail(@)]
           \/ Conclude(r, "soft")
           \/ Tail(Step(r))[1] = "resolve" /\ Go(r)
  BY DEF ResolveReturns
<1>2. "resolve" \in CallSteps \ (Privileges \cup WriteSteps) /\ "resolve" \notin Finals
  BY DEF CallSteps, Privileges, WriteSteps, Finals
<1>3. /\ "resolve" \in Names /\ At(r, "resolve") /\ CallGoesOn(r, "resolve")
      /\ UNCHANGED <<mode, rows, receipt>>
  BY <1>1, <1>2 DEF Names, Ends, CallGoesOn
<1>4. CASE Conclude(r, "soft")
  BY <1>1, <1>2, <1>4, Informs DEF Good
<1>5. CASE Tail(Step(r))[1] = "resolve" /\ Go(r)
  BY <1>2, <1>3, <1>5, Continues
<1>6. CASE /\ InDirectory(req[r].page)
           /\ req' = [req EXCEPT ![r].adapter.steps =
                        IF Tail(@)[1] = "resolve" THEN Tail(Tail(@)) ELSE Tail(@)]
  <2> DEFINE q == req[r]
             c2 == call'[r]
  <2>1. /\ Running(q, rows[r], call[r]) /\ receipt[r] = "none" /\ q \in RequestTypes
        /\ Head(q.adapter.steps) = "resolve" /\ q.adapter.steps # <<>>
    BY <1>3, StepRuns DEF Step, TypeOK
  <2>2. Len(q.adapter.steps) > 1
    BY <1>2, <2>1, ShapeGoesOn DEF Running
  <2>3. /\ c2.phase # "open" /\ c2.write = call[r].write
        /\ \A p \in Requests \ {r} : call'[p] = call[p]
        /\ Call!CallTypeOK'
    BY <1>3, CallAfterStep
  <2> HIDE DEF q, c2
  <2>4. /\ Running(Past(q), rows[r], c2) /\ Past(q) \in RequestTypes
        /\ Past(q).adapter.steps = Tail(q.adapter.steps) /\ Past(q).page = q.page
    BY <1>2, <1>6, <2>1, <2>2, <2>3, AdvancePast DEF q
  <2>5. CASE Tail(q.adapter.steps)[1] # "resolve"
    <3>1. req' = [req EXCEPT ![r] = Past(q)]
      BY <1>6, <2>1, <2>5 DEF q, Past, IInv, TypeOK
    <3> QED
      BY <1>3, <2>1, <2>3, <2>4, <3>1, OneChanges DEF c2
  <2>6. CASE Tail(q.adapter.steps)[1] = "resolve"
    <3>1. Head(Past(q).adapter.steps) = "resolve"
      BY <2>4, <2>6, TailFacts DEF Running, Shape
    <3>2. Len(Past(q).adapter.steps) > 1
      BY <1>2, <2>4, <3>1, ShapeGoesOn DEF Running
    <3>3. /\ Running(Past(Past(q)), rows[r], c2) /\ Past(Past(q)) \in RequestTypes
          /\ Past(Past(q)).adapter.steps = Tail(Past(q).adapter.steps)
      <4> DEFINE q1 == Past(q)
      <4>1. /\ q1 \in RequestTypes /\ Running(q1, rows[r], c2) /\ InDirectory(q1.page)
            /\ Head(q1.adapter.steps) = "resolve" /\ Len(q1.adapter.steps) > 1
        BY <1>6, <2>4, <3>1, <3>2 DEF q
      <4> HIDE DEF q1
      <4>2. /\ Running(Past(q1), rows[r], c2) /\ Past(q1) \in RequestTypes
            /\ Past(q1).adapter.steps = Tail(q1.adapter.steps)
        BY <1>2, <2>3, <4>1, AdvancePast
      <4> QED
        BY <4>2 DEF q1
    <3>4. req' = [req EXCEPT ![r] = Past(Past(q))]
      <4>1. Past(Past(q)) = [q EXCEPT !.adapter.steps = Tail(Tail(q.adapter.steps))]
        BY <2>1, <2>4 DEF Past, RequestTypes, AdapterTypes
      <4>2. req' = [req EXCEPT ![r] =
                     [q EXCEPT !.adapter.steps = Tail(Tail(q.adapter.steps))]]
        BY <1>6, <2>6 DEF q
      <4> QED
        BY <4>1, <4>2
    <3> QED
      BY <1>3, <2>1, <2>3, <3>3, <3>4, OneChanges DEF c2
  <2> QED
    BY <2>5, <2>6
<1> QED
  BY <1>1, <1>4, <1>5, <1>6

(* The heartbeat has nothing more to do: it tells what it has counted.     *)
Counted(q) == [q EXCEPT !.adapter.steps = <<>>, !.answer = "counted"]

LEMMA CountedConcludes ==
  ASSUME NEW q \in RequestTypes, NEW log, NEW c, Running(q, log, c), log = <<>>,
         NEW c2, c2.phase # "open", c2.write = c.write, NEW reading
  PROVE  Concluded(Counted(q), log, "none", c2, reading) /\ Counted(q) \in RequestTypes
<1>1. /\ Counted(q).adapter = [q.adapter EXCEPT !.steps = <<>>]
      /\ Counted(q).who = q.who /\ Counted(q).page = q.page /\ Counted(q).tenant = q.tenant
      /\ Counted(q).answer = "counted" /\ Counted(q).word = q.word
  BY DEF Counted, RequestTypes
<1>2. q.adapter \in AdapterTypes
  BY DEF RequestTypes
<1>3. Counted(q).adapter.steps = <<>> /\ Counted(q).adapter.action = q.adapter.action
  BY ONLY <1>1, <1>2 DEF AdapterTypes
<1>4. Counted(q) \in RequestTypes
  <2> DEFINE S == Names \cup {"shadow", "result"}
  <2>0. <<>> \in Seq(S)
    OBVIOUS
  <2>1. Counted(q).adapter \in AdapterTypes
    BY ONLY <1>1, <1>2, <2>0 DEF AdapterTypes
  <2>2. Counted(q) = [q EXCEPT !.adapter = Counted(q).adapter, !.answer = "counted"]
    BY ONLY <1>1, q \in RequestTypes DEF Counted, RequestTypes
  <2>3. "counted" \in Good \cup Errors \cup {"none", "gone"}
    BY DEF Good
  <2> QED
    BY ONLY <2>1, <2>2, <2>3, q \in RequestTypes DEF RequestTypes
<1>5. Audited(Counted(q), log, "none", c2)
  <2>1. <<>> \notin WithResult /\ <<>> \notin WithShadow
    BY TuplesDiffer DEF WithResult, WithShadow
  <2>2. c2.write => Counted(q).adapter.action = "public"
    BY <1>3, TuplesDiffer DEF Running
  <2> QED
    BY <1>3, <2>1, <2>2, TuplesDiffer DEF Audited
<1>6. Honest(Counted(q), c2, reading)
  BY <1>1 DEF Honest
<1> QED
  BY <1>1, <1>3, <1>4, <1>5, <1>6 DEF Concluded, Good

LEMMA BeatReturnsKeeps ==
  ASSUME IInv, NEW r \in Requests, BeatReturns(r) PROVE IInv'
<1>1. PICK how \in Ways, step \in {"beat", "beatSeal"} :
        /\ Ends(r, step, how)
        /\ LET rest == IF step = "beat" /\ how # "ok" THEN Tail(Tail(Step(r)))
                                                      ELSE Tail(Step(r)) IN
             req' = [req EXCEPT ![r].adapter.steps = rest,
                       ![r].answer = IF rest = <<>> THEN "counted" ELSE @]
  BY DEF BeatReturns
<1> DEFINE q == req[r]
           c2 == call'[r]
           now == q.adapter.steps
           rest == IF step = "beat" /\ how # "ok" THEN Tail(Tail(now)) ELSE Tail(now)
<1>2. /\ step \in CallSteps /\ step \in Names \ Privileges
      /\ step \notin {"attempt", "credential", "widgetCredential", "owned", "resolve"}
      /\ "beatSeal" \in CallSteps
  BY DEF CallSteps, Names, Privileges
<1>3. At(r, step) /\ CallGoesOn(r, step) /\ UNCHANGED <<mode, rows, receipt>>
  BY <1>1, <1>2 DEF Ends, CallGoesOn
<1>4. /\ Running(q, rows[r], call[r]) /\ receipt[r] = "none" /\ q \in RequestTypes
      /\ Head(now) = step /\ now \in Seq(Names) /\ now # <<>> /\ q.answer = "none"
  BY <1>2, <1>3, StepRuns DEF Step, TypeOK, Running, Shape
<1>5. rows[r] = <<>>
  BY <1>2, <1>3, NotPrivileged
<1>6. /\ c2.phase # "open" /\ c2.write = call[r].write
      /\ \A p \in Requests \ {r} : call'[p] = call[p]
      /\ Call!CallTypeOK'
  BY <1>2, <1>3, CallAfterStep
<1>7. req' = [req EXCEPT ![r] =
               [q EXCEPT !.adapter.steps = rest,
                         !.answer = IF rest = <<>> THEN "counted" ELSE "none"]]
  BY <1>1, <1>4 DEF Step
<1> HIDE DEF q, c2
<1>8. CASE rest = <<>>
  <2>1. req' = [req EXCEPT ![r] = Counted(q)]
    BY <1>7, <1>8 DEF Counted
  <2>2. Concluded(Counted(q), rows[r], "none", c2, mode.read) /\ Counted(q) \in RequestTypes
    BY <1>4, <1>5, <1>6, CountedConcludes
  <2> QED
    BY <1>3, <1>4, <1>6, <2>1, <2>2, OneChanges DEF c2
<1>9. CASE rest # <<>>
  <2>2. Len(now) > 1
    <3>1. CASE step = "beat"
      BY <1>4, <3>1, ShapeGoesOn DEF Running, Finals
    <3>2. CASE step # "beat"
      BY <1>4, <1>9, <3>2, TailFacts
    <3> QED
      BY <3>1, <3>2
  <2>3. /\ Running(Past(q), rows[r], c2) /\ Past(q) \in RequestTypes
        /\ Past(q).adapter.steps = Tail(now)
    BY <1>2, <1>4, <1>6, <2>2, AdvancePast
  <2>4. CASE ~(step = "beat" /\ how # "ok")
    <3>1. [q EXCEPT !.adapter.steps = rest, !.answer = "none"] = Past(q)
      BY <1>4, <2>4 DEF Past, RequestTypes
    <3>2. req' = [req EXCEPT ![r] = Past(q)]
      BY <1>7, <1>9, <3>1
    <3> QED
      BY <1>3, <1>4, <1>6, <2>3, <3>2, OneChanges DEF c2
  <2>5. CASE step = "beat" /\ how # "ok"
    <3> DEFINE q1 == Past(q)
    <3>1. Tail(now)[1] = "beatSeal" /\ Tail(now) # <<>> /\ Head(Tail(now)) = "beatSeal"
      <4>1. Beats(now) /\ 1 \in 1..Len(now) /\ now[1] = "beat"
        BY <1>4, <2>2, <2>5, TailFacts DEF Running, Shape
      <4>2. now[1 + 1] = "beatSeal"
        BY <4>1 DEF Beats
      <4> HIDE DEF now
      <4>3. /\ Len(now) \in Nat /\ Len(Tail(now)) = Len(now) - 1 /\ Tail(now) \in Seq(Names)
            /\ \A i \in 1..Len(Tail(now)) : Tail(now)[i] = now[i + 1]
        BY <1>4, TailFacts
      <4>4. Len(Tail(now)) \in Nat \ {0} /\ Tail(now) \in Seq(Names)
        BY <2>2, <4>3
      <4>5. Tail(now)[1] = now[1 + 1]
        BY <4>4, <4>3
      <4>6. Tail(now) # <<>>
        <5>1. Len(<<>>) = 0
          BY ONLY EmptySeq
        <5> QED
          BY ONLY <4>4, <5>1, Zenon
      <4>7. Head(Tail(now)) = Tail(now)[1]
        BY <4>4, <4>6, TailFacts
      <4> QED
        BY <4>2, <4>5, <4>6, <4>7
    <3>2. Len(Tail(now)) > 1
      BY <1>4, <1>9, <2>5, <3>1, TailFacts
    <3>3. /\ q1 \in RequestTypes /\ Running(q1, rows[r], c2)
          /\ Head(q1.adapter.steps) = "beatSeal" /\ Len(q1.adapter.steps) > 1
          /\ q1.adapter.steps = Tail(now)
      BY <2>3, <3>1, <3>2
    <3> HIDE DEF q1
    <3>4. /\ Running(Past(q1), rows[r], c2) /\ Past(q1) \in RequestTypes
      <4>1. "beatSeal" \in CallSteps
            /\ "beatSeal" \notin {"attempt", "credential", "widgetCredential", "owned", "resolve"}
        BY <1>2
      <4>2. c2.phase # "open" /\ c2.write = c2.write
        BY <1>6
      <4> QED
        BY ONLY <3>3, <4>1, <4>2, AdvancePast
    <3>5. [q EXCEPT !.adapter.steps = rest, !.answer = "none"] = Past(q1)
      BY <1>4, <2>5, <3>3 DEF Past, RequestTypes, AdapterTypes, q1
    <3>6. req' = [req EXCEPT ![r] = Past(q1)]
      BY <1>7, <1>9, <3>5
    <3> QED
      BY <1>3, <1>4, <1>6, <3>4, <3>6, OneChanges DEF c2
  <2> QED
    BY <2>4, <2>5
<1> QED
  BY <1>8, <1>9

-----------------------------------------------------------------------------
(* What follows the answer.                                                *)

(* A step after the answer: a receipt or the row of the result.            *)
LEMMA StepFollows ==
  ASSUME IInv, NEW r \in Requests, NEW step \in {"shadow", "result"}, At(r, step)
  PROVE  /\ Ended(r) /\ TypeOK /\ ~Settled(r)
         /\ step = "result" => Step(r) = <<"result">>
         /\ step = "shadow" => Step(r) \in WithShadow
<1>1. Step(r) # <<>> /\ Head(Step(r)) = step
  BY DEF At, Settled
<1>2. step \notin Names
  BY DEF Names, CallSteps
<1>3. ~Runs(r)
  BY <1>1, <1>2, TailFacts DEF Runs, Running, Shape, Step
<1>4. /\ Head(<<"shadow">>) = "shadow" /\ Head(<<"result">>) = "result"
      /\ Head(<<"shadow", "result">>) = "shadow"
  OBVIOUS
<1>5. Ended(r) /\ Step(r) \in WithResult \cup WithShadow
  BY <1>1, <1>3 DEF IInv, Ended, Concluded, Step
<1> QED
  BY <1>1, <1>4, <1>5 DEF IInv, Settled, WithResult, WithShadow

(* Done with one of them: what is left is fewer.                           *)
LEMMA ShadowKeeps ==
  ASSUME IInv, NEW r \in Requests, Shadow(r) PROVE IInv'
<1>1. /\ At(r, "shadow") /\ Go(r) /\ UNCHANGED <<mode, mapping, rows, call>>
      /\ receipt' \in {receipt,
           [receipt EXCEPT ![r] = IF call[r].phase = "ok" THEN "accepted" ELSE "failed"]}
  BY DEF Shadow
<1>2. Ended(r) /\ TypeOK /\ ~Settled(r) /\ Step(r) \in WithShadow
  BY <1>1, StepFollows
<1>3. /\ SameAdapter(req[r], req'[r])
      /\ req'[r].adapter.steps = Tail(Step(r))
      /\ req'[r].word = req[r].word
      /\ req'[r].answer = req[r].answer
      /\ \A p \in Requests \ {r} : req'[p] = req[p]
      /\ req' \in [Requests -> RequestTypes]
  BY <1>1, <1>2, GoChanges
<1>4. /\ Step(r) = <<"shadow">> => req'[r].adapter.steps = <<>>
      /\ Step(r) = <<"shadow", "result">> => req'[r].adapter.steps = <<"result">>
  <2>1. Tail(<<"shadow">>) = <<>> /\ Tail(<<"shadow", "result">>) = <<"result">>
    OBVIOUS
  <2> QED
    BY <1>3, <2>1
<1>5. /\ receipt'[r] \in {receipt[r], "accepted", "failed"}
      /\ receipt'[r] = "accepted" => receipt[r] = "accepted" \/ call[r].phase = "ok"
      /\ \A p \in Requests \ {r} : receipt'[p] = receipt[p]
      /\ receipt' \in [Requests -> {"none", "accepted", "failed"}]
  BY <1>1, <1>2 DEF TypeOK
<1>6. Confirms(req'[r], call[r]) <=> Confirms(req[r], call[r])
  BY <1>3 DEF Confirms
<1>7. Audited(req'[r], rows[r], receipt'[r], call[r])
  <2>1. Audited(req[r], rows[r], receipt[r], call[r])
    BY <1>2 DEF Ended, Concluded
  <2>2. receipt'[r] = "accepted" => Confirms(req'[r], call[r])
    BY <1>2, <1>5, <1>6, <2>1 DEF Audited, Step
  <2>3. /\ req'[r].adapter.steps \in WithResult <=> Step(r) \in WithResult
        /\ req'[r].adapter.steps \notin WithShadow
    BY <1>2, <1>4, TuplesDiffer DEF WithResult, WithShadow
  <2> QED
    BY <1>3, <1>6, <2>1, <2>2, <2>3 DEF Audited, SameAdapter, Step
<1>8. Concluded(req'[r], rows[r], receipt'[r], call[r], mode.read)
  <2>1. Honest(req'[r], call[r], mode.read)
    BY <1>2, <1>3 DEF Ended, Concluded, Honest, SameAdapter
  <2>2. req'[r].adapter.steps \in {<<>>} \cup WithResult \cup WithShadow
    BY <1>2, <1>4 DEF WithShadow, WithResult
  <2> QED
    BY <1>2, <1>3, <1>7, <2>1, <2>2 DEF Ended, Concluded
<1>9. TypeOK'
  BY <1>1, <1>2, <1>3, <1>5 DEF TypeOK, Call!CallTypeOK
<1> QED
  BY <1>1, <1>3, <1>5, <1>8, <1>9, OthersStay DEF Ended

LEMMA ResultKeeps ==
  ASSUME IInv, NEW r \in Requests, Result(r) PROVE IInv'
<1> DEFINE row == IF req[r].answer \in Good THEN "succeeded" ELSE "failed"
<1>1. /\ At(r, "result") /\ Go(r) /\ UNCHANGED <<mode, mapping, receipt, call>>
      /\ Log(r, row)
  BY DEF Result
<1>2. Ended(r) /\ TypeOK /\ ~Settled(r) /\ Step(r) = <<"result">>
  BY <1>1, StepFollows
<1>3. /\ SameAdapter(req[r], req'[r])
      /\ req'[r].adapter.steps = Tail(Step(r))
      /\ req'[r].word = req[r].word
      /\ req'[r].answer = req[r].answer
      /\ \A p \in Requests \ {r} : req'[p] = req[p]
      /\ req' \in [Requests -> RequestTypes]
  BY <1>1, <1>2, GoChanges
<1>4. req'[r].adapter.steps = <<>>
  BY <1>2, <1>3
<1>5. Audited(req[r], rows[r], receipt[r], call[r]) /\ rows[r] = <<"attempted">>
  BY <1>2 DEF Ended, Concluded, Audited, Step, WithResult
<1>6. /\ rows'[r] = Append(<<"attempted">>, row)
      /\ \A p \in Requests \ {r} : rows'[p] = rows[p]
      /\ rows' \in [Requests -> Seq(RowTypes)]
  BY <1>1, <1>2, <1>5, LogChanges DEF RowTypes
<1>7. rows'[r] = <<"attempted", row>>
  <2> DEFINE x == Append(<<"attempted">>, row)
             y == <<"attempted", row>>
  <2>1. x \in Seq(RowTypes) /\ y \in Seq(RowTypes) /\ Len(x) = Len(y)
    BY DEF RowTypes
  <2>2. \A i \in 1..Len(x) : x[i] = y[i]
    OBVIOUS
  <2>3. x = y
    BY <2>1, <2>2, SeqEqual
  <2> QED
    BY <1>6, <2>3
<1>8. Confirms(req'[r], call[r]) <=> Confirms(req[r], call[r])
  BY <1>3 DEF Confirms
<1>9. Audited(req'[r], rows'[r], receipt[r], call[r])
  <2>1. req[r].answer \in Good => Confirms(req'[r], call[r])
    BY <1>5, <1>8, TuplesDiffer DEF Audited
  <2>2. rows'[r] \in {<<"attempted", "succeeded">>, <<"attempted", "failed">>}
    BY <1>7
  <2>3. rows'[r] = <<"attempted", "succeeded">> => req[r].answer \in Good
    BY <1>7
  <2>4. /\ <<>> \notin WithResult /\ <<>> \notin WithShadow
        /\ rows'[r] \notin {<<>>, <<"denied">>, <<"attempted">>}
    BY <2>2, TuplesDiffer DEF WithResult, WithShadow
  <2>5. receipt[r] = "accepted" => Confirms(req'[r], call[r])
    BY <1>5, <1>8 DEF Audited
  <2> QED
    BY <1>3, <1>4, <2>1, <2>2, <2>3, <2>4, <2>5 DEF Audited
<1>10. Concluded(req'[r], rows'[r], receipt[r], call[r], mode.read)
  <2>1. Honest(req'[r], call[r], mode.read)
    BY <1>2, <1>3 DEF Ended, Concluded, Honest, SameAdapter
  <2> QED
    BY <1>2, <1>3, <1>4, <1>9, <2>1 DEF Ended, Concluded
<1>11. TypeOK'
  BY <1>1, <1>2, <1>3, <1>6 DEF TypeOK, Call!CallTypeOK
<1> QED
  BY <1>1, <1>3, <1>6, <1>10, <1>11, OthersStay DEF Ended

LEMMA ClientLeavesKeeps ==
  ASSUME IInv, NEW r \in Requests, ClientLeaves(r) PROVE IInv'
BY GivenUp DEF ClientLeaves, Answers

LEMMA RemapKeeps ==
  ASSUME IInv, NEW a \in Accounts, Remap(a) PROVE IInv'
BY DEF Remap, IInv, TypeOK, Call!CallTypeOK, Runs, Ended

-----------------------------------------------------------------------------
(* How requests begin.                                                     *)

(* Every adapter begins with steps in an order in which each has before it *)
(* what it needs: its steps, whether it is public, whether it is about a   *)
(* page, and whether it may answer with the degraded envelope.             *)
StepsOpen(s, public, paged, fallback) ==
  /\ Shape(s)
  /\ Needs(s, WriteSteps, {"attempt"}, public)
  /\ Needs(s, {"owned"}, {"credential"}, FALSE)
  /\ Needs(s, {"read", "write"}, {"owned"}, ~paged)
  /\ Needs(s, {"widgetCredential"} \cup Widget, {"resolve"}, FALSE)
  /\ Needs(s, Widget, {"widgetCredential"}, FALSE)
  /\ ~Lacks(s, {"skip"}) => fallback

AdapterOpens(adapter, paged) ==
  /\ adapter \in AdapterTypes
  /\ StepsOpen(adapter.steps, adapter.action = "public", paged, adapter.fallback)

Fresh(who, page, adapter, tenant) ==
  [who |-> who, page |-> page, adapter |-> adapter,
   tenant |-> tenant, word |-> "none", answer |-> "none"]

LEMMA FreshRuns ==
  ASSUME NEW who \in Parties, NEW page \in Pages \cup {NoPage}, NEW tenant \in Parties,
         who \in Accounts => tenant = Nobody,
         NEW adapter, AdapterOpens(adapter, page # NoPage)
  PROVE  /\ Running(Fresh(who, page, adapter, tenant), <<>>, Call!Idle)
         /\ Fresh(who, page, adapter, tenant) \in RequestTypes
<1> DEFINE q == Fresh(who, page, adapter, tenant)
           now == adapter.steps
<1>1. /\ q.adapter = adapter /\ q.who = who /\ q.page = page /\ q.tenant = tenant
      /\ q.answer = "none" /\ q.word = "none"
  BY DEF Fresh
<1>2. q \in RequestTypes
  BY DEF Fresh, RequestTypes, AdapterOpens
<1>3. StepsOpen(now, adapter.action = "public", page # NoPage, adapter.fallback)
  BY DEF AdapterOpens
<1>4. Call!Idle.phase = "idle" /\ Call!Idle.write = FALSE
  BY DEF Call!Idle
<1> HIDE DEF q
<1>5. Standing(q, <<>>)
  <2>1. page = NoPage => Mine(q)
    BY <1>1 DEF Mine
  <2>2. Needs(now, {"read", "write"}, {"owned"}, Mine(q))
    BY <1>3, <2>1 DEF StepsOpen, Needs
  <2>3. /\ Needs(now, {"owned"}, {"credential"}, q.tenant = q.who)
        /\ Needs(now, {"widgetCredential"} \cup Widget, {"resolve"}, InDirectory(q.page))
        /\ Needs(now, Widget, {"widgetCredential"}, q.tenant = Owner[q.page])
    BY <1>3 DEF StepsOpen, Needs
  <2>4. Needs(now, WriteSteps, {"attempt"},
              q.adapter.action = "public" \/ <<>> = <<"attempted">>)
    BY <1>1, <1>3, TuplesDiffer DEF StepsOpen
  <2> QED
    BY <1>1, <2>2, <2>3, <2>4 DEF Standing
<1>6. Running(q, <<>>, Call!Idle)
  BY <1>1, <1>3, <1>4, <1>5, TuplesDiffer DEF Running, StepsOpen, OpenCall
<1> QED
  BY <1>2, <1>6 DEF q

LEMMA ServeKeeps ==
  ASSUME IInv, NEW r \in Requests, NEW who \in Parties, NEW page \in Pages \cup {NoPage},
         NEW tenant \in Parties, who \in Accounts => tenant = Nobody,
         NEW adapter, AdapterOpens(adapter, page # NoPage),
         Serve(r, who, page, adapter, tenant)
  PROVE  IInv'
<1> DEFINE q == Fresh(who, page, adapter, tenant)
<1>1. Running(q, <<>>, Call!Idle) /\ q \in RequestTypes
  BY FreshRuns
<1>2. /\ req' = [req EXCEPT ![r] = q] /\ rows' = [rows EXCEPT ![r] = <<>>]
      /\ receipt' = [receipt EXCEPT ![r] = "none"] /\ call' = [call EXCEPT ![r] = Call!Idle]
      /\ mode' = mode
  BY DEF Serve, Fresh
<1> HIDE DEF q
<1>3. /\ req'[r] = q /\ rows'[r] = <<>> /\ receipt'[r] = "none" /\ call'[r] = Call!Idle
      /\ \A p \in Requests \ {r} : /\ req'[p] = req[p] /\ rows'[p] = rows[p]
                                  /\ receipt'[p] = receipt[p] /\ call'[p] = call[p]
  BY <1>2 DEF IInv, TypeOK, Call!CallTypeOK
<1>4. TypeOK'
  <2>1. <<>> \in Seq(RowTypes)
    OBVIOUS
  <2>2. Call!Idle \in [phase : {"idle", "open"} \cup Call!Ends, write : BOOLEAN, seen : 0..1]
    BY DEF Call!Idle
  <2> QED
    BY <1>1, <1>2, <2>1, <2>2 DEF IInv, TypeOK, Call!CallTypeOK
<1> QED
  BY <1>1, <1>2, <1>3, <1>4, OthersStay DEF Runs


(* The steps of each adapter are in order.  Those of the public ones:      *)
LEMMA PublicStepsOpen ==
  /\ StepsOpen(<<"read">>, TRUE, FALSE, FALSE)
  /\ StepsOpen(<<>> \o <<"slug", "heal", "slugAgain">>, TRUE, FALSE, FALSE)
  /\ StepsOpen(<<"slug">> \o <<"slug", "heal", "slugAgain">>,
               TRUE, FALSE, FALSE)
  /\ StepsOpen(<<"capabilities", "ready">>, TRUE, FALSE, FALSE)
  /\ StepsOpen(<<"writes", "payload", "resolve", "resolve", "widgetCredential",
                   "session", "seal">>,
               TRUE, TRUE, FALSE)
  /\ StepsOpen(<<"beat", "beatSeal", "beat", "beatSeal">>, TRUE, FALSE, FALSE)
<1> USE DEF StepsOpen, Shape, Needs, Lacks, Then, Beats, CallSteps, WriteSteps, Names,
            Finals, Privileges, Widget
<1>1. StepsOpen(<<"read">>, TRUE, FALSE, FALSE)
  OBVIOUS
<1>2. StepsOpen(<<>> \o <<"slug", "heal", "slugAgain">>, TRUE, FALSE, FALSE)
  OBVIOUS
<1>3. StepsOpen(<<"slug">> \o <<"slug", "heal", "slugAgain">>,
                TRUE, FALSE, FALSE)
  OBVIOUS
<1>4. StepsOpen(<<"capabilities", "ready">>, TRUE, FALSE, FALSE)
  OBVIOUS
<1>5. StepsOpen(<<"writes", "payload", "resolve", "resolve", "widgetCredential",
                   "session", "seal">>,
                TRUE, TRUE, FALSE)
  OBVIOUS
<1>6. StepsOpen(<<"beat", "beatSeal", "beat", "beatSeal">>, TRUE, FALSE, FALSE)
  OBVIOUS
<1> QED
  BY <1>1, <1>2, <1>3, <1>4, <1>5, <1>6

(* of those that check for themselves who asks:                            *)
LEMMA OwnStepsOpen ==
  /\ StepsOpen(<<"directory">>, FALSE, FALSE, FALSE)
  /\ StepsOpen(<<"reads", "authorize", "credential", "read">>,
               FALSE, FALSE, FALSE)
  /\ StepsOpen(<<"reads", "published">>, FALSE, TRUE, FALSE)
  /\ StepsOpen(<<"reads", "authorize", "credential", "owned", "read">>,
               FALSE, TRUE, FALSE)
  /\ StepsOpen(<<"authorize", "credential", "attempt", "writes", "bind", "write">>,
               FALSE, FALSE, FALSE)
<1> USE DEF StepsOpen, Shape, Needs, Lacks, Then, Beats, CallSteps, WriteSteps, Names,
            Finals, Privileges, Widget
<1>1. StepsOpen(<<"directory">>, FALSE, FALSE, FALSE)
  OBVIOUS
<1>2. StepsOpen(<<"reads", "authorize", "credential", "read">>,
                FALSE, FALSE, FALSE)
  OBVIOUS
<1>3. StepsOpen(<<"reads", "published">>, FALSE, TRUE, FALSE)
  OBVIOUS
<1>4. StepsOpen(<<"reads", "authorize", "credential", "owned", "read">>,
                FALSE, TRUE, FALSE)
  OBVIOUS
<1>5. StepsOpen(<<"authorize", "credential", "attempt", "writes", "bind", "write">>,
                FALSE, FALSE, FALSE)
  OBVIOUS
<1> QED
  BY <1>1, <1>2, <1>3, <1>4, <1>5

(* of those behind require_forjd_action that only read:                    *)
LEMMA ReadStepsOpen ==
  /\ StepsOpen(<<"authorize">> \o (<<"skip">> \o <<"credential", "bind", "read">>),
               FALSE, FALSE, TRUE)
  /\ StepsOpen(<<"authorize">> \o (<<>> \o <<"credential", "bind", "read">>),
               FALSE, FALSE, FALSE)
  /\ StepsOpen(<<"authorize">> \o <<"credential", "tell">>,
               FALSE, FALSE, FALSE)
  /\ StepsOpen(<<"authorize">> \o <<"retired">>, FALSE, FALSE, FALSE)
<1> USE DEF StepsOpen, Shape, Needs, Lacks, Then, Beats, CallSteps, WriteSteps, Names,
            Finals, Privileges, Widget
<1>1. StepsOpen(<<"authorize">> \o (<<"skip">> \o <<"credential", "bind", "read">>),
                FALSE, FALSE, TRUE)
  OBVIOUS
<1>2. StepsOpen(<<"authorize">> \o (<<>> \o <<"credential", "bind", "read">>),
                FALSE, FALSE, FALSE)
  OBVIOUS
<1>3. StepsOpen(<<"authorize">> \o <<"credential", "tell">>,
                FALSE, FALSE, FALSE)
  OBVIOUS
<1>4. StepsOpen(<<"authorize">> \o <<"retired">>, FALSE, FALSE, FALSE)
  OBVIOUS
<1> QED
  BY <1>1, <1>2, <1>3, <1>4

(* and of those whose attempt leaves a row.                                *)
LEMMA PrivilegedStepsOpen ==
  /\ StepsOpen(<<"authorize", "attempt">> \o (<<"writes">> \o <<"credential", "bind", "write">>),
               FALSE, FALSE, FALSE)
  /\ StepsOpen(<<"authorize", "attempt">> \o <<"writes", "credential", "payload", "write">>,
               FALSE, FALSE, FALSE)
  /\ StepsOpen(<<"authorize", "attempt">> \o <<"writes", "credential", "write">>,
               FALSE, FALSE, FALSE)
  /\ StepsOpen(<<"authorize", "attempt">> \o <<"writes", "retired">>,
               FALSE, FALSE, FALSE)
  /\ StepsOpen(<<"authorize", "attempt">> \o <<"writes", "credential", "owned", "write">>,
               FALSE, TRUE, FALSE)
  /\ StepsOpen(<<"authorize", "attempt">> \o <<"writes", "credential", "owned", "payload", "write">>,
               FALSE, TRUE, FALSE)
<1> USE DEF StepsOpen, Shape, Needs, Lacks, Then, Beats, CallSteps, WriteSteps, Names,
            Finals, Privileges, Widget
<1>1. StepsOpen(<<"authorize", "attempt">> \o (<<"writes">> \o <<"credential", "bind", "write">>),
                FALSE, FALSE, FALSE)
  OBVIOUS
<1>2. StepsOpen(<<"authorize", "attempt">> \o <<"writes", "credential", "payload", "write">>,
                FALSE, FALSE, FALSE)
  OBVIOUS
<1>3. StepsOpen(<<"authorize", "attempt">> \o <<"writes", "credential", "write">>,
                FALSE, FALSE, FALSE)
  OBVIOUS
<1>4. StepsOpen(<<"authorize", "attempt">> \o <<"writes", "retired">>,
                FALSE, FALSE, FALSE)
  OBVIOUS
<1>5. StepsOpen(<<"authorize", "attempt">> \o <<"writes", "credential", "owned", "write">>,
                FALSE, TRUE, FALSE)
  OBVIOUS
<1>6. StepsOpen(<<"authorize", "attempt">> \o <<"writes", "credential", "owned", "payload", "write">>,
                FALSE, TRUE, FALSE)
  OBVIOUS
<1> QED
  BY <1>1, <1>2, <1>3, <1>4, <1>5, <1>6

(* An adapter as it is written down.                                       *)
LEMMA AdapterOpensWith ==
  ASSUME NEW action \in {"public", "read"} \cup NativeActions, NEW s,
         NEW public \in BOOLEAN, public => action = "public",
         NEW paged \in BOOLEAN, StepsOpen(s, public, paged, FALSE)
  PROVE  AdapterOpens(Adapter(action, s), paged) /\ AdapterOpens(Reshaped(Adapter(action, s)), paged)
<1>1. s \in Seq(Names \cup {"shadow", "result"})
  BY DEF StepsOpen, Shape
<1>2. Adapter(action, s) \in AdapterTypes /\ Reshaped(Adapter(action, s)) \in AdapterTypes
  BY <1>1 DEF Adapter, Reshaped, AdapterTypes
<1>3. Needs(s, WriteSteps, {"attempt"}, action = "public")
  BY DEF StepsOpen, Needs
<1> QED
  BY <1>2, <1>3 DEF AdapterOpens, StepsOpen, Adapter, Reshaped

LEMMA DecoratedOpensWith ==
  ASSUME NEW action \in {"read"} \cup NativeActions, NEW s, NEW paged \in BOOLEAN,
         IF action = "read" THEN StepsOpen(<<"authorize">> \o s, FALSE, paged, FALSE)
                            ELSE StepsOpen(<<"authorize", "attempt">> \o s, FALSE, paged, FALSE)
  PROVE  AdapterOpens(Decorated(action, s), paged) /\ AdapterOpens(Reshaped(Decorated(action, s)), paged)
BY AdapterOpensWith DEF Decorated, Privileged

LEMMA NativeProxyOpens ==
  ASSUME NEW action, NEW method, NEW binding, NEW fallback \in BOOLEAN,
         \/ action = "read" /\ method = "GET"
         \/ action \in {"operate", "administer"} /\ method # "GET" /\ fallback = FALSE
  PROVE  AdapterOpens(NativeProxy(action, method, binding, fallback), FALSE)
<1> DEFINE gate == CASE method # "GET" -> <<"writes">>
                     [] method = "GET" /\ fallback -> <<"skip">>
                     [] OTHER -> <<>>
           work == gate \o <<"credential", "bind", IF method = "GET" THEN "read" ELSE "write">>
           steps == IF action = "read" THEN <<"authorize">> \o work
                                       ELSE <<"authorize", "attempt">> \o work
           sealed == binding = "sealed"
           escapes == binding \in {"query", "body"}
<1>1. StepsOpen(steps, FALSE, FALSE, fallback)
  <2>1. CASE action = "read" /\ fallback
    <3>1. gate = <<"skip">>
      BY <2>1
    <3>2. steps = <<"authorize">> \o (<<"skip">> \o <<"credential", "bind", "read">>)
      BY <2>1, <3>1
    <3> QED
      BY <2>1, <3>2, ReadStepsOpen
  <2>2. CASE action = "read" /\ ~fallback
    <3>1. gate = <<>>
      BY <2>2
    <3>2. steps = <<"authorize">> \o (<<>> \o <<"credential", "bind", "read">>)
      BY <2>2, <3>1
    <3>3. fallback = FALSE
      BY <2>2
    <3> QED
      BY <3>2, <3>3, ReadStepsOpen
  <2>3. CASE action \in {"operate", "administer"}
    <3>1. gate = <<"writes">>
      BY <2>3
    <3>2. steps = <<"authorize", "attempt">> \o (<<"writes">> \o <<"credential", "bind", "write">>)
      BY <2>3, <3>1
    <3>3. fallback = FALSE
      BY <2>3
    <3> QED
      BY <3>2, <3>3, PrivilegedStepsOpen
  <2> QED
    BY <2>1, <2>2, <2>3
<1>2. Decorated(action, work) = Adapter(action, steps)
  BY DEF Decorated, Privileged
<1> HIDE DEF work, steps
<1>3. NativeProxy(action, method, binding, fallback) =
        [Adapter(action, steps) EXCEPT !.fallback = fallback, !.sealed = sealed,
                                       !.escapes = escapes]
  BY <1>2 DEF NativeProxy, work
<1>4. sealed \in BOOLEAN /\ escapes \in BOOLEAN
  OBVIOUS
<1> HIDE DEF sealed, escapes
<1>5. NativeProxy(action, method, binding, fallback) =
        [action |-> action, steps |-> steps, fallback |-> fallback,
         sealed |-> sealed, reshapes |-> FALSE, escapes |-> escapes]
  BY <1>3 DEF Adapter
<1>6. /\ steps \in Seq(Names \cup {"shadow", "result"})
      /\ StepsOpen(steps, action = "public", FALSE, fallback)
  BY <1>1 DEF StepsOpen, Shape, Needs
<1> DEFINE proxy == NativeProxy(action, method, binding, fallback)
<1>7. proxy.steps = steps /\ proxy.action = action /\ proxy.fallback = fallback
  BY <1>5
<1>8. action \in {"public", "read"} \cup NativeActions
  BY DEF NativeActions
<1>9. proxy \in AdapterTypes
  BY ONLY <1>4, <1>5, <1>6, <1>8, fallback \in BOOLEAN DEF AdapterTypes
<1>10. StepsOpen(proxy.steps, proxy.action = "public", FALSE, proxy.fallback)
  BY <1>6, <1>7 DEF StepsOpen
<1> QED
  BY <1>9, <1>10 DEF AdapterOpens

LEMMA OtherAdaptersOpen ==
  ASSUME NEW who, NEW adapter \in OtherAdapters(who)
  PROVE  AdapterOpens(adapter, FALSE)
<1>1. CASE adapter \in NativeRoutes
  <2>1. AdapterOpens(PublicProxy, FALSE)
    BY PublicStepsOpen, AdapterOpensWith DEF PublicProxy
  <2> QED
    BY <1>1, <2>1, NativeProxyOpens DEF NativeRoutes
<1>2. CASE adapter \in PublicPage
  BY <1>2, PublicStepsOpen, AdapterOpensWith DEF PublicPage
<1>3. CASE adapter \in StatusPagesList(who)
  <2>1. CASE adapter = Reshaped(Adapter("read", <<"directory">>))
    BY <2>1, OwnStepsOpen, AdapterOpensWith
  <2>2. CASE adapter = Reshaped(Adapter("read", <<"reads", "authorize", "credential", "read">>))
    BY <2>2, OwnStepsOpen, AdapterOpensWith
  <2>3. CASE adapter = Reshaped(Decorated("operate", <<"writes", "credential", "payload", "write">>))
    BY <2>3, PrivilegedStepsOpen, DecoratedOpensWith DEF NativeActions
  <2> QED
    BY <1>3, <2>1, <2>2, <2>3 DEF StatusPagesList
<1>4. CASE adapter \in Unsupported
  BY <1>4, ReadStepsOpen, PrivilegedStepsOpen, DecoratedOpensWith DEF Unsupported, NativeActions
<1>5. CASE adapter \in {IngestProcessingStatus, SessionRevoke}
  BY <1>5, NativeProxyOpens DEF IngestProcessingStatus, SessionRevoke
<1>6. CASE adapter \in {Capabilities, ApiHealth}
  BY <1>6, PublicStepsOpen, AdapterOpensWith DEF Capabilities, ApiHealth
<1>7. CASE adapter \in {StatusServiceDelete, StatusIncidentDelete}
  BY <1>7, PrivilegedStepsOpen, DecoratedOpensWith
     DEF StatusServiceDelete, StatusIncidentDelete, NativeActions
<1>8. CASE adapter = ForjdTenant
  BY <1>8, ReadStepsOpen, DecoratedOpensWith DEF ForjdTenant
<1>9. CASE adapter \in {ApiIngest, ApiIngestBatch}
  <2> DEFINE plain == Adapter("operate",
               <<"authorize", "credential", "attempt", "writes", "bind", "write">>)
  <2>1. AdapterOpens(plain, FALSE)
    BY OwnStepsOpen, AdapterOpensWith DEF NativeActions
  <2>2. adapter = [plain EXCEPT !.sealed = TRUE]
    BY <1>9 DEF ApiIngest, ApiIngestBatch
  <2> HIDE DEF plain
  <2> QED
    BY <2>1, <2>2 DEF AdapterOpens, AdapterTypes
<1> QED
  BY <1>1, <1>2, <1>3, <1>4, <1>5, <1>6, <1>7, <1>8, <1>9 DEF OtherAdapters

LEMMA PageAdaptersOpen ==
  ASSUME NEW who, NEW adapter \in PageAdapters(who)
  PROVE  AdapterOpens(adapter, TRUE)
<1>1. CASE adapter = Reshaped(Adapter("read", <<"reads", "published">>))
  BY <1>1, OwnStepsOpen, AdapterOpensWith
<1>2. CASE adapter =
        Reshaped(Adapter("read", <<"reads", "authorize", "credential", "owned", "read">>))
  BY <1>2, OwnStepsOpen, AdapterOpensWith
<1>3. CASE adapter = Decorated("operate", <<"writes", "credential", "owned", "write">>)
  BY <1>3, PrivilegedStepsOpen, DecoratedOpensWith DEF NativeActions
<1>4. CASE adapter =
        Reshaped(Decorated("operate", <<"writes", "credential", "owned", "payload", "write">>))
  BY <1>4, PrivilegedStepsOpen, DecoratedOpensWith DEF NativeActions
<1> QED
  BY <1>1, <1>2, <1>3, <1>4
  DEF PageAdapters, StatusPageDetail, StatusPageServices, StatusPageIncidents

LEMMA ArriveKeeps ==
  ASSUME IInv, NEW r \in Requests, Arrive(r) PROVE IInv'
<1>1. PICK who \in Accounts \cup {Visitor} :
        \/ \E adapter \in OtherAdapters(who) : Serve(r, who, NoPage, adapter, Nobody)
        \/ \E adapter \in PageAdapters(who), page \in Pages :
             Serve(r, who, page, adapter, Nobody)
        \/ \E page \in Pages : Serve(r, who, page, WidgetTelemetry, Nobody)
  BY DEF Arrive
<1>2. who \in Parties /\ Nobody \in Parties
  BY DEF Parties
<1>3. ASSUME NEW adapter \in OtherAdapters(who), Serve(r, who, NoPage, adapter, Nobody)
      PROVE  IInv'
  BY <1>2, <1>3, OtherAdaptersOpen, ServeKeeps
<1>4. ASSUME NEW adapter \in PageAdapters(who), NEW page \in Pages,
             Serve(r, who, page, adapter, Nobody)
      PROVE  IInv'
  <2>1. (page # NoPage) = TRUE
    BY NamesAssumption
  <2> QED
    BY <1>2, <1>4, <2>1, PageAdaptersOpen, ServeKeeps
<1>5. ASSUME NEW page \in Pages, Serve(r, who, page, WidgetTelemetry, Nobody) PROVE IInv'
  <2>1. (page # NoPage) = TRUE
    BY NamesAssumption
  <2>2. AdapterOpens(WidgetTelemetry, TRUE)
    BY PublicStepsOpen, AdapterOpensWith DEF WidgetTelemetry
  <2> QED
    BY <1>2, <1>5, <2>1, <2>2, ServeKeeps
<1> QED
  BY <1>1, <1>3, <1>4, <1>5

LEMMA BeatKeeps ==
  ASSUME IInv, NEW r \in Requests, Beat(r) PROVE IInv'
<1>1. AdapterOpens(Heartbeat, FALSE)
  BY PublicStepsOpen, AdapterOpensWith DEF Heartbeat
<1>2. Platform \in Parties /\ Platform \notin Accounts
  BY NamesAssumption DEF Parties
<1> QED
  BY <1>1, <1>2, ServeKeeps DEF Beat

-----------------------------------------------------------------------------
LEMMA InitIInv == ASSUME Init PROVE IInv
<1>1. Blank \in RequestTypes /\ Blank.answer = "gone" /\ Blank.adapter.steps = <<>>
  <2>1. <<>> \in Seq(Names \cup {"shadow", "result"})
    OBVIOUS
  <2>2. Adapter("public", <<>>) \in AdapterTypes /\ Adapter("public", <<>>).steps = <<>>
    BY <2>1 DEF Adapter, AdapterTypes
  <2> QED
    BY <2>2 DEF Blank, RequestTypes, Parties
<1>2. <<>> \in Seq(RowTypes)
  OBVIOUS
<1>3. Call!Idle \in [phase : {"idle", "open"} \cup Call!Ends, write : BOOLEAN, seen : 0..1]
      /\ Call!Idle.phase = "idle" /\ Call!Idle.write = FALSE
  BY DEF Call!Idle
<1>4. TypeOK
  BY <1>1, <1>2, <1>3 DEF Init, TypeOK, Call!CallInit, Call!CallTypeOK
<1>5. ASSUME NEW r \in Requests PROVE Ended(r)
  <2>1. req[r] = Blank /\ rows[r] = <<>> /\ receipt[r] = "none" /\ call[r] = Call!Idle
    BY DEF Init, Call!CallInit
  <2>2. <<>> \notin WithResult /\ <<>> \notin WithShadow
    BY TuplesDiffer DEF WithResult, WithShadow
  <2>3. Audited(req[r], rows[r], receipt[r], call[r])
    BY <1>1, <1>3, <2>1, <2>2, TuplesDiffer DEF Audited
  <2>4. Honest(req[r], call[r], mode.read)
    BY <1>1, <1>3, <2>1 DEF Honest
  <2> QED
    BY <1>1, <1>3, <2>1, <2>3, <2>4 DEF Ended, Concluded
<1> QED
  BY <1>4, <1>5 DEF IInv

LEMMA NextKeepsIInv == ASSUME IInv, [Next]_vars PROVE IInv'
<1>1. ASSUME NEW r \in Requests, Works(r) PROVE IInv'
  BY <1>1, AuthorizeKeeps, AttemptKeeps, GateKeeps, CredentialKeeps, WidgetCredentialKeeps,
     BindKeeps, PayloadKeeps, TellKeeps, RetiredKeeps, IssueKeeps, ReadReturnsKeeps,
     WriteReturnsKeeps, OwnedReturnsKeeps, DirectoryReturnsKeeps, SlugReturnsKeeps,
     CapabilitiesReturnKeeps, ResolveReturnsKeeps, SealReturnsKeeps, BeatReturnsKeeps,
     ShadowKeeps, ResultKeeps
  DEF Works
<1>2. CASE UNCHANGED vars
  BY <1>2 DEF vars, IInv, TypeOK, Call!CallTypeOK, Runs, Ended
<1> QED
  BY <1>1, <1>2, ArriveKeeps, BeatKeeps, ForjdTakesKeeps, ClientLeavesKeeps, RemapKeeps
  DEF Next

(* At every moment each request is under way with the rest of its steps in *)
(* an order in which each has what it needs, or is answered with an audit  *)
(* trail, a receipt and an answer that agree with its last call.           *)
THEOREM GatewayInvariant == Spec => []IInv
<1>1. Init => IInv
  BY InitIInv
<1>2. IInv /\ [Next]_vars => IInv'
  BY NextKeepsIInv
<1> QED
  BY <1>1, <1>2, PTL DEF Spec

-----------------------------------------------------------------------------
(* The properties.                                                         *)

(* What each audit trail there is contains.                                *)
LEMMA TrailContents ==
  /\ \A row : ~Contains(<<>>, row)
  /\ \A row : Contains(<<"denied">>, row) <=> row = "denied"
  /\ \A row : Contains(<<"attempted">>, row) <=> row = "attempted"
  /\ \A row : Contains(<<"attempted", "succeeded">>, row) <=> row \in {"attempted", "succeeded"}
  /\ \A row : Contains(<<"attempted", "failed">>, row) <=> row \in {"attempted", "failed"}
BY DEF Contains

LEMMA OneResult ==
  ASSUME NEW log \in {<<"attempted", "succeeded">>, <<"attempted", "failed">>}
  PROVE  \E i \in DOMAIN log : {j \in DOMAIN log : log[j] \in {"succeeded", "failed"}} = {i}
<1>1. DOMAIN log = {1, 2} /\ log[1] \notin {"succeeded", "failed"}
      /\ log[2] \in {"succeeded", "failed"}
  OBVIOUS
<1>2. {j \in DOMAIN log : log[j] \in {"succeeded", "failed"}} = {2}
  BY <1>1
<1> QED
  BY <1>1, <1>2

LEMMA IInvAuditTrail == ASSUME IInv PROVE AuditTrail
<1> SUFFICES ASSUME NEW r \in Requests
    PROVE LET Has(row) == Contains(rows[r], row)
              Written == call[r].write /\ call[r].seen = 1
              Confirmed == Written /\ call[r].phase = "ok" /\ req[r].word = "yes"
              Results == {i \in DOMAIN rows[r] : rows[r][i] \in {"succeeded", "failed"}}
          IN /\ Written /\ req[r].adapter.action # "public" => Has("attempted")
             /\ Has("succeeded") \/ receipt[r] = "accepted" => Confirmed
             /\ Has("denied") => call[r].phase = "idle"
             /\ Settled(r) /\ Has("attempted") /\ req[r].answer \notin {"gone", "escaped"} =>
                  \E i \in DOMAIN rows[r] : Results = {i}
  BY DEF AuditTrail
<1>1. CASE Runs(r)
  <2>1. /\ rows[r] \in {<<>>, <<"attempted">>} /\ receipt[r] = "none" /\ ~Settled(r)
        /\ call[r].write => req[r].adapter.action = "public" \/ rows[r] = <<"attempted">>
    BY <1>1 DEF Runs, Running, Shape, Settled, Step
  <2> QED
    BY <2>1, TrailContents
<1>2. CASE Ended(r)
  <2>1. Audited(req[r], rows[r], receipt[r], call[r])
    BY <1>2 DEF Ended, Concluded
  <2>2. call[r].write /\ req[r].adapter.action # "public" => Contains(rows[r], "attempted")
    BY <2>1, TrailContents DEF Audited
  <2>3. Contains(rows[r], "succeeded") => rows[r] = <<"attempted", "succeeded">>
    BY <2>1, TrailContents DEF Audited
  <2>4. Contains(rows[r], "denied") => rows[r] = <<"denied">>
    BY <2>1, TrailContents DEF Audited
  <2>5. Contains(rows[r], "succeeded") \/ receipt[r] = "accepted" => Confirms(req[r], call[r])
    BY <2>1, <2>3 DEF Audited
  <2>6. Settled(r) /\ Contains(rows[r], "attempted") /\ req[r].answer \notin {"gone", "escaped"} =>
          rows[r] \in {<<"attempted", "succeeded">>, <<"attempted", "failed">>}
    <3>1. <<>> \notin WithResult
      BY TuplesDiffer DEF WithResult
    <3> QED
      BY <2>1, <3>1, TrailContents DEF Audited, Settled, Step
  <2> QED
    BY <2>1, <2>2, <2>4, <2>5, <2>6, OneResult DEF Audited, Confirms
<1> QED
  BY <1>1, <1>2 DEF IInv

LEMMA IInvOwnTenantOnly == ASSUME IInv PROVE OwnTenantOnly
<1> SUFFICES ASSUME NEW r \in Requests, InCall(r)
    PROVE LET Sealing == At(r, "session") \/ At(r, "seal") IN
          /\ req[r].who \in Accounts /\ ~Sealing => req[r].tenant \in {req[r].who, Nobody}
          /\ Sealing => /\ req[r].page \in Published \cup Reserved
                        /\ req[r].tenant = Owner[req[r].page]
          /\ (At(r, "read") \/ At(r, "write")) /\ req[r].page # NoPage =>
               Owner[req[r].page] = req[r].who /\ req[r].page \notin Reserved
  BY DEF OwnTenantOnly
<1>1. /\ Standing(req[r], rows[r]) /\ Step(r) \in Seq(Names) /\ Step(r) # <<>>
      /\ Step(r) = req[r].adapter.steps
  BY DEF InCall, IInv, Runs, Ended, Concluded, Running, Shape, Step
<1>2. ASSUME NEW step, At(r, step) PROVE Head(Step(r)) = step
  BY <1>2 DEF At
<1>3. req[r].who \in Accounts /\ req[r].tenant \notin {req[r].who, Nobody} =>
        At(r, "session") \/ At(r, "seal")
  <2> SUFFICES ASSUME Only(Step(r), Widget) PROVE At(r, "session") \/ At(r, "seal")
    BY <1>1 DEF Standing
  <2>1. Head(Step(r)) \in Widget
    BY <1>1, TailFacts DEF Only
  <2> QED
    BY <1>1, <2>1 DEF Widget, At, Settled
<1>4. At(r, "session") \/ At(r, "seal") =>
        InDirectory(req[r].page) /\ req[r].tenant = Owner[req[r].page]
  <2> SUFFICES ASSUME NEW step \in Widget, At(r, step)
               PROVE  InDirectory(req[r].page) /\ req[r].tenant = Owner[req[r].page]
    BY DEF Widget
  <2> DEFINE X == {"widgetCredential"} \cup Widget
  <2>1. Head(Step(r)) \in Widget /\ Head(Step(r)) \in X
    BY <1>2
  <2>2. /\ Needs(Step(r), X, {"resolve"}, InDirectory(req[r].page))
        /\ Needs(Step(r), Widget, {"widgetCredential"}, req[r].tenant = Owner[req[r].page])
    BY <1>1 DEF Standing
  <2>3. Step(r)[1] \in Widget /\ Step(r)[1] \in X /\ 1 \in 1..Len(Step(r))
    BY <1>1, <2>1, TailFacts
  <2> HIDE DEF X
  <2> QED
    BY <2>2, <2>3 DEF Needs
<1>5. At(r, "read") \/ At(r, "write") => Mine(req[r])
  BY <1>1, <1>2, NeedsHead DEF Standing
<1> QED
  BY <1>3, <1>4, <1>5 DEF InDirectory, Mine

LEMMA IInvHonestAnswer == ASSUME IInv PROVE HonestAnswer
<1>1. ASSUME NEW r \in Requests, Settled(r) PROVE Honest(req[r], call[r], mode.read)
  BY <1>1 DEF IInv, Runs, Running, Shape, Ended, Concluded, Settled, Step
<1> QED
  BY <1>1 DEF HonestAnswer, Honest

(* The audit trail of a request tells its story: no write that takes a     *)
(* role reaches FORJD before the row of its attempt, success is written    *)
(* down only when FORJD has confirmed it, who is denied calls nobody, and  *)
(* an answered request has one row of its result (forjd/policy.py).        *)
THEOREM AuditTrailHolds == Spec => []AuditTrail
BY GatewayInvariant, IInvAuditTrail, PTL

(* A call carries the credential of the account that asks or none, except  *)
(* that the widget's carries the page owner's; and a page is read or       *)
(* changed for its owner only, and never a reserved one (tenancy.py).      *)
THEOREM OwnTenantOnlyHolds == Spec => []OwnTenantOnly
BY GatewayInvariant, IInvOwnTenantOnly, PTL

(* An answer says no more than FORJD did, an outage comes out empty only   *)
(* where a path and a mode allow it, and who is told of anything but       *)
(* success or an outage may count on it that nothing was done              *)
(* (forjd/views.py, cutover.py).                                           *)
THEOREM HonestAnswerHolds == Spec => []HonestAnswer
BY GatewayInvariant, IInvHonestAnswer, PTL

-----------------------------------------------------------------------------
(* The client.                                                             *)

USE NoClassAssumption, FailureThresholdAssumption, CooldownAssumption,
    ReadAttemptsAssumption

(* What the phase of a call says about it: a write under way to FORJD has  *)
(* not been there before and has no second attempt.                        *)
SlotOK(s) ==
  /\ s.phase \in UnderWay => s.class \in Classes
  /\ s.phase = "handled" => s.seen = 1
  /\ s.write /\ s.phase = "sent" => s.seen = 0
  /\ s.phase = "backoff" => ~s.write /\ s.attempt < ReadAttempts

CallsOK == \A p \in Callers : SlotOK(slot[p])

ClientInv == ClientTypeOK /\ CallsOK /\ OpensOnlyOnFailures

BreakerOK ==
  /\ failures \in [Classes -> 0..FailureThreshold]
  /\ openFor \in [Classes -> 0..Cooldown]
  /\ sinceGood \in [Classes -> 0..FailureThreshold]
  /\ OpensOnlyOnFailures

SlotsTyped == slot \in [Callers -> Slots]

LEMMA Parts == ClientInv <=> BreakerOK /\ SlotsTyped /\ CallsOK
  BY DEF ClientInv, ClientTypeOK, BreakerOK, SlotsTyped

-----------------------------------------------------------------------------
(* The breaker.                                                            *)

LEMMA CountBounds ==
  ASSUME NEW n \in 0..FailureThreshold
  PROVE  /\ Count(n) \in 0..FailureThreshold
         /\ n <= Count(n)
         /\ \A m \in 0..FailureThreshold : n <= m => Count(n) <= Count(m)
  BY DEF Count

LEMMA UnchangedKeeps ==
  ASSUME BreakerOK, UNCHANGED <<breaker, sinceGood>>
  PROVE  BreakerOK'
  BY DEF BreakerOK, breaker, OpensOnlyOnFailures, IsOpen

LEMMA SuccessKeeps ==
  ASSUME BreakerOK, NEW c \in Classes, RecordSuccess(c)
  PROVE  BreakerOK'
  BY DEF BreakerOK, RecordSuccess, OpensOnlyOnFailures, IsOpen

(* A failed call that the breaker does not hear of.                        *)
LEMMA UnheardKeeps ==
  ASSUME BreakerOK, NEW c \in Classes, UNCHANGED breaker,
         sinceGood' = [sinceGood EXCEPT ![c] = Count(@)]
  PROVE  BreakerOK'
  <1>1. /\ Count(sinceGood[c]) \in 0..FailureThreshold
        /\ sinceGood[c] <= Count(sinceGood[c])
    BY CountBounds DEF BreakerOK
  <1>2. \A d \in Classes : sinceGood'[d] >= sinceGood[d]
    BY <1>1 DEF BreakerOK
  <1>3. sinceGood' \in [Classes -> 0..FailureThreshold]
    BY <1>1 DEF BreakerOK
  <1>4. ASSUME NEW d \in Classes
        PROVE  /\ failures'[d] <= sinceGood'[d]
               /\ openFor'[d] > 0 => failures'[d] = FailureThreshold
    BY <1>2, <1>3, <1>4 DEF BreakerOK, breaker, OpensOnlyOnFailures, IsOpen
  <1> QED
    BY <1>3, <1>4 DEF BreakerOK, breaker, OpensOnlyOnFailures, IsOpen

LEMMA FailureKeeps ==
  ASSUME BreakerOK, NEW c \in Classes, RecordFailure(c)
  PROVE  BreakerOK'
  <1>1. /\ Count(sinceGood[c]) \in 0..FailureThreshold
        /\ Count(failures[c]) \in 0..FailureThreshold
        /\ Count(failures[c]) <= Count(sinceGood[c])
    BY CountBounds DEF BreakerOK, OpensOnlyOnFailures
  <1>2. /\ failures' = [failures EXCEPT ![c] = Count(failures[c])]
        /\ sinceGood' = [sinceGood EXCEPT ![c] = Count(sinceGood[c])]
        /\ openFor' = [openFor EXCEPT ![c] =
             IF Count(failures[c]) >= FailureThreshold THEN Cooldown ELSE openFor[c]]
    BY DEF RecordFailure
  <1>3. /\ failures' \in [Classes -> 0..FailureThreshold]
        /\ openFor' \in [Classes -> 0..Cooldown]
        /\ sinceGood' \in [Classes -> 0..FailureThreshold]
    BY <1>1, <1>2 DEF BreakerOK
  <1>4. ASSUME NEW d \in Classes
        PROVE  /\ failures'[d] <= sinceGood'[d]
               /\ openFor'[d] > 0 => failures'[d] = FailureThreshold
    <2>1. CASE d = c
      <3>1. openFor[c] > 0 => failures[c] = FailureThreshold
        BY DEF BreakerOK, OpensOnlyOnFailures, IsOpen
      <3>2. failures[c] = FailureThreshold => Count(failures[c]) = FailureThreshold
        BY DEF Count
      <3> QED
        BY <1>1, <1>2, <2>1, <3>1, <3>2 DEF BreakerOK
    <2>2. CASE d # c
      BY <1>2, <2>2 DEF BreakerOK, OpensOnlyOnFailures, IsOpen
    <2> QED
      BY <2>1, <2>2
  <1> QED
    BY <1>3, <1>4 DEF BreakerOK, OpensOnlyOnFailures, IsOpen

LEMMA TickKeeps ==
  ASSUME BreakerOK, NEW c \in Classes, Tick(c)
  PROVE  BreakerOK'
  BY DEF BreakerOK, Tick, OpensOnlyOnFailures, IsOpen

-----------------------------------------------------------------------------
(* One call.  A step of a call puts another slot in the place of its own,  *)
(* and ForjdCall allows what the world sees of it.                         *)

Allowed(v, w) ==
  \/ w = v
  \/ /\ v.phase # "open"
     /\ \E write \in BOOLEAN : w = [phase |-> "open", write |-> write, seen |-> 0]
  \/ /\ v.phase = "open" /\ v.seen = 0
     /\ w = [phase |-> "open", write |-> v.write, seen |-> 1]
  \/ /\ v.phase = "open"
     /\ \E how \in Outcomes :
          /\ how \in {"ok", "rejected"} => v.seen = 1
          /\ how \in {"blocked", "refused"} => v.seen = 0
          /\ w = [phase |-> how, write |-> v.write, seen |-> v.seen]
  \/ /\ v.phase # "open"
     /\ \E write \in BOOLEAN, how \in {"blocked", "refused"} :
          w = [phase |-> how, write |-> write, seen |-> 0]

Moves(p, s) ==
  /\ s \in Slots
  /\ SlotOK(s)
  /\ Allowed(View(slot[p]), View(s))
  /\ slot' = [slot EXCEPT ![p] = s]

CallStep == \E p \in Callers, s \in Slots : Moves(p, s)

LEMMA StopMoves ==
  ASSUME SlotsTyped, CallsOK, NEW p \in Callers, NEW write \in BOOLEAN,
         NEW how \in {"blocked", "refused"}, Stop(p, write, how)
  PROVE  CallStep
  <1> DEFINE s == [phase |-> how, write |-> write, class |-> NoClass,
                   attempt |-> 0, seen |-> 0]
  <1>1. s \in Slots
    BY DEF Slots, Outcomes
  <1>2. SlotOK(s)
    BY DEF SlotOK, UnderWay
  <1>3. View(slot[p]).phase # "open"
    BY DEF Stop, InFlight, View, SlotsTyped, Slots, Outcomes
  <1>4. View(s) = [phase |-> how, write |-> write, seen |-> 0]
    BY DEF View, UnderWay
  <1>5. Allowed(View(slot[p]), View(s))
    BY <1>3, <1>4 DEF Allowed
  <1> QED
    BY <1>1, <1>2, <1>5 DEF Stop, CallStep, Moves

LEMMA SendMoves ==
  ASSUME SlotsTyped, CallsOK, NEW p \in Callers, NEW write \in BOOLEAN,
         NEW class \in Classes, Send(p, write, class)
  PROVE  CallStep
  <1> DEFINE s == [phase |-> "sent", write |-> write, class |-> class,
                   attempt |-> 1, seen |-> 0]
  <1>1. s \in Slots
    BY DEF Slots
  <1>2. SlotOK(s)
    BY DEF SlotOK, UnderWay
  <1>3. View(slot[p]).phase # "open"
    BY DEF Send, InFlight, View, SlotsTyped, Slots, Outcomes
  <1>4. View(s) = [phase |-> "open", write |-> write, seen |-> 0]
    BY DEF View, UnderWay
  <1>5. Allowed(View(slot[p]), View(s))
    BY <1>3, <1>4 DEF Allowed
  <1> QED
    BY <1>1, <1>2, <1>5 DEF Send, CallStep, Moves

(* A call goes on under way: the world sees nothing of it, or FORJD's      *)
(* taking the request.                                                     *)
LEMMA EnterMoves ==
  ASSUME SlotsTyped, CallsOK, NEW p \in Callers, InFlight(p),
         NEW phase \in UnderWay, NEW attempt \in 0..ReadAttempts, NEW seen \in 0..1,
         Enter(p, phase, attempt, seen),
         phase = "handled" => seen = 1,
         phase = "sent" => ~slot[p].write,
         phase = "backoff" => ~slot[p].write /\ attempt < ReadAttempts,
         slot[p].seen <= seen
  PROVE  CallStep
  <1> DEFINE old == slot[p]
             s == [phase |-> phase, write |-> old.write, class |-> old.class,
                   attempt |-> attempt, seen |-> seen]
  <1>1. /\ old.write \in BOOLEAN /\ old.class \in Classes
        /\ old.phase \in UnderWay /\ old.seen \in 0..1
    BY DEF SlotsTyped, Slots, CallsOK, SlotOK, InFlight
  <1>2. s \in Slots
    BY <1>1 DEF Slots, UnderWay
  <1>3. SlotOK(s)
    BY <1>1 DEF SlotOK
  <1>4. View(old) = [phase |-> "open", write |-> old.write, seen |-> old.seen]
    BY <1>1 DEF View
  <1>5. View(s) = [phase |-> "open", write |-> old.write, seen |-> seen]
    BY DEF View
  <1>6. seen = old.seen \/ (old.seen = 0 /\ seen = 1)
    BY <1>1
  <1>7. Allowed(View(old), View(s))
    BY <1>4, <1>5, <1>6 DEF Allowed
  <1>8. slot' = [slot EXCEPT ![p] = s]
    BY DEF Enter
  <1> QED
    BY <1>2, <1>3, <1>7, <1>8 DEF CallStep, Moves

(* A call ends.                                                            *)
LEMMA FinishMoves ==
  ASSUME SlotsTyped, CallsOK, NEW p \in Callers, InFlight(p),
         NEW how \in {"ok", "rejected", "failed", "dropped"}, Finish(p, how),
         how \in {"ok", "rejected"} => slot[p].seen = 1
  PROVE  CallStep
  <1> DEFINE old == slot[p]
             s == [phase |-> how, write |-> old.write, class |-> NoClass,
                   attempt |-> 0, seen |-> old.seen]
  <1>1. /\ old.write \in BOOLEAN /\ old.seen \in 0..1 /\ old.phase \in UnderWay
    BY DEF SlotsTyped, Slots, InFlight
  <1>2. s \in Slots
    BY <1>1 DEF Slots, Outcomes
  <1>3. SlotOK(s)
    BY DEF SlotOK, UnderWay
  <1>4. View(old) = [phase |-> "open", write |-> old.write, seen |-> old.seen]
    BY <1>1 DEF View
  <1>5. View(s) = [phase |-> how, write |-> old.write, seen |-> old.seen]
    BY DEF View, UnderWay
  <1>6. Allowed(View(old), View(s))
    BY <1>4, <1>5 DEF Allowed, Outcomes
  <1>7. slot' = [slot EXCEPT ![p] = s]
    BY DEF Finish
  <1> QED
    BY <1>2, <1>3, <1>6, <1>7 DEF CallStep, Moves

-----------------------------------------------------------------------------
(* The steps.                                                              *)

(* A step of a call leaves the breaker's part and the calls' part.         *)
Permitted == BreakerOK' /\ CallStep

LEMMA RetriesReads ==
  ASSUME SlotsTyped, NEW p \in Callers, Retries(slot[p])
  PROVE  ~slot[p].write /\ slot[p].attempt \in 0..ReadAttempts
         /\ slot[p].attempt < ReadAttempts
  BY DEF SlotsTyped, Slots, Retries

LEMMA BackoffPermitted ==
  ASSUME BreakerOK, SlotsTyped, CallsOK, NEW p \in Callers, InFlight(p),
         Retries(slot[p]), Backoff(p)
  PROVE  Permitted
  <1>1. BreakerOK'
    BY UnchangedKeeps DEF Backoff
  <1>2. ~slot[p].write /\ slot[p].attempt \in 0..ReadAttempts
        /\ slot[p].attempt < ReadAttempts /\ slot[p].seen \in 0..1
    BY RetriesReads DEF SlotsTyped, Slots
  <1>3. Enter(p, "backoff", slot[p].attempt, slot[p].seen)
    BY DEF Backoff
  <1>4. CallStep
    BY <1>2, <1>3, EnterMoves DEF UnderWay
  <1> QED
    BY <1>1, <1>4 DEF Permitted

LEMMA StopPermitted ==
  ASSUME BreakerOK, SlotsTyped, CallsOK, NEW p \in Callers, NEW write \in BOOLEAN,
         NotConfigured(p, write) \/ CircuitOpen(p, write) \/ BadRequest(p, write)
  PROVE  Permitted
  <1>1. PICK how \in {"blocked", "refused"} : Stop(p, write, how)
    BY DEF NotConfigured, CircuitOpen, BadRequest
  <1>2. BreakerOK'
    BY <1>1, UnchangedKeeps DEF Stop
  <1>3. CallStep
    BY <1>1, StopMoves
  <1> QED
    BY <1>2, <1>3 DEF Permitted

LEMMA SendPermitted ==
  ASSUME BreakerOK, SlotsTyped, CallsOK, NEW p \in Callers, NEW write \in BOOLEAN,
         NEW class \in Classes, Send(p, write, class)
  PROVE  Permitted
  <1>1. BreakerOK'
    BY UnchangedKeeps DEF Send
  <1>2. CallStep
    BY SendMoves
  <1> QED
    BY <1>1, <1>2 DEF Permitted

LEMMA HandlePermitted ==
  ASSUME BreakerOK, SlotsTyped, CallsOK, NEW p \in Callers, Handle(p)
  PROVE  Permitted
  <1>1. BreakerOK'
    BY UnchangedKeeps DEF Handle
  <1>2. /\ slot[p].phase = "sent" /\ slot[p].write \in BOOLEAN
        /\ slot[p].seen \in 0..1 /\ slot[p].attempt \in 0..ReadAttempts
        /\ slot[p].write => slot[p].seen = 0
    BY DEF Handle, SlotsTyped, Slots, CallsOK, SlotOK
  <1>3. (IF slot[p].write THEN slot[p].seen + 1 ELSE 1) = 1
    BY <1>2
  <1>4. Enter(p, "handled", slot[p].attempt, 1)
    BY <1>3 DEF Handle
  <1>5. CallStep
    BY <1>2, <1>4, EnterMoves DEF InFlight, UnderWay
  <1> QED
    BY <1>1, <1>5 DEF Permitted

(* No answer but a server error comes unless FORJD has seen the request.   *)
LEMMA AnswerPermitted ==
  ASSUME BreakerOK, SlotsTyped, CallsOK, NEW p \in Callers, NEW status \in Statuses,
         Answer(p, status)
  PROVE  Permitted
  <1>1. /\ slot[p].phase \in {"sent", "handled"} /\ InFlight(p)
        /\ slot[p].class \in Classes
        /\ status \notin ServerErrors => slot[p].seen = 1
    BY DEF Answer, SlotsTyped, Slots, CallsOK, SlotOK, InFlight, UnderWay
  <1>2. CASE Retries(slot[p]) /\ status \in RetryableStatuses
    BY <1>1, <1>2, BackoffPermitted DEF Answer
  <1>3. CASE ~(Retries(slot[p]) /\ status \in RetryableStatuses)
             /\ status \in ServerErrors
    <2>1. Finish(p, "failed")
      BY <1>3 DEF Answer
    <2>2. CallStep
      BY <1>1, <2>1, FinishMoves
    <2>3. CASE Retries(slot[p])
      <3>1. UNCHANGED breaker
            /\ sinceGood' = [sinceGood EXCEPT ![slot[p].class] = Count(@)]
        BY <1>3, <2>3 DEF Answer
      <3> QED
        BY <1>1, <2>2, <3>1, UnheardKeeps DEF Permitted
    <2>4. CASE ~Retries(slot[p])
      <3>1. RecordFailure(slot[p].class)
        BY <1>3, <2>4 DEF Answer
      <3> QED
        BY <1>1, <2>2, <3>1, FailureKeeps DEF Permitted
    <2> QED
      BY <2>3, <2>4
  <1>4. CASE ~(Retries(slot[p]) /\ status \in RetryableStatuses)
             /\ status \notin ServerErrors
    <2>1. PICK how \in {"ok", "rejected"} : Finish(p, how)
      BY <1>4 DEF Answer
    <2>2. RecordSuccess(slot[p].class)
      BY <1>4 DEF Answer
    <2>3. CallStep
      BY <1>1, <1>4, <2>1, FinishMoves
    <2> QED
      BY <1>1, <2>2, <2>3, SuccessKeeps DEF Permitted
  <1> QED
    BY <1>2, <1>3, <1>4

LEMMA UndecodablePermitted ==
  ASSUME BreakerOK, SlotsTyped, CallsOK, NEW p \in Callers, Undecodable(p)
  PROVE  Permitted
  <1>1. InFlight(p) /\ slot[p].class \in Classes
    BY DEF Undecodable, CallsOK, SlotOK, InFlight, UnderWay
  <1>2. Finish(p, "failed") /\ RecordSuccess(slot[p].class)
    BY DEF Undecodable
  <1> QED
    BY <1>1, <1>2, FinishMoves, SuccessKeeps DEF Permitted

LEMMA OversizedPermitted ==
  ASSUME BreakerOK, SlotsTyped, CallsOK, NEW p \in Callers, Oversized(p)
  PROVE  Permitted
  <1>1. InFlight(p) /\ slot[p].class \in Classes
    BY DEF Oversized, CallsOK, SlotOK, InFlight, UnderWay
  <1>2. /\ Finish(p, "failed") /\ UNCHANGED breaker
        /\ sinceGood' = [sinceGood EXCEPT ![slot[p].class] = Count(@)]
    BY DEF Oversized
  <1> QED
    BY <1>1, <1>2, FinishMoves, UnheardKeeps DEF Permitted

LEMMA TransportFailsPermitted ==
  ASSUME BreakerOK, SlotsTyped, CallsOK, NEW p \in Callers, TransportFails(p)
  PROVE  Permitted
  <1>1. InFlight(p) /\ slot[p].class \in Classes
    BY DEF TransportFails, CallsOK, SlotOK, InFlight, UnderWay
  <1>2. CASE Retries(slot[p])
    BY <1>1, <1>2, BackoffPermitted DEF TransportFails
  <1>3. CASE ~Retries(slot[p])
    <2>1. Finish(p, "failed") /\ RecordFailure(slot[p].class)
      BY <1>3 DEF TransportFails
    <2> QED
      BY <1>1, <2>1, FinishMoves, FailureKeeps DEF Permitted
  <1> QED
    BY <1>2, <1>3

(* Only a read comes back from a backoff.                                  *)
LEMMA NextAttemptPermitted ==
  ASSUME BreakerOK, SlotsTyped, CallsOK, NEW p \in Callers, NextAttempt(p)
  PROVE  Permitted
  <1>1. BreakerOK'
    BY UnchangedKeeps DEF NextAttempt
  <1>2. /\ slot[p].phase = "backoff" /\ ~slot[p].write
        /\ slot[p].seen \in 0..1 /\ slot[p].attempt + 1 \in 0..ReadAttempts
    BY DEF NextAttempt, SlotsTyped, Slots, CallsOK, SlotOK
  <1>3. Enter(p, "sent", slot[p].attempt + 1, slot[p].seen)
    BY DEF NextAttempt
  <1>4. CallStep
    BY <1>2, <1>3, EnterMoves DEF InFlight, UnderWay
  <1> QED
    BY <1>1, <1>4 DEF Permitted

LEMMA CancelledPermitted ==
  ASSUME BreakerOK, SlotsTyped, CallsOK, NEW p \in Callers, Cancelled(p)
  PROVE  Permitted
  <1>1. BreakerOK'
    BY UnchangedKeeps DEF Cancelled
  <1>2. CallStep
    BY FinishMoves DEF Cancelled
  <1> QED
    BY <1>1, <1>2 DEF Permitted

(* Every step: the breaker is left in order, and one call moves or none.   *)
LEMMA Steps ==
  ASSUME ClientInv, [ClientNext]_clientVars
  PROVE  BreakerOK' /\ (CallStep \/ UNCHANGED slot)
  <1>1. BreakerOK /\ SlotsTyped /\ CallsOK
    BY Parts
  <1>2. CASE UNCHANGED clientVars
    BY <1>1, <1>2, UnchangedKeeps DEF clientVars, breaker
  <1>3. ASSUME NEW p \in Callers, NEW write \in BOOLEAN,
               \/ NotConfigured(p, write) \/ CircuitOpen(p, write)
               \/ BadRequest(p, write)
               \/ \E class \in Classes : Send(p, write, class)
        PROVE  Permitted
    BY <1>1, <1>3, StopPermitted, SendPermitted
  <1>4. ASSUME NEW p \in Callers, Handle(p) \/ Goes(p) \/ Cancelled(p)
        PROVE  Permitted
    BY <1>1, <1>4, HandlePermitted, AnswerPermitted, UndecodablePermitted, OversizedPermitted,
       TransportFailsPermitted, NextAttemptPermitted, CancelledPermitted DEF Goes
  <1>5. ASSUME NEW c \in Classes, Tick(c)
        PROVE  BreakerOK' /\ UNCHANGED slot
    BY <1>1, <1>5, TickKeeps DEF Tick
  <1> QED
    BY <1>2, <1>3, <1>4, <1>5 DEF ClientNext, Permitted

LEMMA CallStepKeeps ==
  ASSUME SlotsTyped, CallsOK, CallStep
  PROVE  SlotsTyped' /\ CallsOK'
  <1>1. PICK p \in Callers, s \in Slots : Moves(p, s)
    BY DEF CallStep
  <1>2. slot' = [slot EXCEPT ![p] = s] /\ SlotOK(s)
    BY <1>1 DEF Moves
  <1>3. SlotsTyped'
    BY <1>2 DEF SlotsTyped
  <1>4. \A q \in Callers : slot'[q] = IF q = p THEN s ELSE slot[q]
    BY <1>2 DEF SlotsTyped
  <1> QED
    BY <1>2, <1>3, <1>4 DEF CallsOK

-----------------------------------------------------------------------------
(* The theorems.                                                           *)

(* The invariant holds: types, what the phase of a call says about it, and *)
(* when a circuit is open.                                                 *)
THEOREM ClientInvariant == ClientSpec => []ClientInv
  <1>1. ClientInit => ClientInv
    BY DEF ClientInit, ClientInv, ClientTypeOK, CallsOK, SlotOK, OpensOnlyOnFailures, IsOpen,
           NewSlot, Slots, UnderWay
  <1>2. ClientInv /\ [ClientNext]_clientVars => ClientInv'
    <2> SUFFICES ASSUME ClientInv, [ClientNext]_clientVars PROVE ClientInv'
      OBVIOUS
    <2>1. SlotsTyped /\ CallsOK
      BY Parts
    <2>2. SlotsTyped' /\ CallsOK'
      <3>1. CASE CallStep
        BY <2>1, <3>1, CallStepKeeps
      <3>2. CASE UNCHANGED slot
        BY <2>1, <3>2 DEF SlotsTyped, CallsOK
      <3> QED
        BY <3>1, <3>2, Steps
    <2> QED
      BY <2>2, Steps DEF ClientInv, ClientTypeOK, BreakerOK, SlotsTyped
  <1> QED
    BY <1>1, <1>2, PTL DEF ClientSpec

(* Counts, circuits and calls keep their types (_breaker_failures,         *)
(* _breaker_open_until, the locals of proxy).                              *)
THEOREM ClientTypeCorrect == ClientSpec => []ClientTypeOK
  <1>1. ClientInv => ClientTypeOK
    BY DEF ClientInv
  <1> QED
    BY <1>1, ClientInvariant, PTL

(* A circuit opens only after as many failed calls of its class as the     *)
(* threshold says with no answer between them.                             *)
THEOREM OpensOnFailures == ClientSpec => []OpensOnlyOnFailures
  <1>1. ClientInv => OpensOnlyOnFailures
    BY DEF ClientInv
  <1> QED
    BY <1>1, ClientInvariant, PTL

(* What the world sees of a call of ForjdClient.proxy is what ForjdCall    *)
(* says: one end, a write at FORJD at most once, an end that is true.      *)
THEOREM CallsKept == ClientSpec => Promise!CallInit /\ [][Promise!CallNext]_Promised
  <1>1. ClientInit => Promise!CallInit
    BY DEF ClientInit, Promise!CallInit, Promise!Idle, Promised, View, NewSlot, UnderWay
  <1>2. ClientInv /\ [ClientNext]_clientVars => [Promise!CallNext]_Promised
    <2> SUFFICES ASSUME ClientInv, [ClientNext]_clientVars PROVE [Promise!CallNext]_Promised
      OBVIOUS
    <2>1. SlotsTyped
      BY Parts
    <2>2. CASE UNCHANGED slot
      BY <2>2 DEF Promised
    <2>3. CASE CallStep
      <3>1. PICK p \in Callers, s \in Slots : Moves(p, s)
        BY <2>3 DEF CallStep
      <3> DEFINE v == View(slot[p])
                 w == View(s)
      <3>2. Allowed(v, w) /\ slot' = [slot EXCEPT ![p] = s]
        BY <3>1 DEF Moves
      <3>3. Promised[p] = v /\ Promised' = [Promised EXCEPT ![p] = w]
        BY <2>1, <3>2 DEF Promised, SlotsTyped
      <3>4. CASE w = v
        BY <3>3, <3>4 DEF Promised
      <3>5. CASE /\ v.phase # "open"
                 /\ \E write \in BOOLEAN :
                      w = [phase |-> "open", write |-> write, seen |-> 0]
        BY <3>3, <3>5 DEF Promise!CallNext, Promise!Begin
      <3>6. CASE /\ v.phase = "open" /\ v.seen = 0
                 /\ w = [phase |-> "open", write |-> v.write, seen |-> 1]
        BY <3>3, <3>6 DEF Promise!CallNext, Promise!Reach
      <3>7. CASE /\ v.phase = "open"
                 /\ \E how \in Outcomes :
                      /\ how \in {"ok", "rejected"} => v.seen = 1
                      /\ how \in {"blocked", "refused"} => v.seen = 0
                      /\ w = [phase |-> how, write |-> v.write, seen |-> v.seen]
        BY <3>3, <3>7 DEF Promise!CallNext, Promise!Return, Promise!End,
                          Promise!Ends, Outcomes
      <3>8. CASE /\ v.phase # "open"
                 /\ \E write \in BOOLEAN, how \in {"blocked", "refused"} :
                      w = [phase |-> how, write |-> write, seen |-> 0]
        BY <3>3, <3>8 DEF Promise!CallNext, Promise!NeverSent, Promise!Ends
      <3> QED
        BY <3>2, <3>4, <3>5, <3>6, <3>7, <3>8 DEF Allowed
    <2> QED
      BY <2>2, <2>3, Steps
  <1> QED
    BY <1>1, <1>2, ClientInvariant, PTL DEF ClientSpec
=============================================================================
