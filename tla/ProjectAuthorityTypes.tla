----------------------- MODULE ProjectAuthorityTypes -----------------------
(* ProjectAuthority is well typed, for every set of edits, readers,        *)
(* failures and bounds.  Two types are protocol facts: the window's count  *)
(* of saves in flight never falls below zero, and its patch lane is never  *)
(* empty when a patch is answered.  Both follow from an account of where   *)
(* each request is on its way.  On top of the types: the saves of the      *)
(* external agent.                                                         *)
EXTENDS ProjectAuthorityProofs, FiniteSets, FiniteSetTheorems

-----------------------------------------------------------------------------
(* Messages of one kind in a queue                                         *)

One(a, b) == IF a = b THEN 1 ELSE 0
In(s, kind) == {j \in DOMAIN s : s[j].kind = kind}
Count(s, kind) == Cardinality(In(s, kind))

LEMMA CountType ==
    ASSUME NEW S, NEW s \in Seq(S), NEW kind
    PROVE  IsFiniteSet(In(s, kind)) /\ Count(s, kind) \in Nat
  <1>1. In(s, kind) \in SUBSET (1 .. Len(s)) /\ Len(s) \in Int /\ 1 \in Int
    BY DEF In
  <1>2. IsFiniteSet(1 .. Len(s))
    BY <1>1, FS_Interval
  <1>3. IsFiniteSet(In(s, kind))
    BY <1>1, <1>2, FS_Subset
  <1> QED BY <1>3, FS_CardinalityType DEF Count

LEMMA CountEmpty == \A kind : Count(<<>>, kind) = 0
  <1>1. \A kind : In(<<>>, kind) = {}
    BY DEF In
  <1> QED BY <1>1, FS_EmptySet DEF Count

LEMMA CountAppended ==
    ASSUME NEW S, NEW s \in Seq(S), NEW e \in S, NEW kind
    PROVE  Count(Append(s, e), kind) <= Count(s, kind) + One(e.kind, kind)
  <1> DEFINE t == Append(s, e)
             n == Len(s) + 1
  <1>1. t \in Seq(S) /\ Len(t) = n /\ t[n] = e /\ \A j \in 1 .. Len(s) : t[j] = s[j]
    OBVIOUS
  <1>2. IsFiniteSet(In(s, kind)) /\ Count(s, kind) \in Nat
    BY CountType
  <1>3. CASE e.kind = kind
    <2>1. In(t, kind) \in SUBSET (In(s, kind) \cup {n})
      BY <1>1 DEF In
    <2>2. /\ IsFiniteSet(In(s, kind) \cup {n})
          /\ Cardinality(In(s, kind) \cup {n}) <= Count(s, kind) + 1
      <3> HIDE DEF t, n
      <3>1. /\ IsFiniteSet(In(s, kind) \cup {n})
            /\ Cardinality(In(s, kind) \cup {n}) =
                  IF n \in In(s, kind) THEN Cardinality(In(s, kind))
                                       ELSE Cardinality(In(s, kind)) + 1
        BY <1>2, FS_AddElement
      <3> QED BY <1>2, <3>1 DEF Count
    <2>3. Count(t, kind) <= Cardinality(In(s, kind) \cup {n})
      BY <2>1, <2>2, FS_Subset DEF Count
    <2>4. Count(t, kind) \in Nat /\ Cardinality(In(s, kind) \cup {n}) \in Nat
      BY <1>1, <2>2, CountType, FS_CardinalityType
    <2> HIDE DEF t, n
    <2>5. Count(t, kind) <= Count(s, kind) + 1
      BY <1>2, <2>2, <2>3, <2>4
    <2> QED BY <1>3, <2>5 DEF One, t
  <1>4. CASE e.kind # kind
    <2>1. In(t, kind) \in SUBSET In(s, kind)
      BY <1>1, <1>4 DEF In
    <2>2. Count(t, kind) <= Count(s, kind)
      BY <1>2, <2>1, FS_Subset DEF Count
    <2> QED BY <1>2, <1>4, <2>2 DEF One
  <1> QED BY <1>3, <1>4

(* A sequence without the element that was at i.                           *)
LEMMA CountWithout ==
    ASSUME NEW S, NEW s \in Seq(S), NEW i \in DOMAIN s, NEW t \in Seq(S), NEW kind,
           Len(t) = Len(s) - 1,
           \A j \in 1 .. Len(t) : t[j] = s[IF j < i THEN j ELSE j + 1]
    PROVE  Count(t, kind) + One(s[i].kind, kind) <= Count(s, kind)
  <1> DEFINE place == [j \in In(t, kind) |-> IF j < i THEN j ELSE j + 1]
             others == In(s, kind) \ {i}
  <1>1. /\ i \in 1 .. Len(s) /\ Len(s) \in Nat
        /\ IsFiniteSet(In(s, kind)) /\ Count(s, kind) \in Nat /\ Count(t, kind) \in Nat
    BY CountType
  <1>2. \A j \in In(t, kind) : j \in 1 .. Len(t) /\ t[j].kind = kind
    BY DEF In
  <1>3. \A j \in In(t, kind) : place[j] \in others
    <2> SUFFICES ASSUME NEW j \in In(t, kind) PROVE place[j] \in others
      OBVIOUS
    <2>1. place[j] \in 1 .. Len(s) /\ place[j] # i /\ t[j] = s[place[j]]
      BY <1>1, <1>2
    <2> QED BY <1>2, <2>1 DEF In
  <1>4. \A j, k \in In(t, kind) : place[j] = place[k] => j = k
    BY <1>1, <1>2
  <1>5. IsFiniteSet(others) /\ Cardinality(others) =
            IF i \in In(s, kind) THEN Cardinality(In(s, kind)) - 1 ELSE Cardinality(In(s, kind))
    BY <1>1, FS_RemoveElement
  <1>6. place \in [In(t, kind) -> others]
    BY <1>3
  <1>7. place \in Injection(In(t, kind), others)
    <2> HIDE DEF place, others
    <2> QED BY <1>4, <1>6 DEF Injection, IsInjective
  <1>8. Cardinality(In(t, kind)) <= Cardinality(others)
    <2> HIDE DEF place, others
    <2> QED BY <1>5, <1>7, FS_Injection
  <1>9. i \in In(s, kind) <=> s[i].kind = kind
    BY DEF In
  <1> QED BY <1>1, <1>5, <1>8, <1>9 DEF Count, One

LEMMA CountDequeued ==
    ASSUME NEW S, NEW s \in Seq(S), s # <<>>, NEW kind
    PROVE  Count(Tail(s), kind) + One(Head(s).kind, kind) <= Count(s, kind)
  <1>1. /\ 1 \in DOMAIN s /\ Tail(s) \in Seq(S) /\ Head(s) = s[1] /\ Len(Tail(s)) = Len(s) - 1
        /\ \A j \in 1 .. Len(Tail(s)) : Tail(s)[j] = s[IF j < 1 THEN j ELSE j + 1]
    OBVIOUS
  <1> QED BY <1>1, CountWithout

LEMMA Second ==
    ASSUME NEW S, NEW s \in Seq(S), NEW t \in Seq(S),
           NEW j \in 1 .. (Len(s) + Len(t)), ~(j <= Len(s))
    PROVE  (s \o t)[j] = t[j - Len(s)]
  OBVIOUS

LEMMA CountRemoved ==
    ASSUME NEW S, NEW s \in Seq(S), NEW i \in DOMAIN s, NEW kind
    PROVE  Count(RemoveAt(s, i), kind) + One(s[i].kind, kind) <= Count(s, kind)
  <1> DEFINE before == SubSeq(s, 1, i - 1)
             after  == SubSeq(s, i + 1, Len(s))
  <1>1. i \in 1 .. Len(s) /\ Len(s) \in Nat
    OBVIOUS
  <1>2. /\ before \in Seq(S) /\ Len(before) = i - 1
        /\ \A j \in 1 .. i - 1 : before[j] = s[j]
    BY <1>1
  <1>3. /\ after \in Seq(S) /\ Len(after) = Len(s) - i
        /\ \A j \in 1 .. Len(s) - i : after[j] = s[i + j]
    BY <1>1
  <1> HIDE DEF before, after
  <1>4. RemoveAt(s, i) = before \o after
    BY DEF RemoveAt, before, after
  <1>5. before \o after \in Seq(S) /\ Len(before \o after) = Len(s) - 1
    BY <1>1, <1>2, <1>3
  <1>6. ASSUME NEW j \in 1 .. Len(s) - 1
        PROVE  (before \o after)[j] = s[IF j < i THEN j ELSE j + 1]
    <2>1. CASE j < i
      BY <1>1, <1>2, <1>3, <2>1
    <2>2. CASE ~(j < i)
      <3>a. Len(before) = i - 1 /\ Len(after) = Len(s) - i /\ j \in 1 .. (Len(before) + Len(after))
        BY <1>1, <1>2, <1>3
      <3>b. ~(j <= Len(before))
        BY <1>1, <2>2, <3>a
      <3>1. (before \o after)[j] = after[j - (i - 1)]
        <4>1. before \in Seq(S) /\ after \in Seq(S)
          BY <1>2, <1>3
        <4>2. (before \o after)[j] = after[j - Len(before)]
          BY <3>a, <3>b, <4>1, Second
        <4> QED BY <3>a, <4>2
      <3>2. j - (i - 1) \in 1 .. Len(s) - i /\ i + (j - (i - 1)) = j + 1
        BY <1>1, <2>2
      <3> QED BY <1>3, <2>2, <3>1, <3>2
    <2> QED BY <2>1, <2>2
  <1>7. Count(before \o after, kind) + One(s[i].kind, kind) <= Count(s, kind)
    BY <1>5, <1>6, CountWithout
  <1> QED BY <1>4, <1>7

-----------------------------------------------------------------------------
(* Sums                                                                    *)

LEMMA StillWithin ==
    ASSUME NEW a \in Nat, NEW b \in Nat, NEW c \in Nat, NEW d \in Nat, NEW n \in Nat,
           NEW x \in Nat, NEW y \in Nat, NEW z \in Nat,
           x + y + z <= a + b + c, a + b + c + d <= n
    PROVE  x + y + z + d <= n
  OBVIOUS

LEMMA StillWithinTwo ==
    ASSUME NEW a \in Nat, NEW b \in Nat, NEW c \in Nat, NEW d \in Nat, NEW n \in Nat,
           NEW y \in Nat, NEW z \in Nat,
           y + z <= c + d, a + b + c + d <= n
    PROVE  a + b + y + z <= n
  OBVIOUS

LEMMA OneMore ==
    ASSUME NEW a \in Nat, NEW b \in Nat, NEW c \in Nat, NEW d \in Nat, NEW n \in Nat,
           NEW z \in Nat, z <= d, a + b + c + d <= n
    PROVE  (a + 1) + b + c + z <= n + 1
  OBVIOUS

LEMMA OneLess ==
    ASSUME NEW a \in Nat, NEW b \in Nat, NEW c \in Nat, NEW d \in Nat, NEW n \in Nat,
           NEW z \in Nat, z + 1 <= d, a + b + c + d <= n
    PROVE  a + b + c + z <= n - 1 /\ n - 1 \in Nat
  OBVIOUS

LEMMA NoneLeft ==
    ASSUME NEW a \in Nat, NEW b \in Nat, NEW c \in Nat, NEW d \in Nat,
           a + b + c + d <= 0
    PROVE  a = 0 /\ b = 0 /\ c = 0 /\ d = 0
  OBVIOUS

LEMMA OnlyOne ==
    ASSUME NEW a \in Nat, NEW b \in Nat, NEW c \in Nat, NEW d \in Nat, NEW n \in {0, 1},
           a + b + c + d <= n, d >= 1
    PROVE  n = 1 /\ a = 0 /\ b = 0 /\ c = 0 /\ d = 1
  OBVIOUS

-----------------------------------------------------------------------------
(* Requests of the window on their way                                     *)

(* Every save and every patch the window has sent is somewhere: a request, *)
(* the write in the lane, an answer or a delivery.  The window counts each *)
(* of its saves, and has one patch on its way at most, which heads its     *)
(* lane.                                                                   *)
PatchAsked == IF asked.patch = None THEN 0 ELSE 1
LaneBusy == IF renderer.lane = <<>> THEN 0 ELSE 1
SavesInFlight ==
    Len(asked.saves) + One(op.kind, "save") + Count(answer, "save") + Count(inbox, "save")
PatchesInFlight ==
    PatchAsked + One(op.kind, "patch")
        + Count(answer, "patch") + Count(inbox, "patch")
Accounted ==
    /\ SavesInFlight <= renderer.saving
    /\ PatchesInFlight <= LaneBusy

TypeInv == TypeOK /\ Accounted

OpType == [kind : Kinds \cup {"run"}, doc : Docs, entries : Docs,
           step : {"writing", "landed", "recorded"}, how : {"applied", "rebased"}]
PatchType == [edit : UserEdits, expected : Nat]

AskedType == [saves : Seq(Views), patch : {None} \cup PatchType, run : {None} \cup Views]
RendererType == [doc : Docs, revision : Nat, owed : BOOLEAN, saving : Nat,
                 diverged : BOOLEAN, lane : Seq(UserEdits), authority : {None} \cup Docs]

(* The numbers the account adds up.                                        *)
LEMMA SaveNumbers ==
    ASSUME TypeOK
    PROVE  /\ Len(asked.saves) \in Nat /\ renderer.saving \in Nat
           /\ Count(answer, "save") \in Nat /\ Count(inbox, "save") \in Nat
           /\ One(op.kind, "save") \in Nat
  <1>1. /\ answer \in Seq(Messages) /\ inbox \in Seq(Messages)
        /\ asked.saves \in Seq(Views) /\ renderer.saving \in Nat
    BY DEF TypeOK
  <1>2. Count(answer, "save") \in Nat /\ Count(inbox, "save") \in Nat
    BY <1>1, CountType
  <1>3. One(op.kind, "save") \in Nat
    BY DEF One
  <1> QED BY <1>1, <1>2, <1>3

LEMMA PatchNumbers ==
    ASSUME TypeOK
    PROVE  /\ PatchAsked \in Nat /\ LaneBusy \in {0, 1}
           /\ Count(answer, "patch") \in Nat /\ Count(inbox, "patch") \in Nat
           /\ One(op.kind, "patch") \in Nat
  <1>1. answer \in Seq(Messages) /\ inbox \in Seq(Messages)
    BY DEF TypeOK
  <1>2. Count(answer, "patch") \in Nat /\ Count(inbox, "patch") \in Nat
    BY <1>1, CountType
  <1>3. One(op.kind, "patch") \in Nat /\ PatchAsked \in Nat /\ LaneBusy \in {0, 1}
    BY DEF One, PatchAsked, LaneBusy
  <1> QED BY <1>2, <1>3

(* What a message may be.                                                  *)
LEMMA MessageTypes ==
    /\ \A doc \in Docs, revision \in Nat :
          /\ Changed(doc, revision) \in Messages
          /\ \A kind \in Kinds, how \in {"applied", "rebased", "replayed"} :
                Accepted(kind, doc, revision, how) \in Messages
    /\ \A kind \in Kinds : Refused(kind) \in Messages
    /\ \A m \in Messages :
          /\ m.kind = "changed" => m.doc \in Docs /\ m.revision \in Nat
          /\ m.kind \in Kinds /\ m.ok => m.doc \in Docs /\ m.revision \in Nat
  BY DEF Changed, Accepted, Refused, Messages, Kinds

LEMMA RecordType ==
    ASSUME TypeOK, NEW doc \in Docs, NEW entries \in Docs
    PROVE  RecordPersisted(doc, entries) \in
               [project : Docs, history : Docs, persisted : Docs, revision : Nat]
  <1>1. service.history \in Docs /\ service.revision \in Nat
    BY DEF TypeOK
  <1>2. (service.history \cup entries) \cap doc \in Docs
    BY DEF Docs
  <1>3. (IF doc = service.persisted THEN service.revision ELSE service.revision + 1) \in Nat
    BY <1>1
  <1> QED BY <1>2, <1>3 DEF RecordPersisted

(* A step that moves no request and answers none.                          *)
LEMMA Steady ==
    ASSUME Accounted, UNCHANGED <<asked, answer, inbox>>, op'.kind = op.kind,
           renderer'.saving = renderer.saving, renderer'.lane = renderer.lane
    PROVE  Accounted'
  BY DEF Accounted, SavesInFlight, PatchesInFlight, PatchAsked, LaneBusy

LEMMA TypeInit == Init => TypeInv
  <1> SUFFICES ASSUME Init PROVE TypeInv
    OBVIOUS
  <1>1. {} \in Docs
    BY DEF Docs
  <1>2. TypeOK
    BY <1>1 DEF Init, TypeOK, Nothing
  <1>3. Accounted
    <2>1. asked = Nothing /\ op = Idle /\ answer = <<>> /\ inbox = <<>>
          /\ renderer.saving = 0 /\ renderer.lane = <<>>
      BY DEF Init
    <2>2. /\ Len(asked.saves) = 0 /\ asked.patch = None
          /\ One(op.kind, "save") = 0 /\ One(op.kind, "patch") = 0
      BY <2>1 DEF Nothing, Idle, One
    <2>3. /\ Count(answer, "save") = 0 /\ Count(inbox, "save") = 0
          /\ Count(answer, "patch") = 0 /\ Count(inbox, "patch") = 0
      BY <2>1, CountEmpty
    <2>4. SavesInFlight = 0
      BY <2>2, <2>3 DEF SavesInFlight
    <2>5. PatchesInFlight = 0 /\ LaneBusy = 0
      BY <2>1, <2>2, <2>3 DEF PatchesInFlight, PatchAsked, LaneBusy
    <2> QED BY <2>1, <2>4, <2>5 DEF Accounted
  <1> QED BY <1>2, <1>3 DEF TypeInv

-----------------------------------------------------------------------------
(* The window                                                              *)

LEMMA WindowTyped ==
    ASSUME TypeOK, UNCHANGED <<file, observed, desktop, agent>>, made' \in Docs,
           asked' \in AskedType, renderer' \in RendererType, inbox' \in Seq(Messages)
    PROVE  TypeOK'
  BY DEF TypeOK, desktop, AskedType, RendererType, PatchType

LEMMA WindowTypes == ASSUME TypeInv, Window PROVE TypeInv'
  <1>0. TypeOK /\ Accounted
    BY DEF TypeInv
  <1>ns. /\ Len(asked.saves) \in Nat /\ renderer.saving \in Nat
         /\ Count(answer, "save") \in Nat /\ Count(inbox, "save") \in Nat
         /\ One(op.kind, "save") \in Nat
    BY <1>0, SaveNumbers
  <1>np. /\ PatchAsked \in Nat /\ LaneBusy \in {0, 1}
         /\ Count(answer, "patch") \in Nat /\ Count(inbox, "patch") \in Nat
         /\ One(op.kind, "patch") \in Nat
    BY <1>0, PatchNumbers
  <1>s. Len(asked.saves) + One(op.kind, "save") + Count(answer, "save")
             + Count(inbox, "save") <= renderer.saving
    BY <1>0 DEF Accounted, SavesInFlight
  <1>l. PatchAsked + One(op.kind, "patch") + Count(answer, "patch")
             + Count(inbox, "patch") <= LaneBusy
    BY <1>0 DEF Accounted, PatchesInFlight
  <1>t. asked \in AskedType /\ renderer \in RendererType /\ made \in Docs
        /\ inbox \in Seq(Messages)
    BY <1>0 DEF TypeOK, AskedType, RendererType, PatchType
  <1>shown. Shown \in Views
    BY <1>0 DEF Shown, Views, TypeOK
  <1>1. ASSUME NEW e \in UserEdits, EditAsPatch(e) PROVE TypeInv'
    <2>1. renderer.doc \cup {e} \in Docs /\ made \cup {e} \in Docs
      BY <1>0 DEF TypeOK, Docs, Edits
    <2>2. Append(renderer.lane, e) \in Seq(UserEdits) /\ Append(renderer.lane, e) # <<>>
      <3>1. renderer.lane \in Seq(UserEdits)
        BY <1>t DEF RendererType
      <3> QED BY <3>1
    <2>3. PatchRequest(<<e>>, renderer.revision) \in PatchType
      BY <1>0 DEF PatchRequest, PatchType, TypeOK
    <2>4. TypeOK'
      <3>1. asked' \in AskedType
        BY <1>t, <1>1, <2>3 DEF EditAsPatch, AskedType
      <3>2. renderer' \in RendererType
        BY <1>t, <1>1, <2>1, <2>2 DEF EditAsPatch, RendererType
      <3> QED BY <1>0, <1>t, <1>1, <2>1, <3>1, <3>2, WindowTyped DEF EditAsPatch
    <2>5. /\ UNCHANGED <<op, answer, inbox>> /\ asked'.saves = asked.saves
          /\ renderer'.saving = renderer.saving /\ renderer'.lane # <<>>
          /\ renderer.lane # <<>> => asked' = asked
      BY <1>0, <1>1, <2>2 DEF EditAsPatch, desktop, TypeOK
    <2>6. Accounted'
      <3>1. SavesInFlight' <= renderer'.saving
        BY <1>s, <2>5 DEF SavesInFlight
      <3>2. LaneBusy' = 1 /\ PatchAsked' \in {0, 1}
        BY <2>5 DEF LaneBusy, PatchAsked
      <3>3. CASE renderer.lane # <<>>
        <4>1. PatchAsked' = PatchAsked /\ LaneBusy = 1
          BY <2>5, <3>3 DEF PatchAsked, LaneBusy
        <4> QED BY <1>l, <2>5, <3>1, <3>2, <4>1 DEF Accounted, PatchesInFlight
      <3>4. CASE renderer.lane = <<>>
        <4>1. LaneBusy = 0
          BY <3>4 DEF LaneBusy
        <4>2. /\ One(op.kind, "patch") = 0 /\ Count(answer, "patch") = 0
              /\ Count(inbox, "patch") = 0
          BY <1>np, <1>l, <4>1, NoneLeft
        <4>3. PatchesInFlight' <= 1
          BY <2>5, <3>2, <4>2 DEF PatchesInFlight
        <4> QED BY <3>1, <3>2, <4>3 DEF Accounted
      <3> QED BY <3>3, <3>4
    <2> QED BY <2>4, <2>6 DEF TypeInv
  <1>2. ASSUME NEW e \in UserEdits, EditAsDocument(e) PROVE TypeInv'
    <2>1. renderer.doc \cup {e} \in Docs /\ made \cup {e} \in Docs
      BY <1>0 DEF TypeOK, Docs, Edits
    <2>2. TypeOK'
      <3>1. renderer' \in RendererType
        BY <1>t, <1>2, <2>1 DEF EditAsDocument, RendererType
      <3> QED BY <1>0, <1>t, <1>2, <2>1, <3>1, WindowTyped DEF EditAsDocument
    <2>3. Accounted'
      BY <1>0, <1>t, <1>2, Steady DEF EditAsDocument, RendererType, desktop
    <2> QED BY <2>2, <2>3 DEF TypeInv
  <1>3. CASE Persist
    <2>1. Append(asked.saves, Shown) \in Seq(Views) /\ renderer.saving + 1 \in Nat
      BY <1>0, <1>ns, <1>shown DEF TypeOK
    <2>2. TypeOK'
      <3>1. asked' \in AskedType
        BY <1>t, <1>3, <2>1 DEF Persist, AskedType
      <3>2. renderer' \in RendererType
        BY <1>t, <1>3, <2>1 DEF Persist, RendererType
      <3> QED BY <1>0, <1>t, <1>3, <3>1, <3>2, WindowTyped DEF Persist
    <2>3. /\ UNCHANGED <<op, answer, inbox>> /\ asked'.patch = asked.patch
          /\ Len(asked'.saves) = Len(asked.saves) + 1
          /\ renderer'.saving = renderer.saving + 1 /\ renderer'.lane = renderer.lane
      BY <1>t, <1>3, <1>shown DEF Persist, desktop, AskedType, RendererType
    <2>4. Accounted'
      <3>1. SavesInFlight' <= renderer'.saving
        <4>1. (Len(asked.saves) + 1) + One(op.kind, "save") + Count(answer, "save")
                  + Count(inbox, "save") <= renderer.saving + 1
          <5>1. Count(inbox, "save") <= Count(inbox, "save")
            BY <1>ns
          <5> QED BY <1>ns, <1>s, <5>1, OneMore
        <4> QED BY <2>3, <4>1 DEF SavesInFlight
      <3>2. PatchAsked' = PatchAsked /\ LaneBusy' = LaneBusy
        BY <2>3 DEF PatchAsked, LaneBusy
      <3>3. PatchesInFlight' <= LaneBusy'
        BY <1>np, <1>l, <2>3, <3>2 DEF PatchesInFlight
      <3> QED BY <3>1, <3>3 DEF Accounted
    <2> QED BY <2>2, <2>4 DEF TypeInv
  <1>4. CASE AskRun
    <2>1. TypeOK'
      <3>1. asked' \in AskedType
        BY <1>t, <1>4, <1>shown DEF AskRun, AskedType
      <3> QED BY <1>0, <1>t, <1>4, <3>1, WindowTyped DEF AskRun
    <2>2. /\ UNCHANGED <<op, answer, inbox, renderer>> /\ asked'.patch = asked.patch
          /\ asked'.saves = asked.saves
      BY <1>t, <1>4 DEF AskRun, desktop, AskedType
    <2>3. Accounted'
      BY <1>0, <2>2 DEF Accounted, SavesInFlight, PatchesInFlight, PatchAsked, LaneBusy
    <2> QED BY <2>1, <2>3 DEF TypeInv
  <1>d. ASSUME NEW kind, Delivered(kind)
        PROVE  /\ Head(inbox) \in Messages /\ Head(inbox).kind = kind
               /\ inbox' \in Seq(Messages) /\ UNCHANGED <<op, answer>>
               /\ UNCHANGED <<file, observed, desktop, agent, made>>
    <2>1. inbox \in Seq(Messages) /\ inbox # <<>> /\ inbox' = Tail(inbox)
      BY <1>0, <1>d DEF Delivered, TypeOK
    <2>2. Head(inbox) \in Messages /\ inbox' \in Seq(Messages)
      BY <2>1, Dequeued
    <2>3. Head(inbox).kind = kind
      BY <1>d DEF Delivered
    <2>4. UNCHANGED <<file, observed, desktop, agent, made, op, answer>>
      BY <1>d DEF Delivered, desktop
    <2> QED BY <2>2, <2>3, <2>4 DEF Delivered
  <1>c. ASSUME NEW kind, Delivered(kind), NEW k
        PROVE  /\ Count(inbox', k) \in Nat /\ Count(inbox, k) \in Nat
               /\ Count(inbox', k) <= Count(inbox, k)
               /\ kind = k => Count(inbox', k) + 1 <= Count(inbox, k)
    <2>1. /\ inbox \in Seq(Messages) /\ inbox # <<>> /\ inbox' = Tail(inbox)
          /\ Head(inbox).kind = kind
      BY <1>0, <1>c DEF Delivered, TypeOK
    <2>2. Count(inbox', k) + One(kind, k) <= Count(inbox, k)
      BY <2>1, CountDequeued
    <2>3. Count(inbox', k) \in Nat /\ Count(inbox, k) \in Nat
      BY <1>c, <1>d, <2>1, CountType
    <2>4. One(kind, k) \in Nat /\ (kind = k => One(kind, k) = 1)
      BY DEF One
    <2> QED BY <2>2, <2>3, <2>4
  <1>ds. ASSUME NEW kind, Delivered(kind)
         PROVE  /\ Count(inbox', "save") \in Nat /\ Count(inbox', "save") <= Count(inbox, "save")
                /\ kind = "save" => Count(inbox', "save") + 1 <= Count(inbox, "save")
    BY <1>c, <1>ds
  <1>dp. ASSUME NEW kind, Delivered(kind)
         PROVE  /\ Count(inbox', "patch") \in Nat /\ Count(inbox', "patch") <= Count(inbox, "patch")
                /\ kind = "patch" => Count(inbox', "patch") + 1 <= Count(inbox, "patch")
    BY <1>c, <1>dp
  <1>5. CASE AdoptChange
    <2>0. Delivered("changed")
      BY <1>5 DEF AdoptChange
    <2>1. Head(inbox).doc \in Docs /\ Head(inbox).revision \in Nat
      BY <1>d, <2>0, MessageTypes
    <2>2. TypeOK'
      <3>1. renderer' \in RendererType
        BY <1>t, <1>5, <2>1 DEF AdoptChange, RendererType
      <3> QED BY <1>0, <1>t, <1>5, <1>d, <2>0, <3>1, WindowTyped DEF AdoptChange
    <2>3. /\ UNCHANGED <<op, answer, asked>>
          /\ renderer'.saving = renderer.saving /\ renderer'.lane = renderer.lane
      BY <1>t, <1>5, <1>d, <2>0 DEF AdoptChange, RendererType
    <2>4. Accounted'
      <3>1. SavesInFlight' <= renderer'.saving
        BY <1>ns, <1>s, <1>ds, <2>0, <2>3 DEF SavesInFlight
      <3>2. PatchAsked' = PatchAsked /\ LaneBusy' = LaneBusy
        BY <2>3 DEF PatchAsked, LaneBusy
      <3>3. PatchesInFlight' <= LaneBusy'
        BY <1>np, <1>l, <1>dp, <2>0, <2>3, <3>2 DEF PatchesInFlight
      <3> QED BY <3>1, <3>3 DEF Accounted
    <2> QED BY <2>2, <2>4 DEF TypeInv
  <1>6. CASE SaveAnswered
    <2>0. Delivered("save")
      BY <1>6 DEF SaveAnswered
    <2>1. Head(inbox).ok => Head(inbox).revision \in Nat
      BY <1>d, <2>0, MessageTypes DEF Kinds
    <2>2. Count(inbox', "save") + 1 <= Count(inbox, "save") /\ Count(inbox', "save") \in Nat
      BY <1>ds, <2>0
    <2>3. /\ Len(asked.saves) + One(op.kind, "save") + Count(answer, "save")
                + Count(inbox', "save") <= renderer.saving - 1
          /\ renderer.saving - 1 \in Nat
      BY <1>ns, <1>s, <2>2, OneLess
    <2>4. TypeOK'
      <3>1. renderer' \in RendererType
        BY <1>t, <1>6, <2>1, <2>3 DEF SaveAnswered, RendererType
      <3> QED BY <1>0, <1>t, <1>6, <1>d, <2>0, <3>1, WindowTyped DEF SaveAnswered
    <2>5. /\ UNCHANGED <<op, answer, asked>>
          /\ renderer'.saving = renderer.saving - 1 /\ renderer'.lane = renderer.lane
      BY <1>t, <1>6, <1>d, <2>0 DEF SaveAnswered, RendererType
    <2>6. Accounted'
      <3>1. SavesInFlight' <= renderer'.saving
        BY <2>3, <2>5 DEF SavesInFlight
      <3>2. PatchAsked' = PatchAsked /\ LaneBusy' = LaneBusy
        BY <2>5 DEF PatchAsked, LaneBusy
      <3>3. PatchesInFlight' <= LaneBusy'
        BY <1>np, <1>l, <1>dp, <2>0, <2>5, <3>2 DEF PatchesInFlight
      <3> QED BY <3>1, <3>3 DEF Accounted
    <2> QED BY <2>4, <2>6 DEF TypeInv
  <1>p. ASSUME Delivered("patch")
        PROVE  /\ renderer.lane # <<>>
               /\ PatchAsked = 0 /\ One(op.kind, "patch") = 0
               /\ Count(answer, "patch") = 0 /\ Count(inbox', "patch") = 0
    <2>1. Count(inbox', "patch") + 1 <= Count(inbox, "patch") /\ Count(inbox', "patch") \in Nat
      BY <1>dp, <1>p
    <2>2. renderer.lane = <<>> => LaneBusy = 0
      BY DEF LaneBusy
    <2>a. Count(inbox, "patch") >= 1
      BY <1>np, <2>1
    <2>3. /\ Count(inbox, "patch") = 1 /\ LaneBusy = 1
          /\ PatchAsked = 0 /\ One(op.kind, "patch") = 0 /\ Count(answer, "patch") = 0
      BY <1>np, <1>l, <2>a, OnlyOne
    <2> QED BY <1>np, <2>1, <2>2, <2>3
  <1>7. CASE PatchAccepted
    <2> DEFINE outcome == Head(inbox)
               rest == Tail(renderer.lane)
               authority == IF outcome.how = "rebased" \/ renderer.authority # None
                            THEN outcome.doc ELSE None
               adopt == rest = <<>> /\ authority # None
    <2>0. Delivered("patch") /\ outcome.ok
      BY <1>7 DEF PatchAccepted
    <2>1. outcome.doc \in Docs /\ outcome.revision \in Nat
      BY <1>d, <2>0, MessageTypes DEF Kinds
    <2>2. rest \in Seq(UserEdits) /\ renderer.lane # <<>>
      <3>1. renderer.lane \in Seq(UserEdits)
        BY <1>t DEF RendererType
      <3>2. renderer.lane # <<>>
        BY <1>p, <2>0
      <3> QED BY <3>1, <3>2, Dequeued
    <2>3. authority \in {None} \cup Docs
      BY <2>1
    <2>4. PatchRequest(rest, outcome.revision) \in {None} \cup PatchType
      BY <2>1, <2>2, Dequeued DEF PatchRequest, PatchType
    <2>5. /\ asked' = [asked EXCEPT !.patch = PatchRequest(rest, outcome.revision)]
          /\ renderer' = [renderer EXCEPT !.revision = outcome.revision,
                                !.lane = rest,
                                !.authority = IF rest = <<>> THEN None ELSE authority,
                                !.doc = IF adopt THEN authority ELSE @,
                                !.owed = @ /\ ~adopt]
          /\ UNCHANGED <<file, observed, desktop, agent, made>>
      BY <1>7 DEF PatchAccepted, Delivered
    <2>6. adopt \in BOOLEAN /\ (adopt => authority \in Docs)
      BY <2>3
    <2>7. rest = <<>> => PatchRequest(rest, outcome.revision) = None
      BY DEF PatchRequest
    <2> HIDE DEF outcome, rest, authority, adopt
    <2>8. asked' \in AskedType
      BY <1>t, <2>4, <2>5 DEF AskedType
    <2>9. renderer' \in RendererType
      <3>1. (IF rest = <<>> THEN None ELSE authority) \in {None} \cup Docs
        BY <2>3
      <3>2. (IF adopt THEN authority ELSE renderer.doc) \in Docs
        BY <1>t, <2>6 DEF RendererType
      <3>3. (renderer.owed /\ ~adopt) \in BOOLEAN
        OBVIOUS
      <3> QED BY <1>t, <2>1, <2>2, <2>5, <3>1, <3>2, <3>3 DEF RendererType
    <2>10. TypeOK'
      BY <1>0, <1>t, <1>d, <2>0, <2>5, <2>8, <2>9, WindowTyped
    <2>11. /\ asked'.saves = asked.saves /\ UNCHANGED <<op, answer>>
           /\ renderer'.saving = renderer.saving /\ renderer'.lane = rest
           /\ asked'.patch # None => rest # <<>>
      BY <1>t, <2>5, <2>7 DEF AskedType, RendererType, desktop
    <2>12. Accounted'
      <3>1. PatchAsked' <= LaneBusy'
        BY <2>11 DEF PatchAsked, LaneBusy
      <3>2. Count(inbox', "save") \in Nat /\ Count(inbox', "save") <= Count(inbox, "save")
        BY <1>ds, <2>0
      <3>3. PatchesInFlight' = PatchAsked'
        <4>1. PatchAsked' \in Nat
          BY DEF PatchAsked
        <4> QED BY <1>p, <2>0, <2>11, <4>1 DEF PatchesInFlight
      <3>4. SavesInFlight' <= renderer'.saving
        BY <1>ns, <1>s, <2>11, <3>2 DEF SavesInFlight
      <3> QED BY <3>1, <3>3, <3>4 DEF Accounted
    <2> QED BY <2>10, <2>12 DEF TypeInv
  <1>8. CASE PatchRejected
    <2>0. Delivered("patch")
      BY <1>8 DEF PatchRejected
    <2>1. Append(asked.saves, Shown) \in Seq(Views) /\ renderer.saving + 1 \in Nat
      BY <1>0, <1>ns, <1>shown DEF TypeOK
    <2>2. TypeOK'
      <3>1. asked' \in AskedType
        BY <1>t, <1>8, <2>1 DEF PatchRejected, AskedType
      <3>2. <<>> \in Seq(UserEdits)
        OBVIOUS
      <3>3. renderer' \in RendererType
        BY <1>t, <1>8, <2>1, <3>2 DEF PatchRejected, RendererType
      <3> QED BY <1>0, <1>t, <1>8, <1>d, <2>0, <3>1, <3>3, WindowTyped
    <2>3. /\ UNCHANGED <<op, answer>> /\ asked'.patch = asked.patch
          /\ Len(asked'.saves) = Len(asked.saves) + 1
          /\ renderer'.saving = renderer.saving + 1
      BY <1>t, <1>8, <1>d, <1>shown, <2>0 DEF PatchRejected, AskedType, RendererType
    <2>4. Accounted'
      <3>1. LaneBusy' \in Nat
        BY DEF LaneBusy
      <3>2. Count(inbox', "save") \in Nat /\ Count(inbox', "save") <= Count(inbox, "save")
        BY <1>ds, <2>0
      <3>3. PatchesInFlight' = 0
        <4>1. PatchAsked' = PatchAsked
          BY <2>3 DEF PatchAsked
        <4> QED BY <1>p, <2>0, <2>3, <4>1 DEF PatchesInFlight
      <3>4. SavesInFlight' <= renderer'.saving
        <4>1. (Len(asked.saves) + 1) + One(op.kind, "save") + Count(answer, "save")
                  + Count(inbox', "save") <= renderer.saving + 1
          BY <1>ns, <1>s, <3>2, OneMore
        <4> QED BY <2>3, <4>1 DEF SavesInFlight
      <3> QED BY <3>1, <3>3, <3>4 DEF Accounted
    <2> QED BY <2>2, <2>4 DEF TypeInv
  <1> QED BY <1>1, <1>2, <1>3, <1>4, <1>5, <1>6, <1>7, <1>8 DEF Window

-----------------------------------------------------------------------------
(* The commit lane                                                         *)

ServiceType == [project : Docs, history : Docs, persisted : Docs, revision : Nat]
WatcherType == [canonical : Docs, timer : BOOLEAN, flush : {None} \cup Docs]
ObservedType == [desktop : Docs, agent : {None} \cup Docs]

LEMMA HostTyped ==
    ASSUME TypeOK, UNCHANGED <<reading, renderer, agent>>, file' \in Docs, made' \in Docs,
           observed' \in ObservedType, service' \in ServiceType, watcher' \in WatcherType,
           op' \in {Idle} \cup OpType, run' \in {None} \cup Nat, asked' \in AskedType,
           answer' \in Seq(Messages), inbox' \in Seq(Messages)
    PROVE  TypeOK'
  BY DEF TypeOK, ServiceType, WatcherType, ObservedType, OpType, AskedType, PatchType

(* A step of the main process that passes requests on and loses none it    *)
(* has not answered.                                                       *)
LEMMA SavesPassedOn ==
    ASSUME TypeInv, renderer' = renderer, inbox' = inbox,
           Len(asked'.saves) \in Nat, One(op'.kind, "save") \in Nat, Count(answer', "save") \in Nat,
           Len(asked'.saves) + One(op'.kind, "save") + Count(answer', "save")
               <= Len(asked.saves) + One(op.kind, "save") + Count(answer, "save")
    PROVE  SavesInFlight' <= renderer'.saving
  <1>1. /\ Len(asked.saves) \in Nat /\ renderer.saving \in Nat
        /\ Count(answer, "save") \in Nat /\ Count(inbox, "save") \in Nat
        /\ One(op.kind, "save") \in Nat
    BY SaveNumbers DEF TypeInv
  <1>2. Len(asked.saves) + One(op.kind, "save") + Count(answer, "save")
            + Count(inbox, "save") <= renderer.saving
    BY DEF TypeInv, Accounted, SavesInFlight
  <1>3. Len(asked'.saves) + One(op'.kind, "save") + Count(answer', "save")
            + Count(inbox, "save") <= renderer.saving
    BY <1>1, <1>2, StillWithin
  <1> QED BY <1>3 DEF SavesInFlight

LEMMA PatchesPassedOn ==
    ASSUME TypeInv, renderer' = renderer, inbox' = inbox,
           PatchAsked' \in Nat, One(op'.kind, "patch") \in Nat, Count(answer', "patch") \in Nat,
           PatchAsked' + One(op'.kind, "patch") + Count(answer', "patch")
               <= PatchAsked + One(op.kind, "patch") + Count(answer, "patch")
    PROVE  PatchesInFlight' <= LaneBusy'
  <1>1. /\ PatchAsked \in Nat /\ LaneBusy \in Nat
        /\ Count(answer, "patch") \in Nat /\ Count(inbox, "patch") \in Nat
        /\ One(op.kind, "patch") \in Nat
    BY PatchNumbers DEF TypeInv
  <1>2. PatchAsked + One(op.kind, "patch") + Count(answer, "patch")
            + Count(inbox, "patch") <= LaneBusy
    BY DEF TypeInv, Accounted, PatchesInFlight
  <1>3. PatchAsked' + One(op'.kind, "patch") + Count(answer', "patch")
            + Count(inbox, "patch") <= LaneBusy
    BY <1>1, <1>2, StillWithin
  <1>4. LaneBusy' = LaneBusy
    BY DEF LaneBusy
  <1> QED BY <1>3, <1>4 DEF PatchesInFlight

LEMMA Posted ==
    ASSUME TypeOK, NEW message \in Messages, Answer(message), NEW kind
    PROVE  /\ answer' \in Seq(Messages)
           /\ Count(answer, kind) \in Nat /\ Count(answer', kind) \in Nat
           /\ Count(answer', kind) <= Count(answer, kind) + One(message.kind, kind)
  <1>1. answer \in Seq(Messages) /\ answer' = Append(answer, message)
    BY DEF TypeOK, Answer
  <1>2. answer' \in Seq(Messages)
    BY <1>1, Appended
  <1> QED BY <1>1, <1>2, CountType, CountAppended

(* The end of a write: a message of its kind, or of none.                  *)
LEMMA Concluded ==
    ASSUME TypeInv, op # Idle, op' = Idle, UNCHANGED <<asked, renderer, inbox>>,
           \/ UNCHANGED answer
           \/ \E message \in Messages :
                 Answer(message) /\ message.kind \in {op.kind, "changed"}
    PROVE  answer' \in Seq(Messages) /\ Accounted'
  <1>0. TypeOK /\ answer \in Seq(Messages)
    BY DEF TypeInv, TypeOK
  <1>1. answer' \in Seq(Messages)
    BY <1>0, Posted
  <1>2. /\ One(op'.kind, "save") = 0 /\ One(op'.kind, "patch") = 0 /\ PatchAsked' = PatchAsked
    BY DEF One, Idle, PatchAsked
  <1>3. ASSUME NEW kind \in {"save", "patch"}
        PROVE  /\ Count(answer, kind) \in Nat /\ Count(answer', kind) \in Nat
               /\ Count(answer', kind) <= One(op.kind, kind) + Count(answer, kind)
    <2>1. Count(answer, kind) \in Nat /\ Count(answer', kind) \in Nat
      BY <1>0, <1>1, CountType
    <2>2. One(op.kind, kind) \in Nat
      BY DEF One
    <2>3. CASE UNCHANGED answer
      BY <2>1, <2>2, <2>3
    <2>4. ASSUME NEW message \in Messages, Answer(message),
                 message.kind \in {op.kind, "changed"}
          PROVE  Count(answer', kind) <= One(op.kind, kind) + Count(answer, kind)
      <3>1. Count(answer', kind) <= Count(answer, kind) + One(message.kind, kind)
        BY <1>0, <2>4, Posted
      <3>2. One(message.kind, kind) \in Nat /\ One(message.kind, kind) <= One(op.kind, kind)
        BY <2>4 DEF One
      <3> QED BY <2>1, <2>2, <3>1, <3>2
    <2> QED BY <2>1, <2>3, <2>4
  <1>4. Accounted'
    <2>1. /\ Len(asked.saves) \in Nat /\ One(op.kind, "save") \in Nat
          /\ PatchAsked \in Nat /\ One(op.kind, "patch") \in Nat
      BY <1>0, SaveNumbers, PatchNumbers
    <2>2. Len(asked'.saves) + One(op'.kind, "save") + Count(answer', "save")
               <= Len(asked.saves) + One(op.kind, "save") + Count(answer, "save")
      BY <1>2, <1>3, <2>1
    <2>3. PatchAsked' + One(op'.kind, "patch") + Count(answer', "patch")
               <= PatchAsked + One(op.kind, "patch") + Count(answer, "patch")
      BY <1>2, <1>3, <2>1
    <2>4. SavesInFlight' <= renderer'.saving
      BY <1>2, <1>3, <2>1, <2>2, SavesPassedOn
    <2>5. PatchesInFlight' <= LaneBusy'
      BY <1>2, <1>3, <2>1, <2>3, PatchesPassedOn
    <2> QED BY <2>4, <2>5 DEF Accounted
  <1> QED BY <1>1, <1>4

LEMMA Begun ==
    ASSUME TypeOK, NEW kind \in Kinds \cup {"run"}, NEW doc \in Docs, NEW entries \in Docs,
           NEW expected, BeginWrite(kind, doc, entries, expected)
    PROVE  op' \in OpType /\ op'.kind = kind /\ watcher' \in WatcherType /\ answer' = answer
  <1>1. (IF expected = service.revision THEN "applied" ELSE "rebased") \in {"applied", "rebased"}
    OBVIOUS
  <1>2. op' \in OpType /\ op'.kind = kind
    BY <1>1 DEF BeginWrite, OpType
  <1>3. watcher \in WatcherType
    BY DEF TypeOK, WatcherType
  <1> QED BY <1>2, <1>3 DEF BeginWrite, WatcherType

(* A request that was taken up: the write it began, or the message that    *)
(* declines it.                                                            *)
LEMMA TakenUp ==
    ASSUME TypeInv, op = Idle, NEW kind \in Kinds \cup {"run"},
           \/ op'.kind = kind /\ UNCHANGED answer
           \/ UNCHANGED op /\ \E message \in Messages : Answer(message) /\ message.kind = kind
    PROVE  /\ answer' \in Seq(Messages)
           /\ \A k \in {"save", "patch"} :
                /\ One(op'.kind, k) \in Nat /\ Count(answer', k) \in Nat
                /\ One(op.kind, k) = 0 /\ Count(answer, k) \in Nat
                /\ One(op'.kind, k) + Count(answer', k) <= Count(answer, k) + One(kind, k)
  <1>0. TypeOK /\ answer \in Seq(Messages)
    BY DEF TypeInv, TypeOK
  <1>1. answer' \in Seq(Messages)
    BY <1>0, Posted
  <1>2. ASSUME NEW k \in {"save", "patch"}
        PROVE  /\ One(op'.kind, k) \in Nat /\ Count(answer', k) \in Nat
               /\ One(op.kind, k) = 0 /\ Count(answer, k) \in Nat
               /\ One(op'.kind, k) + Count(answer', k) <= Count(answer, k) + One(kind, k)
    <2>1. Count(answer, k) \in Nat /\ Count(answer', k) \in Nat
      BY <1>0, <1>1, CountType
    <2>2. One(op'.kind, k) \in Nat /\ One(kind, k) \in Nat /\ One(op.kind, k) = 0
      BY DEF One, Idle
    <2>3. CASE op'.kind = kind /\ UNCHANGED answer
      BY <2>1, <2>2, <2>3
    <2>4. ASSUME UNCHANGED op, NEW message \in Messages, Answer(message), message.kind = kind
          PROVE  One(op'.kind, k) + Count(answer', k) <= Count(answer, k) + One(kind, k)
      <3>1. Count(answer', k) <= Count(answer, k) + One(message.kind, k)
        BY <1>0, <2>4, Posted
      <3>2. One(op'.kind, k) = 0 /\ One(message.kind, k) = One(kind, k)
        BY <2>2, <2>4
      <3> QED BY <2>1, <2>2, <3>1, <3>2
    <2> QED BY <2>1, <2>2, <2>3, <2>4
  <1> QED BY <1>1, <1>2

LEMMA SaveTaken ==
    ASSUME TypeInv, op = Idle, asked.saves # <<>>, asked' = [asked EXCEPT !.saves = Tail(asked.saves)],
           UNCHANGED <<inbox, renderer>>,
           \/ op'.kind = "save" /\ UNCHANGED answer
           \/ UNCHANGED op /\ \E message \in Messages : Answer(message) /\ message.kind = "save"
    PROVE  answer' \in Seq(Messages) /\ asked' \in AskedType /\ Accounted'
  <1>1. asked \in AskedType /\ asked.saves \in Seq(Views)
    BY DEF TypeInv, TypeOK, AskedType, PatchType
  <1>2. Tail(asked.saves) \in Seq(Views) /\ Len(Tail(asked.saves)) = Len(asked.saves) - 1
        /\ Len(asked.saves) \in Nat /\ Len(asked.saves) >= 1
    BY <1>1
  <1>3. /\ asked' \in AskedType /\ asked'.patch = asked.patch
        /\ asked'.saves = Tail(asked.saves)
    BY <1>1, <1>2 DEF AskedType
  <1>4. /\ answer' \in Seq(Messages)
        /\ \A k \in {"save", "patch"} :
             /\ One(op'.kind, k) \in Nat /\ Count(answer', k) \in Nat
             /\ One(op.kind, k) = 0 /\ Count(answer, k) \in Nat
             /\ One(op'.kind, k) + Count(answer', k) <= Count(answer, k) + One("save", k)
    BY TakenUp DEF Kinds
  <1>5. One("save", "save") = 1 /\ One("save", "patch") = 0
    BY DEF One
  <1>6. SavesInFlight' <= renderer'.saving
    <2>1. /\ One(op'.kind, "save") \in Nat /\ Count(answer', "save") \in Nat
          /\ One(op.kind, "save") = 0 /\ Count(answer, "save") \in Nat
          /\ One(op'.kind, "save") + Count(answer', "save") <= Count(answer, "save") + 1
      BY <1>4, <1>5
    <2>2. Len(asked'.saves) \in Nat /\ Len(asked'.saves) + 1 = Len(asked.saves)
      BY <1>2, <1>3
    <2>3. Len(asked'.saves) + One(op'.kind, "save") + Count(answer', "save")
               <= Len(asked.saves) + One(op.kind, "save") + Count(answer, "save")
      BY <1>2, <2>1, <2>2
    <2> QED BY <2>1, <2>2, <2>3, SavesPassedOn
  <1>7. PatchesInFlight' <= LaneBusy'
    <2>1. /\ One(op'.kind, "patch") \in Nat /\ Count(answer', "patch") \in Nat
          /\ One(op.kind, "patch") = 0 /\ Count(answer, "patch") \in Nat
          /\ One(op'.kind, "patch") + Count(answer', "patch") <= Count(answer, "patch")
      BY <1>4, <1>5
    <2>2. PatchAsked' = PatchAsked /\ PatchAsked \in Nat
      BY <1>3 DEF PatchAsked
    <2>3. PatchAsked' + One(op'.kind, "patch") + Count(answer', "patch")
               <= PatchAsked + One(op.kind, "patch") + Count(answer, "patch")
      BY <2>1, <2>2
    <2> QED BY <2>1, <2>2, <2>3, PatchesPassedOn
  <1> QED BY <1>3, <1>4, <1>6, <1>7 DEF Accounted

LEMMA PatchTaken ==
    ASSUME TypeInv, op = Idle, asked.patch # None, asked' = [asked EXCEPT !.patch = None],
           UNCHANGED <<inbox, renderer>>,
           \/ op'.kind = "patch" /\ UNCHANGED answer
           \/ UNCHANGED op /\ \E message \in Messages : Answer(message) /\ message.kind = "patch"
    PROVE  answer' \in Seq(Messages) /\ asked' \in AskedType /\ Accounted'
  <1>1. asked \in AskedType /\ Len(asked.saves) \in Nat
    BY DEF TypeInv, TypeOK, AskedType, PatchType
  <1>3. /\ asked' \in AskedType /\ asked'.patch = None
        /\ asked'.saves = asked.saves
    BY <1>1 DEF AskedType
  <1>4. /\ answer' \in Seq(Messages)
        /\ \A k \in {"save", "patch"} :
             /\ One(op'.kind, k) \in Nat /\ Count(answer', k) \in Nat
             /\ One(op.kind, k) = 0 /\ Count(answer, k) \in Nat
             /\ One(op'.kind, k) + Count(answer', k) <= Count(answer, k) + One("patch", k)
    BY TakenUp DEF Kinds
  <1>5. One("patch", "save") = 0 /\ One("patch", "patch") = 1
    BY DEF One
  <1>6. SavesInFlight' <= renderer'.saving
    <2>1. /\ One(op'.kind, "save") \in Nat /\ Count(answer', "save") \in Nat
          /\ One(op.kind, "save") = 0 /\ Count(answer, "save") \in Nat
          /\ One(op'.kind, "save") + Count(answer', "save") <= Count(answer, "save")
      BY <1>4, <1>5
    <2>2. Len(asked'.saves) = Len(asked.saves) /\ Len(asked'.saves) \in Nat
      BY <1>1, <1>3
    <2>3. Len(asked'.saves) + One(op'.kind, "save") + Count(answer', "save")
               <= Len(asked.saves) + One(op.kind, "save") + Count(answer, "save")
      BY <2>1, <2>2
    <2> QED BY <2>1, <2>2, <2>3, SavesPassedOn
  <1>7. PatchesInFlight' <= LaneBusy'
    <2>1. /\ One(op'.kind, "patch") \in Nat /\ Count(answer', "patch") \in Nat
          /\ One(op.kind, "patch") = 0 /\ Count(answer, "patch") \in Nat
          /\ One(op'.kind, "patch") + Count(answer', "patch") <= Count(answer, "patch") + 1
      BY <1>4, <1>5
    <2>2. PatchAsked' = 0 /\ PatchAsked = 1
      BY <1>3 DEF PatchAsked
    <2>3. PatchAsked' + One(op'.kind, "patch") + Count(answer', "patch")
               <= PatchAsked + One(op.kind, "patch") + Count(answer, "patch")
      BY <2>1, <2>2
    <2> QED BY <2>1, <2>2, <2>3, PatchesPassedOn
  <1> QED BY <1>3, <1>4, <1>6, <1>7 DEF Accounted

LEMMA LaneTypes == ASSUME TypeInv, Lane PROVE TypeInv'
  <1>0. TypeOK /\ Accounted
    BY DEF TypeInv
  <1>t. /\ file \in Docs /\ made \in Docs /\ observed \in ObservedType
        /\ service \in ServiceType /\ watcher \in WatcherType /\ op \in {Idle} \cup OpType
        /\ run \in {None} \cup Nat /\ asked \in AskedType
        /\ answer \in Seq(Messages) /\ inbox \in Seq(Messages)
    BY <1>0 DEF TypeOK, ObservedType, ServiceType, WatcherType, OpType, AskedType, PatchType
  <1>1. CASE StartSave
    <2> DEFINE save == Head(asked.saves)
    <2>0. /\ op = Idle /\ asked.saves # <<>> /\ asked' = [asked EXCEPT !.saves = Tail(asked.saves)]
          /\ UNCHANGED <<file, observed, service, reading, run, inbox, renderer, agent, made>>
          /\ \/ BeginWrite("save", save.doc, save.doc, save.expected)
             \/ Decline(Refused("save"))
      BY <1>1 DEF StartSave, Granted
    <2>1. asked.saves \in Seq(Views)
      BY <1>t DEF AskedType
    <2>2. save \in Views
      BY <2>0, <2>1, Dequeued
    <2>3. save.doc \in Docs
      BY <2>2 DEF Views
    <2> HIDE DEF save
    <2>4. CASE BeginWrite("save", save.doc, save.doc, save.expected)
      <3>1. op' \in OpType /\ op'.kind = "save" /\ watcher' \in WatcherType /\ answer' = answer
        BY <1>0, <2>3, <2>4, Begun DEF Kinds
      <3>2. answer' \in Seq(Messages) /\ asked' \in AskedType /\ Accounted'
        BY <2>0, <3>1, SaveTaken
      <3> QED BY <1>0, <1>t, <2>0, <3>1, <3>2, HostTyped DEF TypeInv
    <2>5. CASE Decline(Refused("save"))
      <3>1. Refused("save") \in Messages /\ Refused("save").kind = "save"
        BY MessageTypes DEF Kinds, Refused
      <3>2. UNCHANGED <<op, watcher>> /\ Answer(Refused("save"))
        BY <2>5 DEF Decline
      <3>3. answer' \in Seq(Messages) /\ asked' \in AskedType /\ Accounted'
        BY <2>0, <3>1, <3>2, SaveTaken
      <3> QED BY <1>0, <1>t, <2>0, <3>2, <3>3, HostTyped DEF TypeInv
    <2> QED BY <2>0, <2>4, <2>5
  <1>p. ASSUME asked.patch # None, Granted("patch", None)
        PROVE  /\ asked.patch.edit \in Edits /\ op = Idle
               /\ asked' = [asked EXCEPT !.patch = None]
               /\ UNCHANGED <<file, observed, service, reading, run, inbox, renderer, agent, made>>
    BY <1>t, <1>p DEF AskedType, PatchType, Granted, Edits
  <1>2. CASE StartPatch
    <2> DEFINE doc == service.project \cup {asked.patch.edit}
    <2>0. asked.patch # None /\ Granted("patch", None)
          /\ BeginWrite("patch", doc, {asked.patch.edit}, asked.patch.expected)
      BY <1>2 DEF StartPatch
    <2>1. doc \in Docs /\ {asked.patch.edit} \in Docs
      BY <1>t, <1>p, <2>0 DEF ServiceType, Docs
    <2> HIDE DEF doc
    <2>2. op' \in OpType /\ op'.kind = "patch" /\ watcher' \in WatcherType /\ answer' = answer
      BY <1>0, <2>0, <2>1, Begun DEF Kinds
    <2>3. answer' \in Seq(Messages) /\ asked' \in AskedType /\ Accounted'
      BY <1>p, <2>0, <2>2, PatchTaken
    <2> QED BY <1>0, <1>t, <1>p, <2>0, <2>2, <2>3, HostTyped DEF TypeInv
  <1>3. ASSUME asked.patch # None, Granted("patch", None),
               NEW message \in Messages, message.kind = "patch", Decline(message)
        PROVE  TypeInv'
    <2>1. UNCHANGED <<op, watcher>> /\ Answer(message)
      BY <1>3 DEF Decline
    <2>2. answer' \in Seq(Messages) /\ asked' \in AskedType /\ Accounted'
      BY <1>p, <1>3, <2>1, PatchTaken
    <2> QED BY <1>0, <1>t, <1>p, <1>3, <2>1, <2>2, HostTyped DEF TypeInv
  <1>4. CASE ReplayPatch
    <2> DEFINE message == Accepted("patch", service.project, service.revision, "replayed")
    <2>1. message \in Messages /\ message.kind = "patch"
      BY <1>t, MessageTypes DEF ServiceType, Kinds, Accepted
    <2>2. asked.patch # None /\ Granted("patch", None) /\ Decline(message)
      BY <1>4 DEF ReplayPatch
    <2> HIDE DEF message
    <2> QED BY <1>3, <2>1, <2>2
  <1>5. CASE InvalidPatch
    <2>1. Refused("patch") \in Messages /\ Refused("patch").kind = "patch"
      BY MessageTypes DEF Kinds, Refused
    <2>2. asked.patch # None /\ Granted("patch", None) /\ Decline(Refused("patch"))
      BY <1>5 DEF InvalidPatch
    <2> QED BY <1>3, <2>1, <2>2
  <1>6. CASE BeginRun
    <2>1. asked.run \in Views
      BY <1>t, <1>6 DEF BeginRun, AskedType
    <2>2. /\ asked' \in AskedType /\ asked'.saves = asked.saves /\ asked'.patch = asked.patch
      BY <1>t, <1>6 DEF BeginRun, AskedType
    <2>3. service' \in ServiceType /\ run' \in {None} \cup Nat
      BY <1>t, <1>6, <2>1 DEF BeginRun, ServiceType, Views
    <2>4. UNCHANGED <<file, observed, watcher, reading, op, answer, inbox, renderer, agent, made>>
      BY <1>6 DEF BeginRun
    <2>5. TypeOK'
      BY <1>0, <1>t, <2>2, <2>3, <2>4, HostTyped
    <2>6. Accounted'
      BY <1>0, <2>2, <2>4 DEF Accounted, SavesInFlight, PatchesInFlight, PatchAsked, LaneBusy
    <2> QED BY <2>5, <2>6 DEF TypeInv
  <1>7. ASSUME NEW e \in RunEdits, StartRunPatch(e) PROVE TypeInv'
    <2> DEFINE doc == service.project \cup {e}
    <2>0. /\ op = Idle /\ made' = made \cup {e} /\ BeginWrite("run", doc, {e}, run)
          /\ UNCHANGED <<file, observed, service, reading, run, asked, inbox, renderer, agent>>
      BY <1>7 DEF StartRunPatch
    <2>1. doc \in Docs /\ {e} \in Docs /\ made' \in Docs
      BY <1>t, <2>0 DEF ServiceType, Docs, Edits
    <2> HIDE DEF doc
    <2>2. op' \in OpType /\ op'.kind = "run" /\ watcher' \in WatcherType /\ answer' = answer
      BY <1>0, <2>0, <2>1, Begun
    <2>3. TypeOK'
      BY <1>0, <1>t, <2>0, <2>1, <2>2, HostTyped
    <2>4. /\ One(op'.kind, "save") = 0 /\ One(op.kind, "save") = 0
          /\ One(op'.kind, "patch") = 0 /\ One(op.kind, "patch") = 0
      BY <2>0, <2>2 DEF One, Idle
    <2>5. Accounted'
      BY <1>0, <2>0, <2>2, <2>4
         DEF Accounted, SavesInFlight, PatchesInFlight, PatchAsked, LaneBusy
    <2> QED BY <2>3, <2>5 DEF TypeInv
  <1>w. ASSUME NEW step, Writing(step) PROVE op \in OpType /\ op # Idle
    BY <1>t, <1>w DEF Writing
  <1>8. CASE Publish
    <2>1. op \in OpType /\ Writing("writing")
      BY <1>8, <1>w DEF Publish
    <2>2. file' \in Docs /\ op' \in OpType /\ op'.kind = op.kind /\ watcher' \in WatcherType
      BY <1>t, <1>8, <2>1 DEF Publish, OpType, WatcherType
    <2>3. UNCHANGED <<observed, service, reading, run, asked, answer, inbox, renderer, agent, made>>
      BY <1>8 DEF Publish
    <2> QED BY <1>0, <1>t, <2>2, <2>3, HostTyped, Steady DEF TypeInv
  <1>9. CASE RecordBaseline
    <2>1. op \in OpType /\ Writing("landed")
      BY <1>9, <1>w DEF RecordBaseline
    <2>2. observed' \in ObservedType /\ op' \in OpType /\ op'.kind = op.kind
      BY <1>t, <1>9, <2>1 DEF RecordBaseline, OpType, ObservedType
    <2>3. UNCHANGED <<file, service, watcher, reading, run, asked, answer, inbox, renderer, agent, made>>
      BY <1>9 DEF RecordBaseline
    <2> QED BY <1>0, <1>t, <2>2, <2>3, HostTyped, Steady DEF TypeInv
  <1>r. ASSUME op \in OpType, Refuse(op.kind)
        PROVE  /\ run' \in {None} \cup Nat
               /\ \/ UNCHANGED answer
                  \/ \E message \in Messages :
                        Answer(message) /\ message.kind \in {op.kind, "changed"}
    <2>1. CASE op.kind = "run"
      BY <1>r, <2>1 DEF Refuse
    <2>2. CASE op.kind # "run"
      <3>1. op.kind \in Kinds
        BY <1>r, <2>2 DEF OpType
      <3>2. Refused(op.kind) \in Messages /\ Refused(op.kind).kind = op.kind
        BY <3>1, MessageTypes DEF Refused
      <3>3. Answer(Refused(op.kind)) /\ UNCHANGED run
        BY <1>r, <2>2 DEF Refuse
      <3> QED BY <1>t, <3>2, <3>3
    <2> QED BY <2>1, <2>2
  <1>10. CASE PublishFails
    <2>1. op \in OpType /\ op # Idle
      BY <1>10, <1>w DEF PublishFails
    <2>2. /\ op' = Idle /\ Refuse(op.kind)
          /\ UNCHANGED <<file, observed, service, watcher, reading, asked, inbox, renderer, agent, made>>
      BY <1>10 DEF PublishFails
    <2>3. answer' \in Seq(Messages) /\ Accounted'
      BY <1>r, <2>1, <2>2, Concluded
    <2> QED BY <1>0, <1>t, <1>r, <2>1, <2>2, <2>3, HostTyped DEF TypeInv
  <1>11. CASE Commit
    <2> DEFINE message == IF op.kind = "run"
                          THEN Changed(op.doc, service'.revision)
                          ELSE Accepted(op.kind, op.doc, service'.revision, op.how)
    <2>1. op \in OpType /\ op # Idle
      BY <1>11, <1>w DEF Commit
    <2>2. /\ op' = Idle /\ service' = RecordPersisted(op.doc, op.entries) /\ Answer(message)
          /\ run' = IF op.kind = "run" THEN service'.revision ELSE run
          /\ UNCHANGED <<file, observed, watcher, reading, asked, inbox, renderer, agent, made>>
      BY <1>11 DEF Commit
    <2>3. op.doc \in Docs /\ op.entries \in Docs /\ op.how \in {"applied", "rebased"}
          /\ op.kind \in Kinds \cup {"run"}
      BY <2>1 DEF OpType
    <2>4. service' \in ServiceType
      BY <1>0, <2>2, <2>3, RecordType DEF ServiceType
    <2>5. service'.revision \in Nat
      BY <2>4 DEF ServiceType
    <2>6. message \in Messages /\ message.kind \in {op.kind, "changed"}
      <3>1. CASE op.kind = "run"
        BY <2>3, <2>5, <3>1, MessageTypes DEF Changed
      <3>2. CASE op.kind # "run"
        BY <2>3, <2>5, <3>2, MessageTypes DEF Accepted
      <3> QED BY <3>1, <3>2
    <2> HIDE DEF message
    <2>7. answer' \in Seq(Messages) /\ Accounted'
      BY <2>1, <2>2, <2>6, Concluded
    <2>8. run' \in {None} \cup Nat
      BY <1>t, <2>2, <2>5
    <2> QED BY <1>0, <1>t, <2>2, <2>4, <2>7, <2>8, HostTyped DEF TypeInv
  <1>12. CASE CommitFails
    <2>1. op \in OpType /\ op # Idle
      BY <1>12, <1>w DEF CommitFails
    <2>2. /\ op' = Idle /\ Refuse(op.kind)
          /\ service' \in {service, RecordPersisted(op.doc, op.entries)}
          /\ UNCHANGED <<file, observed, watcher, reading, asked, inbox, renderer, agent, made>>
      BY <1>12 DEF CommitFails
    <2>3. service' \in ServiceType
      BY <1>0, <1>t, <2>1, <2>2, RecordType DEF ServiceType, OpType
    <2>4. answer' \in Seq(Messages) /\ Accounted'
      BY <1>r, <2>1, <2>2, Concluded
    <2> QED BY <1>0, <1>t, <1>r, <2>1, <2>2, <2>3, <2>4, HostTyped DEF TypeInv
  <1>13. ASSUME NEW i \in DOMAIN answer, Send(i) PROVE TypeInv'
    <2>0. /\ inbox' = Append(inbox, answer[i]) /\ answer' = RemoveAt(answer, i)
          /\ UNCHANGED <<file, observed, service, watcher, reading, op, run, asked, renderer, agent, made>>
      BY <1>13 DEF Send
    <2>1. answer[i] \in Messages
      BY <1>t
    <2>2. inbox' \in Seq(Messages) /\ answer' \in Seq(Messages)
      BY <1>t, <2>0, <2>1, Appended, Removed
    <2>3. TypeOK'
      BY <1>0, <1>t, <2>0, <2>2, HostTyped
    <2>4. ASSUME NEW kind
          PROVE  /\ Count(answer, kind) \in Nat /\ Count(answer', kind) \in Nat
                 /\ Count(inbox, kind) \in Nat /\ Count(inbox', kind) \in Nat
                 /\ Count(answer', kind) + Count(inbox', kind)
                        <= Count(answer, kind) + Count(inbox, kind)
      <3>1. /\ Count(answer, kind) \in Nat /\ Count(answer', kind) \in Nat
            /\ Count(inbox, kind) \in Nat /\ Count(inbox', kind) \in Nat
        BY <1>t, <2>2, CountType
      <3>2. Count(answer', kind) + One(answer[i].kind, kind) <= Count(answer, kind)
        BY <1>t, <2>0, CountRemoved
      <3>3. Count(inbox', kind) <= Count(inbox, kind) + One(answer[i].kind, kind)
        BY <1>t, <2>0, <2>1, CountAppended
      <3>4. One(answer[i].kind, kind) \in Nat
        BY DEF One
      <3> QED BY <3>1, <3>2, <3>3, <3>4
    <2>5. SavesInFlight' <= renderer'.saving
      <3>1. /\ Len(asked.saves) \in Nat /\ renderer.saving \in Nat /\ One(op.kind, "save") \in Nat
        BY <1>0, SaveNumbers
      <3>2. /\ Count(answer, "save") \in Nat /\ Count(answer', "save") \in Nat
            /\ Count(inbox, "save") \in Nat /\ Count(inbox', "save") \in Nat
            /\ Count(answer', "save") + Count(inbox', "save")
                   <= Count(answer, "save") + Count(inbox, "save")
        BY <2>4
      <3>3. Len(asked.saves) + One(op.kind, "save") + Count(answer, "save")
                + Count(inbox, "save") <= renderer.saving
        BY <1>0 DEF Accounted, SavesInFlight
      <3>4. Len(asked.saves) + One(op.kind, "save") + Count(answer', "save")
                + Count(inbox', "save") <= renderer.saving
        BY <3>1, <3>2, <3>3, StillWithinTwo
      <3> QED BY <2>0, <3>4 DEF SavesInFlight
    <2>6. PatchesInFlight' <= LaneBusy'
      <3>1. PatchAsked \in Nat /\ LaneBusy \in Nat /\ One(op.kind, "patch") \in Nat
        BY <1>0, PatchNumbers
      <3>2. /\ Count(answer, "patch") \in Nat /\ Count(answer', "patch") \in Nat
            /\ Count(inbox, "patch") \in Nat /\ Count(inbox', "patch") \in Nat
            /\ Count(answer', "patch") + Count(inbox', "patch")
                   <= Count(answer, "patch") + Count(inbox, "patch")
        BY <2>4
      <3>3. PatchAsked + One(op.kind, "patch") + Count(answer, "patch")
                + Count(inbox, "patch") <= LaneBusy
        BY <1>0 DEF Accounted, PatchesInFlight
      <3>4. PatchAsked + One(op.kind, "patch") + Count(answer', "patch")
                + Count(inbox', "patch") <= LaneBusy
        BY <3>1, <3>2, <3>3, StillWithinTwo
      <3>5. PatchAsked' = PatchAsked /\ LaneBusy' = LaneBusy
        BY <2>0 DEF PatchAsked, LaneBusy
      <3> QED BY <2>0, <3>4, <3>5 DEF PatchesInFlight
    <2> QED BY <2>3, <2>5, <2>6 DEF TypeInv, Accounted
  <1> QED BY <1>1, <1>2, <1>4, <1>5, <1>6, <1>7, <1>8, <1>9, <1>10, <1>11, <1>12, <1>13 DEF Lane

-----------------------------------------------------------------------------
(* The desktop's reads and the MCP session                                 *)

LEMMA ReadsTypes == ASSUME TypeInv, Reads PROVE TypeInv'
  <1>0. TypeOK /\ Accounted
    BY DEF TypeInv
  <1>t. /\ file \in Docs /\ made \in Docs /\ observed \in ObservedType
        /\ service \in ServiceType /\ watcher \in WatcherType /\ op \in {Idle} \cup OpType
        /\ run \in {None} \cup Nat /\ asked \in AskedType
        /\ answer \in Seq(Messages) /\ inbox \in Seq(Messages)
    BY <1>0 DEF TypeOK, ObservedType, ServiceType, WatcherType, OpType, AskedType, PatchType
  <1>1. CASE FlushReads
    <2>1. watcher' \in WatcherType
      BY <1>t, <1>1 DEF FlushReads, WatcherType
    <2>2. UNCHANGED <<file, observed, service, reading, op, run, asked, answer, inbox,
                      renderer, agent, made>>
      BY <1>1 DEF FlushReads
    <2> QED BY <1>0, <1>t, <2>1, <2>2, HostTyped, Steady DEF TypeInv
  <1>2. CASE FlushEnds
    <2> DEFINE text == watcher.flush
               message == Changed(text, service'.revision)
    <2>0. /\ observed' = [observed EXCEPT !.desktop = text]
          /\ watcher' = [watcher EXCEPT !.flush = None, !.canonical = text]
          /\ \/ UNCHANGED <<service, inbox>>
             \/ service' = RecordPersisted(text, {}) /\ inbox' = Append(inbox, message)
          /\ UNCHANGED <<file, reading, op, run, asked, answer, renderer, agent, made>>
          /\ text # None
      BY <1>2 DEF FlushEnds
    <2>1. text \in Docs /\ {} \in Docs
      BY <1>t, <2>0 DEF WatcherType, Docs
    <2> HIDE DEF text
    <2>2. observed' \in ObservedType /\ watcher' \in WatcherType
      BY <1>t, <2>0, <2>1 DEF ObservedType, WatcherType
    <2>3. CASE UNCHANGED <<service, inbox>>
      BY <1>0, <1>t, <2>0, <2>2, <2>3, HostTyped, Steady DEF TypeInv
    <2>4. CASE service' = RecordPersisted(text, {}) /\ inbox' = Append(inbox, message)
      <3>1. service' \in ServiceType
        BY <1>0, <2>1, <2>4, RecordType DEF ServiceType
      <3>2. message \in Messages /\ message.kind = "changed"
        BY <2>1, <3>1, MessageTypes DEF ServiceType, Changed
      <3> HIDE DEF message
      <3>3. inbox' \in Seq(Messages)
        BY <1>t, <2>4, <3>2, Appended
      <3>4. TypeOK'
        BY <1>0, <1>t, <2>0, <2>2, <3>1, <3>3, HostTyped
      <3>5. ASSUME NEW kind \in {"save", "patch"}
            PROVE  Count(inbox', kind) \in Nat /\ Count(inbox', kind) <= Count(inbox, kind)
        <4>1. Count(inbox', kind) <= Count(inbox, kind) + One(message.kind, kind)
          BY <1>t, <2>4, <3>2, CountAppended
        <4>2. One(message.kind, kind) = 0
          BY <3>2 DEF One
        <4>3. Count(inbox', kind) \in Nat /\ Count(inbox, kind) \in Nat
          BY <1>t, <3>3, CountType
        <4> QED BY <4>1, <4>2, <4>3
      <3>6. SavesInFlight' <= renderer'.saving
        <4>1. /\ Len(asked.saves) \in Nat /\ renderer.saving \in Nat
              /\ Count(answer, "save") \in Nat /\ Count(inbox, "save") \in Nat
              /\ One(op.kind, "save") \in Nat
          BY <1>0, SaveNumbers
        <4>2. Count(inbox', "save") \in Nat /\ Count(inbox', "save") <= Count(inbox, "save")
          BY <3>5
        <4>3. Len(asked.saves) + One(op.kind, "save") + Count(answer, "save")
                  + Count(inbox, "save") <= renderer.saving
          BY <1>0 DEF Accounted, SavesInFlight
        <4>4. Len(asked.saves) + One(op.kind, "save") + Count(answer, "save")
                  + Count(inbox', "save") <= renderer.saving
          BY <4>1, <4>2, <4>3
        <4> QED BY <2>0, <4>4 DEF SavesInFlight
      <3>7. PatchesInFlight' <= LaneBusy'
        <4>1. /\ PatchAsked \in Nat /\ LaneBusy \in Nat
              /\ Count(answer, "patch") \in Nat /\ Count(inbox, "patch") \in Nat
              /\ One(op.kind, "patch") \in Nat
          BY <1>0, PatchNumbers
        <4>2. Count(inbox', "patch") \in Nat /\ Count(inbox', "patch") <= Count(inbox, "patch")
          BY <3>5
        <4>3. PatchAsked + One(op.kind, "patch") + Count(answer, "patch")
                  + Count(inbox, "patch") <= LaneBusy
          BY <1>0 DEF Accounted, PatchesInFlight
        <4>4. PatchAsked + One(op.kind, "patch") + Count(answer, "patch")
                  + Count(inbox', "patch") <= LaneBusy
          BY <4>1, <4>2, <4>3
        <4>5. PatchAsked' = PatchAsked /\ LaneBusy' = LaneBusy
          BY <2>0 DEF PatchAsked, LaneBusy
        <4> QED BY <2>0, <4>4, <4>5 DEF PatchesInFlight
      <3> QED BY <3>4, <3>6, <3>7 DEF TypeInv, Accounted
    <2> QED BY <2>0, <2>3, <2>4
  <1>3. ASSUME NEW reader \in Readers, ReadFile(reader) \/ ReadEnds(reader) PROVE TypeInv'
    <2>1. reading \in [Readers -> {None} \cup Docs]
      BY <1>0 DEF TypeOK
    <2>2. reading' \in [Readers -> {None} \cup Docs]
      BY <1>t, <1>3, <2>1 DEF ReadFile, ReadEnds
    <2>3. observed' \in ObservedType
      BY <1>t, <1>3, <2>1 DEF ReadFile, ReadEnds, ObservedType
    <2>4. UNCHANGED <<file, service, watcher, op, run, asked, answer, inbox, renderer, agent, made>>
      BY <1>3 DEF ReadFile, ReadEnds
    <2>5. TypeOK'
      BY <1>0, <2>2, <2>3, <2>4 DEF TypeOK, ObservedType
    <2>6. Accounted'
      BY <1>0, <2>4, Steady
    <2> QED BY <2>5, <2>6 DEF TypeInv
  <1> QED BY <1>1, <1>2, <1>3 DEF Reads

AgentType ==
    [open : BOOLEAN, doc : Docs, reading : Seq(Docs), saves : Seq(Saves), based : BOOLEAN]

LEMMA HeadReplaced ==
    ASSUME NEW S, NEW s \in Seq(S), s # <<>>, NEW x \in S
    PROVE  /\ <<x>> \o Tail(s) \in Seq(S)
           /\ Head(<<x>> \o Tail(s)) = x
           /\ \A j \in DOMAIN (<<x>> \o Tail(s)) :
                  \/ (<<x>> \o Tail(s))[j] = x
                  \/ j \in DOMAIN s /\ (<<x>> \o Tail(s))[j] = s[j]
  <1>1. Len(<<x>>) = 1 /\ <<x>>[1] = x /\ <<x>> \in Seq(S)
    OBVIOUS
  <1>2. /\ Tail(s) \in Seq(S) /\ Len(Tail(s)) = Len(s) - 1
        /\ \A j \in 1 .. Len(s) - 1 : Tail(s)[j] = s[j + 1]
    OBVIOUS
  <1> DEFINE first == <<x>>  rest == Tail(s)
  <1> HIDE DEF first, rest
  <1>3. /\ first \o rest \in Seq(S) /\ Len(first \o rest) = Len(s)
        /\ (first \o rest)[1] = x
        /\ \A j \in 2 .. Len(s) : (first \o rest)[j] = rest[j - 1]
    BY <1>1, <1>2 DEF first, rest
  <1>4. \A j \in 2 .. Len(s) : j - 1 \in 1 .. Len(s) - 1 /\ j - 1 + 1 = j
    OBVIOUS
  <1>5. \A j \in 2 .. Len(s) : (first \o rest)[j] = s[j]
    BY <1>2, <1>3, <1>4 DEF rest
  <1>6. \A j \in 1 .. Len(s) : j = 1 \/ j \in 2 .. Len(s)
    OBVIOUS
  <1>7. Head(first \o rest) = x
    BY <1>3
  <1> QED BY <1>3, <1>5, <1>6, <1>7 DEF first, rest

LEMMA OrphanedSaves ==
    ASSUME NEW saves \in Seq(Saves)
    PROVE  /\ Orphaned(saves) \in Seq(Saves)
           /\ \A i \in DOMAIN Orphaned(saves) : ~Orphaned(saves)[i].current
  <1> DEFINE cut(i) == [saves[i] EXCEPT !.current = FALSE]
  <1>1. \A i \in 1 .. Len(saves) : saves[i] \in Saves
    OBVIOUS
  <1>2. \A i \in 1 .. Len(saves) : cut(i) \in Saves /\ ~cut(i).current
    BY <1>1 DEF Saves
  <1>3. DOMAIN saves = 1 .. Len(saves) /\ Len(saves) \in Nat
    OBVIOUS
  <1>4. Orphaned(saves) = [i \in 1 .. Len(saves) |-> cut(i)]
    BY <1>3 DEF Orphaned
  <1> HIDE DEF cut
  <1>5. [i \in 1 .. Len(saves) |-> cut(i)] \in Seq(Saves)
    BY <1>2, <1>3
  <1> QED BY <1>2, <1>3, <1>4, <1>5 DEF cut

(* The save that holds the session's lane.                                 *)
LEMMA AgentHead ==
    ASSUME TypeOK, NEW step, AgentWriting(step)
    PROVE  /\ agent.saves \in Seq(Saves) /\ agent.saves # <<>>
           /\ Head(agent.saves) \in Saves
           /\ Head(agent.saves) = agent.saves[1] /\ 1 \in DOMAIN agent.saves
           /\ Tail(agent.saves) \in Seq(Saves)
  <1>1. agent.saves \in Seq(Saves) /\ agent.saves # <<>>
    BY DEF TypeOK, AgentWriting
  <1> QED BY <1>1

LEMMA SessionTypes == ASSUME TypeInv, Session PROVE TypeInv'
  <1>0. TypeOK /\ Accounted
    BY DEF TypeInv
  <1>t. /\ file \in Docs /\ made \in Docs /\ observed \in ObservedType
        /\ watcher \in WatcherType /\ agent \in AgentType
    BY <1>0 DEF TypeOK, ObservedType, WatcherType, AgentType
  <1>1. /\ file' \in Docs /\ made' \in Docs /\ observed' \in ObservedType
        /\ watcher' \in WatcherType /\ agent' \in AgentType /\ AgentSteps
    <2>1. CASE AgentReads
      <3>1. Append(agent.reading, file) \in Seq(Docs)
        BY <1>t DEF AgentType
      <3> QED BY <1>t, <2>1, <3>1 DEF AgentReads, AgentType
    <2>2. ASSUME NEW i \in DOMAIN agent.reading, AgentOpens(i)
          PROVE  /\ file' \in Docs /\ made' \in Docs /\ observed' \in ObservedType
                 /\ watcher' \in WatcherType /\ agent' \in AgentType /\ AgentSteps
      <3>1. agent.reading \in Seq(Docs) /\ agent.saves \in Seq(Saves)
        BY <1>t DEF AgentType
      <3>2. agent.reading[i] \in Docs
        BY <3>1
      <3>3. RemoveAt(agent.reading, i) \in Seq(Docs)
        BY <3>1, Removed
      <3>4. Orphaned(agent.saves) \in Seq(Saves)
        BY <3>1, OrphanedSaves
      <3>5. agent' \in AgentType
        BY <2>2, <3>2, <3>3, <3>4 DEF AgentOpens, AgentType
      <3>6. observed' \in ObservedType
        BY <1>t, <2>2, <3>2 DEF AgentOpens, ObservedType
      <3> QED BY <1>t, <2>2, <3>5, <3>6 DEF AgentOpens
    <2>3. CASE AgentSaves
      <3> DEFINE save == [doc |-> agent.doc, step |-> "writing", current |-> TRUE]
      <3>1. save \in Saves
        BY <1>t DEF AgentType, Saves
      <3>2. agent' = [agent EXCEPT !.saves = Append(@, save)]
        BY <2>3 DEF AgentSaves
      <3> HIDE DEF save
      <3>3. Append(agent.saves, save) \in Seq(Saves)
        BY <1>t, <3>1 DEF AgentType
      <3>4. agent' \in AgentType
        BY <1>t, <3>2, <3>3 DEF AgentType
      <3> QED BY <1>t, <2>3, <3>4 DEF AgentSaves
    <2>4. CASE AgentPublishes
      <3> DEFINE save == [Head(agent.saves) EXCEPT !.step = "landed"]
      <3>1. Head(agent.saves) \in Saves /\ agent.saves \in Seq(Saves) /\ agent.saves # <<>>
        BY <1>0, <2>4, AgentHead DEF AgentPublishes
      <3>2. save \in Saves /\ Head(agent.saves).doc \in Docs
        BY <3>1 DEF Saves
      <3>3. agent' = [agent EXCEPT !.saves = <<save>> \o Tail(@)]
        BY <2>4 DEF AgentPublishes, Landed
      <3> HIDE DEF save
      <3>4. <<save>> \o Tail(agent.saves) \in Seq(Saves)
        BY <3>1, <3>2, HeadReplaced
      <3>5. agent' \in AgentType
        BY <1>t, <3>3, <3>4 DEF AgentType
      <3> QED BY <1>t, <2>4, <3>2, <3>5 DEF AgentPublishes, WatcherType
    <2>5. CASE AgentRecords
      <3> DEFINE save == [Head(agent.saves) EXCEPT !.step = "recorded"]
      <3>1. Head(agent.saves) \in Saves /\ agent.saves \in Seq(Saves) /\ agent.saves # <<>>
        BY <1>0, <2>5, AgentHead DEF AgentRecords
      <3>2. /\ save \in Saves /\ Head(agent.saves).doc \in Docs
            /\ Head(agent.saves).current \in BOOLEAN
        BY <3>1 DEF Saves
      <3>3. agent' = [agent EXCEPT !.based = Head(agent.saves).current,
                                   !.saves = <<save>> \o Tail(@)]
        BY <2>5 DEF AgentRecords
      <3> HIDE DEF save
      <3>4. <<save>> \o Tail(agent.saves) \in Seq(Saves)
        BY <3>1, <3>2, HeadReplaced
      <3>5. agent' \in AgentType
        BY <1>t, <3>2, <3>3, <3>4 DEF AgentType
      <3>6. observed' \in ObservedType
        BY <1>t, <2>5, <3>2 DEF AgentRecords, ObservedType
      <3> QED BY <1>t, <2>5, <3>5, <3>6 DEF AgentRecords
    <2>6. CASE AgentSaved \/ AgentRefused
      <3>1. Head(agent.saves) \in Saves /\ Tail(agent.saves) \in Seq(Saves)
        BY <1>0, <2>6, AgentHead DEF AgentSaved, AgentRefused
      <3>2. Head(agent.saves).doc \in Docs
        BY <3>1 DEF Saves
      <3>3. agent' \in AgentType
        BY <1>t, <2>6, <3>1, <3>2 DEF AgentSaved, AgentRefused, AgentType
      <3> QED BY <1>t, <2>6, <3>3 DEF AgentSaved, AgentRefused
    <2>7. ASSUME NEW e \in AgentEdits, AgentTool(e)
          PROVE  /\ file' \in Docs /\ made' \in Docs /\ observed' \in ObservedType
                 /\ watcher' \in WatcherType /\ agent' \in AgentType /\ AgentSteps
      <3>1. made \cup {e} \in Docs /\ agent.doc \cup {e} \in Docs
        BY <1>t DEF Docs, Edits, AgentType
      <3> QED BY <1>t, <2>7, <3>1 DEF AgentTool, AgentType
    <2> QED BY <2>1, <2>2, <2>3, <2>4, <2>5, <2>6, <2>7 DEF Session
  <1>2. TypeOK'
    BY <1>0, <1>1 DEF TypeOK, AgentSteps, ObservedType, WatcherType, AgentType
  <1>3. Accounted'
    BY <1>0, <1>1, Steady DEF AgentSteps
  <1> QED BY <1>2, <1>3 DEF TypeInv

LEMMA TypeStep == TypeInv /\ [Next]_vars => TypeInv'
  <1> SUFFICES ASSUME TypeInv, [Next]_vars PROVE TypeInv'
    OBVIOUS
  <1>1. CASE Next
    BY <1>1, WindowTypes, LaneTypes, ReadsTypes, SessionTypes DEF Next
  <1>2. CASE UNCHANGED vars
    BY <1>2 DEF vars, desktop, TypeInv, TypeOK, Accounted, SavesInFlight, PatchesInFlight,
                PatchAsked, LaneBusy
  <1> QED BY <1>1, <1>2

(* Every variable keeps its type: in particular the window's count of saves *)
(* in flight is never decremented below zero, and an answer to a patch      *)
(* always finds that patch at the head of the window's lane (App.tsx), for  *)
(* every interleaving of saves, patches, failures and external changes.     *)
THEOREM TypeCorrect == Spec => []TypeOK
  <1>1. TypeInv => TypeOK
    BY DEF TypeInv
  <1> QED BY TypeInit, TypeStep, <1>1, PTL DEF Spec

-----------------------------------------------------------------------------
(* The external agent                                                      *)

(* The document that is open and those of its own saves under way differ   *)
(* in the agent's edits only, and so does the baseline while it is theirs. *)
AgentBased ==
    /\ agent.based => observed.agent \ AgentEdits = agent.doc \ AgentEdits
    /\ \A i \in DOMAIN agent.saves : agent.saves[i].current =>
           agent.saves[i].doc \ AgentEdits = agent.doc \ AgentEdits

LEMMA BasedInit == Init => AgentBased
  BY DEF Init, AgentBased

LEMMA BasedStep == TypeOK /\ AgentBased /\ [Next]_vars => AgentBased'
  <1> SUFFICES ASSUME TypeOK, AgentBased, [Next]_vars PROVE AgentBased'
    OBVIOUS
  <1>t. /\ agent \in AgentType /\ agent.saves \in Seq(Saves)
        /\ observed \in ObservedType
    BY DEF TypeOK, AgentType, ObservedType
  <1>1. ASSUME agent' = agent, observed'.agent = observed.agent PROVE AgentBased'
    BY <1>1 DEF AgentBased
  <1>2. CASE Window
    <2>1. UNCHANGED <<observed, agent>>
      BY <1>2 DEF Window, EditAsPatch, EditAsDocument, Persist, AskRun, AdoptChange,
                  SaveAnswered, PatchAccepted, PatchRejected, Delivered
    <2> QED BY <1>1, <2>1
  <1>3. CASE Lane
    <2>1. agent' = agent
      BY <1>3 DEF Lane, StartSave, StartPatch, ReplayPatch, InvalidPatch, BeginRun,
                  StartRunPatch, Publish, PublishFails, RecordBaseline, Commit,
                  CommitFails, Send, Granted
    <2>2. observed' = observed \/ observed' = [observed EXCEPT !.desktop = op.doc]
      BY <1>3 DEF Lane, StartSave, StartPatch, ReplayPatch, InvalidPatch, BeginRun,
                  StartRunPatch, Publish, PublishFails, RecordBaseline, Commit,
                  CommitFails, Send, Granted
    <2> QED BY <1>1, <1>t, <2>1, <2>2 DEF ObservedType
  <1>4. CASE Reads
    <2>1. agent' = agent
      BY <1>4 DEF Reads, FlushReads, FlushEnds, ReadFile, ReadEnds
    <2>2. observed' = observed \/ \E text : observed' = [observed EXCEPT !.desktop = text]
      BY <1>4 DEF Reads, FlushReads, FlushEnds, ReadFile, ReadEnds
    <2> QED BY <1>1, <1>t, <2>1, <2>2 DEF ObservedType
  <1>5. ASSUME NEW e \in AgentEdits, AgentTool(e) PROVE AgentBased'
    <2>1. /\ agent'.doc = agent.doc \cup {e} /\ agent'.saves = agent.saves
          /\ agent'.based = agent.based /\ observed' = observed
      BY <1>t, <1>5 DEF AgentTool, AgentType
    <2>2. agent'.doc \ AgentEdits = agent.doc \ AgentEdits
      BY <1>5, <2>1
    <2> QED BY <2>1, <2>2 DEF AgentBased
  <1>6. ASSUME NEW i \in DOMAIN agent.reading, AgentOpens(i) PROVE AgentBased'
    <2>1. /\ agent'.doc = agent.reading[i] /\ agent'.saves = Orphaned(agent.saves)
          /\ observed'.agent = agent.reading[i]
      BY <1>t, <1>6 DEF AgentOpens, ObservedType
    <2> QED BY <1>t, <2>1, OrphanedSaves DEF AgentBased
  <1>7. CASE AgentReads
    <2>1. /\ agent'.doc = agent.doc /\ agent'.saves = agent.saves
          /\ agent'.based = agent.based /\ observed' = observed
      BY <1>t, <1>7 DEF AgentReads, AgentType
    <2> QED BY <2>1 DEF AgentBased
  <1>8. CASE AgentSaves
    <2> DEFINE save == [doc |-> agent.doc, step |-> "writing", current |-> TRUE]
    <2>1. /\ agent'.doc = agent.doc /\ agent'.saves = Append(agent.saves, save)
          /\ agent'.based = agent.based /\ observed' = observed
      BY <1>t, <1>8 DEF AgentSaves, AgentType
    <2>2. save \in Saves /\ save.doc = agent.doc
      BY <1>t DEF Saves, AgentType
    <2> HIDE DEF save
    <2>3. \A j \in DOMAIN Append(agent.saves, save) :
            \/ Append(agent.saves, save)[j] = save
            \/ \E k \in DOMAIN agent.saves : Append(agent.saves, save)[j] = agent.saves[k]
      BY <1>t, <2>2, Appended
    <2> QED BY <2>1, <2>2, <2>3 DEF AgentBased
  <1>9. ASSUME NEW step, AgentWriting(step) PROVE
          /\ Head(agent.saves) \in Saves
          /\ Head(agent.saves).current =>
               Head(agent.saves).doc \ AgentEdits = agent.doc \ AgentEdits
          /\ agent.saves # <<>>
    BY <1>9, AgentHead DEF AgentBased
  <1>10. ASSUME NEW save \in Saves, agent.saves # <<>>,
                save.doc = Head(agent.saves).doc,
                save.current = Head(agent.saves).current,
                Head(agent.saves).current =>
                  Head(agent.saves).doc \ AgentEdits = agent.doc \ AgentEdits
         PROVE  \A j \in DOMAIN (<<save>> \o Tail(agent.saves)) :
                  (<<save>> \o Tail(agent.saves))[j].current =>
                    (<<save>> \o Tail(agent.saves))[j].doc \ AgentEdits
                      = agent.doc \ AgentEdits
    <2> DEFINE saves == <<save>> \o Tail(agent.saves)
    <2>1. \A j \in DOMAIN saves :
            saves[j] = save \/ (j \in DOMAIN agent.saves /\ saves[j] = agent.saves[j])
      BY <1>t, <1>10, HeadReplaced
    <2> HIDE DEF saves
    <2>2. \A j \in DOMAIN saves :
            saves[j].current => saves[j].doc \ AgentEdits = agent.doc \ AgentEdits
      BY <1>10, <2>1 DEF AgentBased
    <2> QED BY <2>2 DEF saves
  <1>11. CASE AgentPublishes
    <2> DEFINE save == [Head(agent.saves) EXCEPT !.step = "landed"]
    <2>1. AgentWriting("writing") /\ observed' = observed
          /\ agent' = [agent EXCEPT !.saves = <<save>> \o Tail(@)]
      BY <1>11 DEF AgentPublishes, Landed
    <2>2. save \in Saves /\ save.doc = Head(agent.saves).doc
          /\ save.current = Head(agent.saves).current
      BY <1>9, <2>1 DEF Saves
    <2> HIDE DEF save
    <2>3. /\ agent'.doc = agent.doc /\ agent'.based = agent.based
          /\ agent'.saves = <<save>> \o Tail(agent.saves)
      BY <1>t, <2>1 DEF AgentType
    <2> QED BY <1>9, <1>10, <2>1, <2>2, <2>3 DEF AgentBased
  <1>12. CASE AgentRecords
    <2> DEFINE save == [Head(agent.saves) EXCEPT !.step = "recorded"]
    <2>1. /\ AgentWriting("landed")
          /\ observed' = [observed EXCEPT !.agent = Head(agent.saves).doc]
          /\ agent' = [agent EXCEPT !.based = Head(agent.saves).current,
                                    !.saves = <<save>> \o Tail(@)]
      BY <1>12 DEF AgentRecords
    <2>2. save \in Saves /\ save.doc = Head(agent.saves).doc
          /\ save.current = Head(agent.saves).current
      BY <1>9, <2>1 DEF Saves
    <2> HIDE DEF save
    <2>3. /\ agent'.doc = agent.doc /\ agent'.based = Head(agent.saves).current
          /\ agent'.saves = <<save>> \o Tail(agent.saves)
      BY <1>t, <2>1 DEF AgentType
    <2>4. observed'.agent = Head(agent.saves).doc
      BY <1>t, <2>1 DEF ObservedType
    <2> QED BY <1>9, <1>10, <2>1, <2>2, <2>3, <2>4 DEF AgentBased
  <1>13. CASE AgentSaved \/ AgentRefused
    <2>1. agent.saves # <<>> /\ observed' = observed
      BY <1>13 DEF AgentSaved, AgentRefused, AgentWriting
    <2>2. /\ agent'.saves = Tail(agent.saves) /\ agent'.based = agent.based
          /\ \/ agent'.doc = agent.doc
             \/ /\ agent'.doc = Head(agent.saves).doc
                /\ Head(agent.saves).current
      BY <1>t, <1>13 DEF AgentSaved, AgentRefused, AgentType
    <2>3. agent'.doc \ AgentEdits = agent.doc \ AgentEdits
      BY <1>9, <1>13, <2>2 DEF AgentSaved, AgentRefused
    <2>4. \A j \in DOMAIN Tail(agent.saves) :
            \E k \in DOMAIN agent.saves : Tail(agent.saves)[j] = agent.saves[k]
      BY <1>t, <2>1, Dequeued
    <2> QED BY <2>1, <2>2, <2>3, <2>4 DEF AgentBased
  <1>14. CASE UNCHANGED vars
    BY <1>1, <1>14 DEF vars
  <1> QED BY <1>2, <1>3, <1>4, <1>5, <1>6, <1>7, <1>8, <1>11, <1>12, <1>13, <1>14
          DEF Next, Session

(* The desktop's edits on disk survive every save of the document the      *)
(* external agent has open, however its calls overlap, as long as the      *)
(* baseline is that document's: the compare-and-swap of project-file.ts    *)
(* guards what saveProject captured.                                       *)
THEOREM AgentErasesOnlyWhatItCrossed == Spec => AgentErasesOnlyCrossed
  <1>1. TypeOK /\ AgentBased /\ [Next]_vars =>
          [AgentPublishes /\ Head(agent.saves).current /\ agent.based
             => file \ AgentEdits \subseteq file']_vars
    <2> SUFFICES ASSUME TypeOK, AgentBased, AgentPublishes,
                        Head(agent.saves).current, agent.based
                 PROVE  file \ AgentEdits \subseteq file'
      OBVIOUS
    <2>1. file = observed.agent /\ file' = Head(agent.saves).doc
      BY DEF AgentPublishes
    <2>2. Head(agent.saves).doc \ AgentEdits = agent.doc \ AgentEdits
      BY AgentHead DEF AgentBased, AgentPublishes
    <2> QED BY <2>1, <2>2 DEF AgentBased
  <1> QED BY BasedInit, BasedStep, TypeCorrect, <1>1, PTL DEF Spec, AgentErasesOnlyCrossed
=============================================================================
