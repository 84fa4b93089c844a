-------------------------- MODULE HttpProxyProofs --------------------------
(***************************************************************************)
(* Theorems about HttpProxy.                                               *)
(***************************************************************************)
EXTENDS HttpProxy, PayloadLemmas

(***************************************************************************)
(* Keep.                                                                   *)
(***************************************************************************)
KeepStep(S, kept, e) == IF e \in S THEN Append(kept, e) ELSE kept

Kept == INSTANCE SequenceLemmas WITH op <- KeepStep

LEMMA KeepFolds ==
    ASSUME NEW s, NEW S
    PROVE  Keep(s, S) = Kept!Fold(S, <<>>, s)
  BY DEF Keep, KeepStep, Kept!Fold, FoldLeft, Kept!FoldLeft,
         MapThenFoldSet, Kept!MapThenFoldSet, Max, Kept!Max

LEMMA KeepEmpty ==
    ASSUME NEW S
    PROVE  Keep(<<>>, S) = <<>>
<1>1. Kept!Fold(S, <<>>, <<>>) = <<>>
  BY Kept!FoldEmpty
<1> QED
  BY <1>1, KeepFolds

LEMMA KeepAppend ==
    ASSUME NEW T, NEW s \in Seq(T), NEW e \in T, NEW S
    PROVE  Keep(Append(s, e), S) = IF e \in S THEN Append(Keep(s, S), e) ELSE Keep(s, S)
<1>1. Kept!Fold(S, <<>>, Append(s, e)) = KeepStep(S, Kept!Fold(S, <<>>, s), e)
  BY Kept!FoldAppend
<1> QED
  BY <1>1, KeepFolds DEF KeepStep

LEMMA KeepType ==
    ASSUME NEW T, NEW S
    PROVE  \A s \in Seq(T) : Keep(s, S) \in Seq(T \cap S)
<1>1. <<>> \in Seq(T \cap S)
  BY EmptySeq
<1>2. \A a \in Seq(T \cap S), e \in T : KeepStep(S, a, e) \in Seq(T \cap S)
  BY AppendProperties DEF KeepStep
<1>3. \A s \in Seq(T) : Kept!Fold(S, <<>>, s) \in Seq(T \cap S)
  BY <1>1, <1>2, Kept!FoldType
<1> QED
  BY <1>3, KeepFolds

LEMMA KeepSet ==
    ASSUME NEW T, NEW S
    PROVE  \A s \in Seq(T) : ToSet(Keep(s, S)) = ToSet(s) \cap S
<1> DEFINE Q == {s \in Seq(T) : ToSet(Keep(s, S)) = ToSet(s) \cap S}
<1>1. <<>> \in Q
  BY KeepEmpty, EmptySeq DEF ToSet
<1>2. ASSUME NEW s \in Seq(T), NEW e \in T, s \in Q
      PROVE  Append(s, e) \in Q
  <2>1. PICK k \in Seq(T \cap S) : k = Keep(s, S)
    BY KeepType
  <2>2. e \in S => ToSet(Append(k, e)) = ToSet(k) \cup {e}
    BY ToSetAppend
  <2>3. ToSet(Append(s, e)) = ToSet(s) \cup {e}
    BY ToSetAppend
  <2>4. Append(s, e) \in Seq(T)
    BY AppendProperties
  <2>5. Keep(Append(s, e), S) = IF e \in S THEN Append(k, e) ELSE k
    BY <2>1, KeepAppend
  <2> QED
    BY <1>2, <2>1, <2>2, <2>3, <2>4, <2>5
<1> HIDE DEF Q
<1>3. \A s \in Seq(T) : s \in Q
  BY <1>1, <1>2, SequenceInduction
<1> QED
  BY <1>3 DEF Q

LEMMA KeepSame ==
    ASSUME NEW T, NEW A, NEW B, A \cap T = B \cap T
    PROVE  \A s \in Seq(T) : Keep(s, A) = Keep(s, B)
<1> DEFINE Q == {s \in Seq(T) : Keep(s, A) = Keep(s, B)}
<1>1. <<>> \in Q
  BY KeepEmpty, EmptySeq
<1>2. ASSUME NEW s \in Seq(T), NEW e \in T, s \in Q
      PROVE  Append(s, e) \in Q
  <2>1. e \in A <=> e \in B
    OBVIOUS
  <2>2. Append(s, e) \in Seq(T)
    BY AppendProperties
  <2>3. Keep(Append(s, e), A) = IF e \in A THEN Append(Keep(s, A), e) ELSE Keep(s, A)
    BY KeepAppend
  <2>4. Keep(Append(s, e), B) = IF e \in B THEN Append(Keep(s, B), e) ELSE Keep(s, B)
    BY KeepAppend
  <2> QED
    BY <1>2, <2>1, <2>2, <2>3, <2>4
<1> HIDE DEF Q
<1>3. \A s \in Seq(T) : s \in Q
  BY <1>1, <1>2, SequenceInduction
<1> QED
  BY <1>3 DEF Q

LEMMA KeepTwice ==
    ASSUME NEW T, NEW A, NEW B
    PROVE  \A s \in Seq(T) : Keep(Keep(s, A), B) = Keep(s, A \cap B)
<1> DEFINE Q == {s \in Seq(T) : Keep(Keep(s, A), B) = Keep(s, A \cap B)}
<1>1. <<>> \in Q
  BY KeepEmpty, EmptySeq
<1>2. ASSUME NEW s \in Seq(T), NEW e \in T, s \in Q
      PROVE  Append(s, e) \in Q
  <2>1. PICK k \in Seq(T \cap A) : k = Keep(s, A)
    BY KeepType
  <2>2. Keep(Append(s, e), A) = IF e \in A THEN Append(k, e) ELSE k
    BY <2>1, KeepAppend
  <2>3. e \in A => Keep(Append(k, e), B) = IF e \in B THEN Append(Keep(k, B), e) ELSE Keep(k, B)
    <3>1. ASSUME e \in A
          PROVE  Keep(Append(k, e), B) = IF e \in B THEN Append(Keep(k, B), e)
                                         ELSE Keep(k, B)
      <4>1. PICK U : U = T \cap A
        OBVIOUS
      <4>2. k \in Seq(U) /\ e \in U
        BY <3>1, <4>1
      <4> QED
        BY <4>2, KeepAppend
    <3> QED
      BY <3>1
  <2>4. Keep(Append(s, e), A \cap B) = IF e \in A \cap B THEN Append(Keep(s, A \cap B), e)
                                       ELSE Keep(s, A \cap B)
    BY KeepAppend
  <2>5. Append(s, e) \in Seq(T)
    BY AppendProperties
  <2> QED
    BY <1>2, <2>1, <2>2, <2>3, <2>4, <2>5
<1> HIDE DEF Q
<1>3. \A s \in Seq(T) : s \in Q
  BY <1>1, <1>2, SequenceInduction
<1> QED
  BY <1>3 DEF Q

LEMMA KeepNone ==
    ASSUME NEW T, NEW S, T \cap S = {}
    PROVE  \A s \in Seq(T) : Keep(s, S) = <<>>
<1> SUFFICES ASSUME NEW s \in Seq(T) PROVE Keep(s, S) = <<>>
  OBVIOUS
<1>1. Keep(s, S) \in Seq({})
  BY KeepType
<1> QED
  BY <1>1, EmptySeq, ElementOfSeq

LEMMA KeepCat ==
    ASSUME NEW T, NEW S, NEW s \in Seq(T)
    PROVE  \A t \in Seq(T) : Keep(Cat(s, t), S) = Cat(Keep(s, S), Keep(t, S))
<1> DEFINE Q == {t \in Seq(T) : Keep(Cat(s, t), S) = Cat(Keep(s, S), Keep(t, S))}
<1>1. PICK U : U = T \cap S
  OBVIOUS
<1>2. \A r \in Seq(T) : Keep(r, S) \in Seq(U)
  BY <1>1, KeepType
<1>3. PICK x \in Seq(U) : x = Keep(s, S)
  BY <1>2
<1>4. <<>> \in Q
  <2>1. Cat(s, <<>>) = s /\ Cat(x, <<>>) = x /\ <<>> \in Seq(T)
    BY EmptySeq, ConcatEmptySeq DEF Cat
  <2> QED
    BY <1>3, <2>1, KeepEmpty
<1>5. ASSUME NEW t \in Seq(T), NEW e \in T, t \in Q
      PROVE  Append(t, e) \in Q
  <2>1. PICK y \in Seq(U) : y = Keep(t, S)
    BY <1>2
  <2>2. PICK u \in Seq(T) : u = Cat(s, t)
    BY CatClosed
  <2>3. Cat(s, Append(t, e)) = Append(u, e)
    BY <2>2, CatAppend
  <2>4. Keep(Append(u, e), S) = IF e \in S THEN Append(Keep(u, S), e) ELSE Keep(u, S)
    BY KeepAppend
  <2>5. Keep(Append(t, e), S) = IF e \in S THEN Append(y, e) ELSE y
    BY <2>1, KeepAppend
  <2>6. Keep(u, S) = Cat(x, y)
    BY <1>3, <1>5, <2>1, <2>2
  <2>7. e \in S => Cat(x, Append(y, e)) = Append(Cat(x, y), e)
    <3>1. SUFFICES ASSUME e \in U PROVE Cat(x, Append(y, e)) = Append(Cat(x, y), e)
      BY <1>1
    <3> QED
      BY <3>1, CatAppend
  <2>8. Append(t, e) \in Seq(T)
    BY AppendProperties
  <2> QED
    BY <1>3, <2>3, <2>4, <2>5, <2>6, <2>7, <2>8
<1> HIDE DEF Q
<1>6. \A t \in Seq(T) : t \in Q
  BY <1>4, <1>5, SequenceInduction
<1> QED
  BY <1>6 DEF Q

LEMMA KeepAll ==
    ASSUME NEW T, NEW S, T \subseteq S
    PROVE  \A s \in Seq(T) : Keep(s, S) = s
<1> DEFINE Q == {s \in Seq(T) : Keep(s, S) = s}
<1>1. <<>> \in Q
  BY KeepEmpty, EmptySeq
<1>2. ASSUME NEW s \in Seq(T), NEW e \in T, s \in Q
      PROVE  Append(s, e) \in Q
  <2>1. Keep(Append(s, e), S) = IF e \in S THEN Append(Keep(s, S), e) ELSE Keep(s, S)
    BY KeepAppend
  <2>2. Append(s, e) \in Seq(T)
    BY AppendProperties
  <2> QED
    BY <1>2, <2>1, <2>2
<1> HIDE DEF Q
<1>3. \A s \in Seq(T) : s \in Q
  BY <1>1, <1>2, SequenceInduction
<1> QED
  BY <1>3 DEF Q

(***************************************************************************)
(* Headers.                                                                *)
(***************************************************************************)
LEMMA SeqOfItsSet ==
    ASSUME NEW H, NEW s \in Seq(H)
    PROVE  s \in Seq(ToSet(s)) /\ ToSet(s) \subseteq H
<1>1. Len(s) \in Nat /\ DOMAIN s = 1..Len(s) /\ s \in [1..Len(s) -> H]
  BY LenProperties
<1>2. ToSet(s) \subseteq H
  BY <1>1 DEF ToSet
<1>3. s \in [1..Len(s) -> ToSet(s)]
  BY <1>1 DEF ToSet
<1>4. s \in Seq(ToSet(s))
  <2>1. PICK n \in Nat : n = Len(s)
    BY <1>1
  <2>2. PICK T : T = ToSet(s)
    OBVIOUS
  <2>3. s \in [1..n -> T]
    BY <1>3, <2>1, <2>2
  <2>4. s \in Seq(T)
    BY <2>3
  <2> QED
    BY <2>2, <2>4
<1> QED
  BY <1>2, <1>4

LEMMA NamedKeeps ==
    ASSUME NEW H, NEW s \in Seq(H), NEW name
    PROVE  Named(s, name) = Keep(s, {h \in H : h.name = name})
<1>1. s \in Seq(ToSet(s)) /\ ToSet(s) \subseteq H
  BY SeqOfItsSet
<1>2. {h \in ToSet(s) : h.name = name} \cap ToSet(s)
         = {h \in H : h.name = name} \cap ToSet(s)
  BY <1>1
<1>3. Keep(s, {h \in ToSet(s) : h.name = name}) = Keep(s, {h \in H : h.name = name})
  BY <1>1, <1>2, KeepSame
<1> QED
  BY <1>3 DEF Named

LEMMA NamedType ==
    ASSUME NEW H, NEW s \in Seq(H), NEW name
    PROVE  /\ Named(s, name) \in Seq(H)
           /\ \A i \in 1..Len(Named(s, name)) : Named(s, name)[i].name = name
<1> DEFINE S == {h \in H : h.name = name}
<1>1. Named(s, name) = Keep(s, S)
  BY NamedKeeps
<1>2. Keep(s, S) \in Seq(H \cap S)
  <2> HIDE DEF S
  <2> QED
    BY KeepType
<1>3. PICK t \in Seq(H \cap S) : t = Named(s, name)
  BY <1>1, <1>2
<1>4. \A i \in 1..Len(t) : t[i] \in H \cap S
  BY ElementOfSeq
<1>5. t \in Seq(H)
  BY SeqMonotonic
<1> QED
  BY <1>3, <1>4, <1>5

LEMMA NamedAppend ==
    ASSUME NEW H, NEW s \in Seq(H), NEW h \in H, NEW name
    PROVE  Named(Append(s, h), name)
              = IF h.name = name THEN Append(Named(s, name), h) ELSE Named(s, name)
<1>1. Append(s, h) \in Seq(H)
  BY AppendProperties
<1> DEFINE S == {x \in H : x.name = name}
<1>2. Named(Append(s, h), name) = Keep(Append(s, h), S) /\ Named(s, name) = Keep(s, S)
  BY <1>1, NamedKeeps
<1>3. h \in S <=> h.name = name
  OBVIOUS
<1> HIDE DEF S
<1> QED
  BY <1>2, <1>3, KeepAppend

LEMMA NamedSet ==
    ASSUME NEW H, NEW s \in Seq(H), NEW name
    PROVE  /\ ToSet(Named(s, name)) = {h \in ToSet(s) : h.name = name}
           /\ Named(s, name) = <<>> <=> ~ \E h \in ToSet(s) : h.name = name
<1>1. ToSet(Named(s, name)) = ToSet(s) \cap {h \in ToSet(s) : h.name = name}
  BY KeepSet DEF Named
<1>2. PICK t \in Seq(H) : t = Named(s, name)
  BY NamedType
<1>3. t = <<>> <=> ToSet(t) = {}
  <2>1. t # <<>> => t[1] \in ToSet(t)
    BY EmptySeq, LenProperties DEF ToSet
  <2>2. ToSet(<<>>) = {}
    BY DEF ToSet
  <2> QED
    BY <2>1, <2>2
<1> QED
  BY <1>1, <1>2, <1>3

-----------------------------------------------------------------------------
(* The headers that reach the server.                                      *)
UpstreamStep(q, sent, h) ==
    IF ShouldForwardRequestHeader(h.name) THEN SetHeader(sent, h) ELSE sent

Sent == INSTANCE SequenceLemmas WITH op <- UpstreamStep

LEMMA UpstreamFolds ==
    ASSUME NEW head
    PROVE  UpstreamHeaders(head) = Sent!Fold(0, <<>>, head)
  BY DEF UpstreamHeaders, UpstreamStep, Sent!Fold, FoldLeft, Sent!FoldLeft,
         MapThenFoldSet, Sent!MapThenFoldSet, Max, Sent!Max

LEMMA UpstreamEmpty == UpstreamHeaders(<<>>) = <<>>
<1>1. Sent!Fold(0, <<>>, <<>>) = <<>>
  BY Sent!FoldEmpty
<1> QED
  BY <1>1, UpstreamFolds

LEMMA UpstreamAppend ==
    ASSUME NEW H, NEW s \in Seq(H), NEW h \in H
    PROVE  UpstreamHeaders(Append(s, h)) = UpstreamStep(0, UpstreamHeaders(s), h)
<1>1. Sent!Fold(0, <<>>, Append(s, h)) = UpstreamStep(0, Sent!Fold(0, <<>>, s), h)
  BY Sent!FoldAppend
<1> QED
  BY <1>1, UpstreamFolds

LEMMA SetHeaderType ==
    ASSUME NEW H, NEW s \in Seq(H), NEW h \in H
    PROVE  SetHeader(s, h) \in Seq(H)
<1>1. PICK k \in Seq(H) : k = Keep(s, {o \in ToSet(s) : o.name # h.name})
  <2> DEFINE S == {o \in ToSet(s) : o.name # h.name}
  <2>1. Keep(s, S) \in Seq(H \cap S)
    <3> HIDE DEF S
    <3> QED
      BY KeepType
  <2>2. Keep(s, S) \in Seq(H)
    <3> HIDE DEF S
    <3> QED
      BY <2>1, SeqMonotonic
  <2> QED
    BY <2>2
<1>2. Append(k, h) \in Seq(H) /\ Append(s, h) \in Seq(H)
  BY AppendProperties
<1> QED
  BY <1>1, <1>2 DEF SetHeader

(* Setting a header leaves those of other names alone.                     *)
LEMMA SetHeaderNamed ==
    ASSUME NEW H, NEW s \in Seq(H), NEW h \in H, NEW name
    PROVE  Named(SetHeader(s, h), name)
              = IF h.name # name THEN Named(s, name)
                ELSE IF name \in Extensions THEN Append(Named(s, name), h) ELSE <<h>>
<1>1. CASE h.name \in Extensions
  BY <1>1, NamedAppend DEF SetHeader
<1>2. CASE h.name \notin Extensions
  <2> DEFINE S == {o \in ToSet(s) : o.name # h.name}
             N == {o \in H : o.name = name}
  <2>1. PICK k \in Seq(H) : k = Keep(s, S)
    <3> HIDE DEF S
    <3>1. Keep(s, S) \in Seq(H \cap S)
      BY KeepType
    <3> QED
      BY <3>1, SeqMonotonic
  <2>2. Named(k, name) = Keep(k, N)
    BY NamedKeeps
  <2>3. Keep(k, N) = Keep(s, S \cap N)
    <3> HIDE DEF S, N
    <3> QED
      BY <2>1, KeepTwice
  <2>4. Named(k, name) = IF h.name = name THEN <<>> ELSE Named(s, name)
    <3>1. PICK T : T = ToSet(s) /\ s \in Seq(T) /\ T \subseteq H
      BY SeqOfItsSet
    <3>2. CASE h.name = name
      <4>1. T \cap (S \cap N) = {}
        BY <3>2
      <4> HIDE DEF S, N
      <4>2. Keep(s, S \cap N) = <<>>
        BY <3>1, <4>1, KeepNone
      <4> QED
        BY <2>2, <2>3, <3>2, <4>2
    <3>3. CASE h.name # name
      <4>1. (S \cap N) \cap T = N \cap T
        BY <3>1, <3>3
      <4>2. Named(s, name) = Keep(s, N)
        BY NamedKeeps
      <4> HIDE DEF S, N
      <4>3. Keep(s, S \cap N) = Keep(s, N)
        BY <3>1, <4>1, KeepSame
      <4> QED
        BY <2>2, <2>3, <3>3, <4>2, <4>3
    <3> QED
      BY <3>2, <3>3
  <2>5. SetHeader(s, h) = Append(k, h)
    BY <1>2, <2>1 DEF SetHeader
  <2>6. Named(Append(k, h), name)
           = IF h.name = name THEN Append(Named(k, name), h) ELSE Named(k, name)
    BY NamedAppend
  <2>7. Append(<<>>, h) = <<h>>
    OBVIOUS
  <2> QED
    BY <1>2, <2>4, <2>5, <2>6, <2>7
<1> QED
  BY <1>1, <1>2

LEMMA UpstreamType ==
    ASSUME NEW H
    PROVE  \A s \in Seq(H) : UpstreamHeaders(s) \in Seq(H)
<1>1. <<>> \in Seq(H)
  BY EmptySeq
<1>2. \A a \in Seq(H), h \in H : UpstreamStep(0, a, h) \in Seq(H)
  BY SetHeaderType DEF UpstreamStep
<1>3. \A s \in Seq(H) : Sent!Fold(0, <<>>, s) \in Seq(H)
  BY <1>1, <1>2, Sent!FoldType
<1> QED
  BY <1>3, UpstreamFolds

(* Of the headers of a name that are forwarded the server gets the last,   *)
(* or all if it is an extension.                                           *)
Forwarded(s, name) ==
    IF ~ShouldForwardRequestHeader(name) \/ Named(s, name) = <<>> THEN <<>>
    ELSE IF name \in Extensions THEN Named(s, name) ELSE <<Last(Named(s, name))>>

LEMMA UpstreamNamed ==
    ASSUME NEW H, NEW name
    PROVE  \A s \in Seq(H) : Named(UpstreamHeaders(s), name) = Forwarded(s, name)
<1> DEFINE Q == {s \in Seq(H) : Named(UpstreamHeaders(s), name) = Forwarded(s, name)}
<1>1. <<>> \in Q
  <2>1. Named(<<>>, name) = <<>>
    BY KeepEmpty DEF Named
  <2>2. <<>> \in Seq(H)
    BY EmptySeq
  <2> QED
    BY <2>1, <2>2, UpstreamEmpty DEF Forwarded
<1>2. ASSUME NEW s \in Seq(H), NEW h \in H, s \in Q
      PROVE  Append(s, h) \in Q
  <2>1. PICK u \in Seq(H), t \in Seq(H) : u = UpstreamHeaders(s) /\ t = Append(s, h)
    BY UpstreamType, AppendProperties
  <2>2. Named(u, name) = Forwarded(s, name)
    BY <1>2, <2>1
  <2>3. UpstreamHeaders(t)
           = IF ShouldForwardRequestHeader(h.name) THEN SetHeader(u, h) ELSE u
    BY <2>1, UpstreamAppend DEF UpstreamStep
  <2>4. PICK n \in Seq(H) : n = Named(s, name)
    BY NamedType
  <2>5. Named(t, name) = IF h.name = name THEN Append(n, h) ELSE n
    BY <2>1, <2>4, NamedAppend
  <2>6. /\ Append(n, h) # <<>> /\ Last(Append(n, h)) = h
        /\ Append(<<>>, h) = <<h>>
    BY AppendProperties, LenProperties DEF Last
  <2>7. Named(SetHeader(u, h), name)
           = IF h.name # name THEN Named(u, name)
             ELSE IF name \in Extensions THEN Append(Named(u, name), h) ELSE <<h>>
    BY SetHeaderNamed
  <2>8. Named(UpstreamHeaders(t), name) = Forwarded(t, name)
    <3>1. CASE h.name # name
      BY <2>2, <2>3, <2>4, <2>5, <2>7, <3>1 DEF Forwarded
    <3>2. CASE h.name = name
      BY <2>2, <2>3, <2>4, <2>5, <2>6, <2>7, <3>2 DEF Forwarded
    <3> QED
      BY <3>1, <3>2
  <2> QED
    BY <2>1, <2>8
<1> HIDE DEF Q
<1>3. \A s \in Seq(H) : s \in Q
  BY <1>1, <1>2, SequenceInduction
<1> QED
  BY <1>3 DEF Q

-----------------------------------------------------------------------------
(* The headers that reach the client.                                      *)
ResponseStep(headers, all, h) ==
    IF ShouldForwardResponseHeader(h.name)
    THEN all \o Keep(Named(headers, h.name),
                     { o \in ToSet(headers) : o.value # NonAscii })
    ELSE all

Answered == INSTANCE SequenceLemmas WITH op <- ResponseStep

LEMMA ResponseFolds ==
    ASSUME NEW head
    PROVE  CollectResponseHeaders(head) = Answered!Fold(head, <<>>, head)
  BY DEF CollectResponseHeaders, ResponseStep, Answered!Fold, FoldLeft,
         Answered!FoldLeft, MapThenFoldSet, Answered!MapThenFoldSet, Max, Answered!Max

LEMMA ToSetCat ==
    ASSUME NEW T, NEW s \in Seq(T), NEW t \in Seq(T)
    PROVE  ToSet(s \o t) = ToSet(s) \cup ToSet(t)
<1>1. PICK m \in Nat, n \in Nat : /\ m = Len(s) /\ n = Len(t)
                                  /\ DOMAIN s = 1..m /\ DOMAIN t = 1..n
  BY LenProperties
<1>2. PICK u \in Seq(T) : /\ u = s \o t /\ DOMAIN u = 1..(m + n)
                          /\ \A i \in 1..(m + n) :
                                u[i] = IF i <= m THEN s[i] ELSE t[i - m]
  <2>1. /\ s \o t \in Seq(T) /\ Len(s \o t) = m + n
        /\ \A i \in 1..(m + n) : (s \o t)[i] = IF i <= m THEN s[i] ELSE t[i - m]
    BY <1>1, ConcatProperties
  <2>2. DOMAIN (s \o t) = 1..(m + n)
    BY <2>1, LenProperties
  <2> QED
    BY <2>1, <2>2
<1>3. ToSet(u) \subseteq ToSet(s) \cup ToSet(t)
  <2>1. \A i \in 1..(m + n) : i \in 1..m \/ i - m \in 1..n
    OBVIOUS
  <2> QED
    BY <1>1, <1>2, <2>1 DEF ToSet
<1>4. ToSet(s) \subseteq ToSet(u)
  BY <1>1, <1>2 DEF ToSet
<1>5. ToSet(t) \subseteq ToSet(u)
  <2>1. ASSUME NEW j \in 1..n
        PROVE  t[j] \in ToSet(u)
    <3>1. PICK i \in 1..(m + n) : i = m + j
      OBVIOUS
    <3>2. u[i] = t[j]
      BY <1>2, <3>1
    <3>3. i \in DOMAIN u
      BY <1>2
    <3> QED
      BY <3>2, <3>3 DEF ToSet
  <2> QED
    BY <1>1, <2>1 DEF ToSet
<1> QED
  BY <1>2, <1>3, <1>4, <1>5

(* What a header of the answer adds: all those of its name.                *)
AddedBy(headers, h) ==
    IF ShouldForwardResponseHeader(h.name)
    THEN { o \in ToSet(headers) : o.name = h.name /\ o.value # NonAscii }
    ELSE {}

LEMMA ResponseStepSet ==
    ASSUME NEW H, NEW headers \in Seq(H), NEW all \in Seq(H), NEW h \in H
    PROVE  /\ ResponseStep(headers, all, h) \in Seq(H)
           /\ ToSet(ResponseStep(headers, all, h)) = ToSet(all) \cup AddedBy(headers, h)
<1> DEFINE S == { o \in ToSet(headers) : o.value # NonAscii }
<1>1. PICK n \in Seq(H) : n = Named(headers, h.name)
  BY NamedType
<1>2. PICK k \in Seq(H) : k = Keep(n, S) /\ ToSet(k) = ToSet(n) \cap S
  <2> HIDE DEF S
  <2>1. Keep(n, S) \in Seq(H \cap S) /\ ToSet(Keep(n, S)) = ToSet(n) \cap S
    BY KeepType, KeepSet
  <2> QED
    BY <2>1, SeqMonotonic
<1>3. ToSet(n) = {o \in ToSet(headers) : o.name = h.name}
  BY <1>1, NamedSet
<1>4. ToSet(all \o k) = ToSet(all) \cup ToSet(k) /\ all \o k \in Seq(H)
  BY ToSetCat, ConcatProperties
<1>5. ResponseStep(headers, all, h)
         = IF ShouldForwardResponseHeader(h.name) THEN all \o k ELSE all
  BY <1>1, <1>2 DEF ResponseStep
<1>6. CASE ShouldForwardResponseHeader(h.name)
  <2>1. AddedBy(headers, h) = ToSet(k)
    BY <1>2, <1>3, <1>6 DEF AddedBy
  <2> QED
    BY <1>4, <1>5, <1>6, <2>1
<1>7. CASE ~ShouldForwardResponseHeader(h.name)
  BY <1>5, <1>7 DEF AddedBy
<1> QED
  BY <1>6, <1>7

LEMMA ResponseSet ==
    ASSUME NEW H, NEW headers \in Seq(H)
    PROVE  /\ CollectResponseHeaders(headers) \in Seq(H)
           /\ ToSet(CollectResponseHeaders(headers))
                 = { h \in ToSet(headers) : /\ ShouldForwardResponseHeader(h.name)
                                            /\ h.value # NonAscii }
<1> DEFINE Added(s) == UNION {AddedBy(headers, h) : h \in ToSet(s)}
           F(s) == Answered!Fold(headers, <<>>, s)
           Q == {s \in Seq(H) : F(s) \in Seq(H) /\ ToSet(F(s)) = Added(s)}
<1>1. <<>> \in Q
  <2>1. F(<<>>) = <<>>
    BY Answered!FoldEmpty
  <2>2. <<>> \in Seq(H) /\ ToSet(<<>>) = {}
    BY EmptySeq DEF ToSet
  <2> QED
    BY <2>1, <2>2
<1>2. ASSUME NEW s \in Seq(H), NEW h \in H, s \in Q
      PROVE  Append(s, h) \in Q
  <2>1. F(Append(s, h)) = ResponseStep(headers, F(s), h)
    BY Answered!FoldAppend
  <2>2. PICK f \in Seq(H) : f = F(s) /\ ToSet(f) = Added(s)
    BY <1>2
  <2>3. PICK t \in Seq(H) : t = Append(s, h) /\ ToSet(t) = ToSet(s) \cup {h}
    BY ToSetAppend, AppendProperties
  <2>4. Added(t) = Added(s) \cup AddedBy(headers, h)
    <3>1. \A x : x \in Added(t) <=> \E g \in ToSet(s) \cup {h} : x \in AddedBy(headers, g)
      BY <2>3
    <3>2. \A x : x \in Added(s) <=> \E g \in ToSet(s) : x \in AddedBy(headers, g)
      OBVIOUS
    <3> HIDE DEF Added
    <3> QED
      BY <3>1, <3>2
  <2>5. /\ ResponseStep(headers, f, h) \in Seq(H)
        /\ ToSet(ResponseStep(headers, f, h)) = ToSet(f) \cup AddedBy(headers, h)
    BY ResponseStepSet
  <2>6. F(t) \in Seq(H) /\ ToSet(F(t)) = Added(t)
    <3> HIDE DEF F, Added
    <3> QED
      BY <2>1, <2>2, <2>3, <2>4, <2>5
  <2> QED
    BY <2>3, <2>6
<1> HIDE DEF Q
<1>3. \A s \in Seq(H) : s \in Q
  BY <1>1, <1>2, SequenceInduction
<1>4. F(headers) \in Seq(H) /\ ToSet(F(headers)) = Added(headers)
  BY <1>3 DEF Q
<1>5. Added(headers) = { h \in ToSet(headers) : /\ ShouldForwardResponseHeader(h.name)
                                                /\ h.value # NonAscii }
  BY DEF AddedBy
<1> QED
  BY <1>4, <1>5, ResponseFolds

(* What step h of the fold adds under a name: a header g that is alone     *)
(* with its name is added with each header of that name, and nothing else  *)
(* is.                                                                     *)
LEMMA ResponseStepNamed ==
    ASSUME NEW H, NEW headers \in Seq(H), NEW all \in Seq(H), NEW h \in H, NEW g \in H,
           ShouldForwardResponseHeader(g.name), g.value # NonAscii,
           g \in ToSet(headers), Named(headers, g.name) = <<g>>
    PROVE  /\ ResponseStep(headers, all, h) \in Seq(H)
           /\ Named(ResponseStep(headers, all, h), g.name)
                 = IF h.name = g.name THEN Append(Named(all, g.name), g)
                   ELSE Named(all, g.name)
<1> DEFINE S == { o \in ToSet(headers) : o.value # NonAscii }
           N == { o \in H : o.name = g.name }
           M == { o \in H : o.name = h.name }
<1>1. ResponseStep(headers, all, h) \in Seq(H)
  BY ResponseStepSet
<1>2. CASE h.name = g.name
  <2>1. g \in S
    OBVIOUS
  <2>2. Keep(<<g>>, S) = <<g>>
    <3> HIDE DEF S
    <3>1. <<>> \in Seq(H) /\ <<g>> = Append(<<>>, g)
      BY EmptySeq
    <3>2. Keep(Append(<<>>, g), S) = Append(Keep(<<>>, S), g)
      BY <2>1, <3>1, KeepAppend
    <3> QED
      BY <3>1, <3>2, KeepEmpty
  <2>3. ResponseStep(headers, all, h) = all \o <<g>>
    BY <1>2, <2>2 DEF ResponseStep
  <2>4. all \o <<g>> = Append(all, g)
    BY AppendIsConcat
  <2>5. Named(Append(all, g), g.name) = Append(Named(all, g.name), g)
    BY NamedAppend
  <2> QED
    BY <1>1, <1>2, <2>3, <2>4, <2>5
<1>3. CASE h.name # g.name
  <2>1. CASE ~ShouldForwardResponseHeader(h.name)
    BY <1>1, <1>3, <2>1 DEF ResponseStep
  <2>2. CASE ShouldForwardResponseHeader(h.name)
    <3>1. Named(headers, h.name) \in Seq(M)
      <4>1. Named(headers, h.name) = Keep(headers, M)
        BY NamedKeeps
      <4>2. Keep(headers, M) \in Seq(H \cap M)
        <5> HIDE DEF M
        <5> QED
          BY KeepType
      <4>3. H \cap M = M
        OBVIOUS
      <4> QED
        BY <4>1, <4>2, <4>3
    <3>2. PICK k \in Seq(M) : k = Keep(Named(headers, h.name), S)
      <4>1. Keep(Named(headers, h.name), S) \in Seq(M \cap S)
        <5> HIDE DEF M, S
        <5> QED
          BY <3>1, KeepType
      <4>2. Seq(M \cap S) \subseteq Seq(M)
        BY SeqMonotonic
      <4> QED
        BY <4>1, <4>2
    <3>3. k \in Seq(H)
      <4>1. M \subseteq H
        OBVIOUS
      <4> QED
        BY <3>2, <4>1, SeqMonotonic
    <3>4. Keep(k, N) = <<>>
      <4>1. M \cap N = {}
        BY <1>3
      <4> HIDE DEF M, N
      <4> QED
        BY <3>2, <4>1, KeepNone
    <3>5. ResponseStep(headers, all, h) = Cat(all, k)
      BY <2>2, <3>2 DEF ResponseStep, Cat
    <3>6. Named(Cat(all, k), g.name) = Keep(Cat(all, k), N) /\ Named(all, g.name) = Keep(all, N)
      BY <1>1, <3>5, NamedKeeps
    <3>7. Keep(Cat(all, k), N) = Cat(Keep(all, N), Keep(k, N))
      <4> HIDE DEF N
      <4> QED
        BY <3>3, KeepCat
    <3>8. Cat(Keep(all, N), <<>>) = Keep(all, N)
      <4>1. Keep(all, N) \in Seq(H \cap N)
        <5> HIDE DEF N
        <5> QED
          BY KeepType
      <4> QED
        BY <4>1, ConcatEmptySeq DEF Cat
    <3> QED
      BY <1>1, <1>3, <3>4, <3>5, <3>6, <3>7, <3>8
  <2> QED
    BY <2>1, <2>2
<1> QED
  BY <1>2, <1>3

(* A header that is given once reaches the client once.                    *)
LEMMA ResponseOnce ==
    ASSUME NEW H, NEW headers \in Seq(H), NEW g \in H,
           ShouldForwardResponseHeader(g.name), g.value # NonAscii,
           g \in ToSet(headers), Named(headers, g.name) = <<g>>
    PROVE  Named(CollectResponseHeaders(headers), g.name) = <<g>>
<1> DEFINE F(s) == Answered!Fold(headers, <<>>, s)
           Copies(t, m) == Len(t) = Len(m) /\ \A i \in 1..Len(t) : t[i] = g
           Q == {s \in Seq(H) : /\ F(s) \in Seq(H)
                                /\ Copies(Named(F(s), g.name), Named(s, g.name))}
<1>1. <<>> \in Q
  <2>1. F(<<>>) = <<>> /\ <<>> \in Seq(H)
    BY Answered!FoldEmpty, EmptySeq
  <2>2. Named(<<>>, g.name) = <<>>
    BY KeepEmpty DEF Named
  <2>3. Copies(<<>>, <<>>)
    BY EmptySeq
  <2> HIDE DEF F, Copies
  <2> QED
    BY <2>1, <2>2, <2>3
<1>2. ASSUME NEW s \in Seq(H), NEW h \in H, s \in Q
      PROVE  Append(s, h) \in Q
  <2>1. F(Append(s, h)) = ResponseStep(headers, F(s), h)
    BY Answered!FoldAppend
  <2>2. PICK f \in Seq(H) : f = F(s) /\ Copies(Named(f, g.name), Named(s, g.name))
    BY <1>2
  <2>3. /\ ResponseStep(headers, f, h) \in Seq(H)
        /\ Named(ResponseStep(headers, f, h), g.name)
              = IF h.name = g.name THEN Append(Named(f, g.name), g) ELSE Named(f, g.name)
    BY ResponseStepNamed
  <2>4. Named(Append(s, h), g.name)
           = IF h.name = g.name THEN Append(Named(s, g.name), h) ELSE Named(s, g.name)
    BY NamedAppend
  <2>5. PICK t \in Seq(H), m \in Seq(H) : t = Named(f, g.name) /\ m = Named(s, g.name)
    BY NamedType
  <2>6. Copies(t, m) => Copies(Append(t, g), Append(m, h))
    BY <2>5, AppendProperties
  <2>7. Append(s, h) \in Seq(H)
    BY AppendProperties
  <2>8. Copies(Named(ResponseStep(headers, f, h), g.name), Named(Append(s, h), g.name))
    <3> HIDE DEF Copies
    <3>1. Copies(t, m)
      BY <2>2, <2>5
    <3>2. CASE h.name = g.name
      BY <2>3, <2>4, <2>5, <2>6, <3>1, <3>2
    <3>3. CASE h.name # g.name
      BY <2>3, <2>4, <2>5, <3>1, <3>3
    <3> QED
      BY <3>2, <3>3
  <2> HIDE DEF F, Copies
  <2> QED
    BY <2>1, <2>2, <2>3, <2>7, <2>8
<1> HIDE DEF Q
<1>3. \A s \in Seq(H) : s \in Q
  BY <1>1, <1>2, SequenceInduction
<1>4. Copies(Named(F(headers), g.name), <<g>>)
  BY <1>3 DEF Q
<1>5. PICK t \in Seq(H) : t = Named(F(headers), g.name)
  <2>1. F(headers) \in Seq(H)
    BY <1>3 DEF Q
  <2> HIDE DEF F
  <2> QED
    BY <2>1, NamedType
<1>6. t = <<g>>
  <2>1. Len(t) = 1 /\ t[1] = g
    BY <1>4, <1>5
  <2> QED
    BY <2>1, LenProperties
<1> QED
  BY <1>5, <1>6, ResponseFolds

-----------------------------------------------------------------------------
(* Routing metadata.                                                       *)
AllowlistStep(name, found, h) ==
    IF found.returned \/ h.name # name THEN found
    ELSE IF found.value # None \/ h.value = Blank
    THEN [returned |-> TRUE, value |-> None]
    ELSE [found EXCEPT !.value = h.value]

Allowlist == INSTANCE SequenceLemmas WITH op <- AllowlistStep

NotFound == [returned |-> FALSE, value |-> None]

LEMMA AllowlistFolds ==
    ASSUME NEW head, NEW name
    PROVE  AllowlistedHeaderValue(head, name)
              = Allowlist!Fold(name, NotFound, head).value
  BY DEF AllowlistedHeaderValue, AllowlistStep, NotFound, Allowlist!Fold, FoldLeft,
         Allowlist!FoldLeft, MapThenFoldSet, Allowlist!MapThenFoldSet, Max,
         Allowlist!Max

(* Where the loop is after headers of which those in named have the name.  *)
Found(named) ==
    CASE named = <<>> -> NotFound
      [] Len(named) = 1 /\ named[1].value # Blank ->
           [returned |-> FALSE, value |-> named[1].value]
      [] OTHER -> [returned |-> TRUE, value |-> None]

LEMMA FoundValue ==
    ASSUME NEW b, NEW w, NEW v
    PROVE  [[returned |-> b, value |-> w] EXCEPT !.value = v]
              = [returned |-> b, value |-> v]
<1> DEFINE R == [returned : {b}, value : {v, w}]
<1>1. PICK f \in R : f = [returned |-> b, value |-> w]
  OBVIOUS
<1>2. PICK g \in R : g = [f EXCEPT !.value = v]
  OBVIOUS
<1>3. g.returned = b /\ g.value = v
  BY <1>2
<1>4. g = [returned |-> b, value |-> v]
  BY <1>3
<1> QED
  BY <1>1, <1>2, <1>4

LEMMA AllowlistFound ==
    ASSUME NEW H, NEW name, \A h \in H : h.value # None
    PROVE  \A s \in Seq(H) : Allowlist!Fold(name, NotFound, s) = Found(Named(s, name))
<1> DEFINE Q == {s \in Seq(H) :
                   Allowlist!Fold(name, NotFound, s) = Found(Named(s, name))}
<1>1. <<>> \in Q
  <2>1. Named(<<>>, name) = <<>>
    BY KeepEmpty DEF Named
  <2>2. <<>> \in Seq(H)
    BY EmptySeq
  <2>3. Allowlist!Fold(name, NotFound, <<>>) = NotFound
    BY Allowlist!FoldEmpty
  <2> QED
    BY <2>1, <2>2, <2>3 DEF Found
<1>2. ASSUME NEW s \in Seq(H), NEW h \in H, s \in Q
      PROVE  Append(s, h) \in Q
  <2>1. PICK n \in Seq(H) : n = Named(s, name)
    BY NamedType
  <2>2. PICK t \in Seq(H) : t = Append(s, h)
    BY AppendProperties
  <2>3. Named(t, name) = IF h.name = name THEN Append(n, h) ELSE n
    BY <2>1, <2>2, NamedAppend
  <2>4. Allowlist!Fold(name, NotFound, t) = AllowlistStep(name, Found(n), h)
    <3>1. Allowlist!Fold(name, NotFound, Append(s, h))
             = AllowlistStep(name, Allowlist!Fold(name, NotFound, s), h)
      BY Allowlist!FoldAppend
    <3> QED
      BY <1>2, <2>1, <2>2, <3>1
  <2>5. PICK m \in Seq(H) : /\ m = Append(n, h) /\ m # <<>> /\ Len(m) = Len(n) + 1
                            /\ m[Len(n) + 1] = h /\ \A i \in 1..Len(n) : m[i] = n[i]
    <3>1. /\ Append(n, h) \in Seq(H) /\ Len(Append(n, h)) = Len(n) + 1
          /\ Append(n, h)[Len(n) + 1] = h
          /\ \A i \in 1..Len(n) : Append(n, h)[i] = n[i]
      BY AppendProperties
    <3>2. Append(n, h) # <<>>
      BY AppendProperties
    <3> QED
      BY <3>1, <3>2
  <2>6. AllowlistStep(name, Found(n), h) = Found(Named(t, name))
    <3>1. CASE h.name # name
      <4>1. AllowlistStep(name, Found(n), h) = Found(n)
        BY <3>1 DEF AllowlistStep
      <4> QED
        BY <2>3, <3>1, <4>1
    <3>2. CASE h.name = name /\ n = <<>>
      <4>1. Len(n) = 0 /\ m[1] = h /\ Len(m) = 1
        BY <2>5, <3>2, EmptySeq
      <4>2. Found(n) = NotFound
        BY <3>2 DEF Found
      <4>3. Found(m) = IF h.value = Blank THEN [returned |-> TRUE, value |-> None]
                       ELSE [returned |-> FALSE, value |-> h.value]
        BY <2>5, <4>1 DEF Found
      <4>4. AllowlistStep(name, NotFound, h)
               = IF h.value = Blank THEN [returned |-> TRUE, value |-> None]
                 ELSE [returned |-> FALSE, value |-> h.value]
        <5>1. ~NotFound.returned /\ NotFound.value = None
          BY DEF NotFound
        <5>2. [NotFound EXCEPT !.value = h.value] = [returned |-> FALSE, value |-> h.value]
          BY FoundValue DEF NotFound
        <5> QED
          BY <3>2, <5>1, <5>2 DEF AllowlistStep
      <4> QED
        BY <2>3, <2>5, <3>2, <4>2, <4>3, <4>4
    <3>3. CASE h.name = name /\ n # <<>>
      <4>1. Len(m) # 1 /\ Len(n) \in Nat \ {0} /\ n[1] \in H
        BY <2>5, <3>3, EmptySeq, ElementOfSeq
      <4>2. Found(m) = [returned |-> TRUE, value |-> None]
        BY <2>5, <4>1 DEF Found
      <4>3. Found(n).returned = TRUE \/ Found(n).value # None
        BY <3>3, <4>1 DEF Found
      <4>4. Found(n).returned = TRUE => Found(n) = [returned |-> TRUE, value |-> None]
        BY <3>3, <4>1 DEF Found
      <4> QED
        BY <2>3, <2>5, <3>3, <4>2, <4>3, <4>4 DEF AllowlistStep
    <3> QED
      BY <3>1, <3>2, <3>3
  <2> QED
    BY <2>2, <2>4, <2>6
<1> HIDE DEF Q
<1>3. \A s \in Seq(H) : s \in Q
  BY <1>1, <1>2, SequenceInduction
<1> QED
  BY <1>3 DEF Q

(* A value is recorded for a header if it is the only one, and says        *)
(* something.                                                              *)
LEMMA AllowlistedValue ==
    ASSUME NEW H, NEW head \in Seq(H), NEW name, \A h \in H : h.value # None
    PROVE  LET named == Named(head, name) IN
           AllowlistedHeaderValue(head, name)
              = IF Len(named) = 1 /\ named[1].value # Blank THEN named[1].value ELSE None
<1>1. PICK n \in Seq(H) : n = Named(head, name)
  BY NamedType
<1>2. AllowlistedHeaderValue(head, name) = Found(n).value
  BY <1>1, AllowlistFolds, AllowlistFound
<1>3. n = <<>> => Len(n) = 0
  BY EmptySeq
<1> QED
  BY <1>1, <1>2, <1>3 DEF Found, NotFound

(***************************************************************************)
(* The kinds of things.                                                    *)
(***************************************************************************)
AllReplies == {NoReply} \cup UNION {Replies[q] : q \in Requests}

Header == UNION {ToSet(x.head) : x \in Requests \cup AllReplies}

(* What a client may be given: bytes of a stream, or one whole body.       *)
Gift == AnyByte \cup AnyBody

Exchange ==
    [ask : Requests, sent : Seq(Header) \cup {None}, reply : AllReplies,
     broken : BOOLEAN, status : Statuses, answered : Seq(Header) \cup {None},
     got : Seq(Gift)]

Upstream ==
    [state : {"none", "asked", "sending", "closed", "broken"},
     left : Seq(Seq(AnyByte)), ready : Seq(AnyByte)]

Routing == [RoutingNames -> {h.value : h \in Header} \cup {None}]

Entry == [n : Nat, event : AnyEvent, routing : Routing]

Typed ==
    /\ exchanges \in Seq(Exchange)
    /\ waiting \in Seq(Nat)
    /\ gone \subseteq DOMAIN exchanges
    /\ pc \in {"idle", "calling", "stream", "deliver"}
    /\ current \in Nat
    /\ pc # "idle" => current \in DOMAIN exchanges
    /\ up \in Upstream
    /\ parser \in GoodParser(AnyByte)
    /\ pending \in PendingMap
    /\ disk \in {"ok", "full"}
    /\ trace \in Seq(Entry)
    /\ clock \in Nat

-----------------------------------------------------------------------------
(* Facts about the constants.                                              *)
LEMMA RequestFacts ==
    ASSUME NEW q \in Requests
    PROVE  q.head \in Seq(Header) /\ q.body \in AnyBody
<1>1. q.head \in Seq(ToSet(q.head)) /\ q.body \in AnyBody
  BY HttpProxyAssumption DEF IsHead
<1>2. ToSet(q.head) \subseteq Header
  BY DEF Header
<1> QED
  BY <1>1, <1>2, SeqMonotonic

LEMMA ReplyFacts ==
    ASSUME NEW r \in AllReplies
    PROVE  /\ r.head \in Seq(Header) /\ r.body \in AnyBody
           /\ r.chunks \in Seq(Seq(AnyByte))
           /\ r.kind \in {"none", "error", "direct", "stream"}
           /\ r.kind = "none" => r = NoReply
<1>1. CASE r = NoReply
  BY <1>1, EmptySeq DEF NoReply, AnyBody
<1>2. CASE r # NoReply
  <2>1. PICK q \in Requests : r \in Replies[q]
    BY <1>2 DEF AllReplies
  <2>2. /\ r.head \in Seq(ToSet(r.head)) /\ r.body \in AnyBody
        /\ r.chunks \in Seq(Seq(AnyByte))
        /\ r.kind \in {"error", "direct", "stream"}
    BY <2>1, HttpProxyAssumption DEF IsHead
  <2>3. ToSet(r.head) \subseteq Header
    BY DEF Header
  <2> QED
    BY <2>2, <2>3, SeqMonotonic
<1> QED
  BY <1>1, <1>2

LEMMA HeaderFacts ==
    \A h \in Header : h = [name |-> h.name, value |-> h.value] /\ h.value # None
<1> SUFFICES ASSUME NEW h \in Header
             PROVE  h = [name |-> h.name, value |-> h.value] /\ h.value # None
  OBVIOUS
<1>1. PICK x \in Requests \cup AllReplies : h \in ToSet(x.head)
  BY DEF Header
<1>2. CASE x \in Requests
  BY <1>1, <1>2, HttpProxyAssumption DEF IsHead
<1>3. CASE x \in AllReplies /\ x # NoReply
  <2>1. PICK q \in Requests : x \in Replies[q]
    BY <1>3 DEF AllReplies
  <2> QED
    BY <1>1, <2>1, HttpProxyAssumption DEF IsHead
<1>4. CASE x = NoReply
  BY <1>1, <1>4 DEF NoReply, ToSet
<1> QED
  BY <1>1, <1>2, <1>3, <1>4

LEMMA StreamBytes == LF \in AnyByte /\ AnyPayload \subseteq AnyByte /\ AnyByte \subseteq Gift
  BY DEF AnyByte, Gift

-----------------------------------------------------------------------------
(* Observation: Observe is a fold over the payloads, and adds an entry for *)
(* each.                                                                   *)
Observed == INSTANCE SequenceLemmas WITH op <- ObserveNext

Call(n, dir, routing, at) == [n |-> n, dir |-> dir, routing |-> routing, at |-> at]

Entries(n, dir, routing) ==
    {e \in Entry : e.n = n /\ e.event.dir = dir /\ e.routing = routing}

(* What an entry says of its payload.                                      *)
PayloadOf == [e \in Entry |-> e.event.payload]

LEMMA PayloadType == PayloadOf \in [Entry -> AnyPayload]
<1>1. \A e \in Entry : e.event \in AnyEvent
  BY DEF Entry
<1>2. \A v \in AnyEvent : v.payload \in AnyPayload
  BY DEF AnyEvent
<1> QED
  BY <1>1, <1>2 DEF PayloadOf

(* What Observe does to the variables.                                     *)
Writes(es) ==
    /\ pending' \in PendingMap
    /\ clock' = clock + Len(es)
    /\ trace' = IF disk = "ok" THEN trace \o es ELSE trace
    /\ disk' = disk

(* What Observe does, with what it adds.                                   *)
LEMMA ObservePayloads ==
    ASSUME NEW n \in Nat, NEW payloads \in Seq(AnyPayload), NEW dir \in Directions,
           NEW routing \in Routing, Typed, Observe(n, payloads, dir, routing)
    PROVE  \E es \in Seq(Entries(n, dir, routing)) :
              Writes(es) /\ Images(PayloadOf, es) = payloads
<1> DEFINE q == Call(n, dir, routing, clock)
           start == [events |-> <<>>, pending |-> pending]
           E == Entries(n, dir, routing)
           R == [events : Seq(E), pending : PendingMap]
           Q == {s \in Seq(AnyPayload) :
                   /\ Observed!Fold(q, start, s) \in R
                   /\ Images(PayloadOf, Observed!Fold(q, start, s).events) = s}
           all == Observed!Fold(q, start, payloads)
<1>1. pending \in PendingMap /\ clock \in Nat
  BY DEF Typed
<1>2. start \in R /\ start.events = <<>>
  BY <1>1, EmptySeq
<1>3. <<>> \in Q
  <2>1. Observed!Fold(q, start, <<>>) = start
    BY Observed!FoldEmpty
  <2>2. Images(PayloadOf, <<>>) = <<>> /\ <<>> \in Seq(AnyPayload)
    BY ImagesEmpty, EmptySeq
  <2> QED
    BY <1>2, <2>1, <2>2
<1>4. ASSUME NEW s \in Seq(AnyPayload), NEW p \in AnyPayload, s \in Q
      PROVE  Append(s, p) \in Q
  <2>1. PICK events \in Seq(E), map \in PendingMap :
           Observed!Fold(q, start, s) = [events |-> events, pending |-> map]
    BY <1>4
  <2>2. Images(PayloadOf, events) = s
    BY <1>4, <2>1
  <2>3. Observed!Fold(q, start, Append(s, p))
          = ObserveNext(q, [events |-> events, pending |-> map], p)
    <3> HIDE DEF q, start, R, E
    <3>1. Observed!Fold(q, start, Append(s, p)) = ObserveNext(q, Observed!Fold(q, start, s), p)
      BY Observed!FoldAppend
    <3> QED
      BY <2>1, <3>1
  <2>4. PICK at \in Nat : at = clock + Len(events)
    BY <1>1, LenProperties
  <2>5. PICK o : o = ObservePayloadAt(p, dir, map, at)
    OBVIOUS
  <2>6. /\ o.event \in AnyEvent /\ o.event.dir = dir /\ o.pending \in PendingMap
        /\ o.event.payload = p
    BY <2>5, ObservedType
  <2>7. PICK e \in E : e = [n |-> n, event |-> o.event, routing |-> routing]
    BY <2>6 DEF Entries, Entry
  <2>8. ObserveNext(q, [events |-> events, pending |-> map], p)
          = [events |-> Append(events, e), pending |-> o.pending]
    BY <2>4, <2>5, <2>7 DEF ObserveNext, Call
  <2>9. e \in Entry /\ E \subseteq Entry /\ PayloadOf[e] = p
    <3>1. E \subseteq Entry
      BY DEF Entries
    <3> QED
      BY <2>6, <2>7, <3>1 DEF PayloadOf
  <2>10. Append(events, e) \in Seq(E)
    BY AppendProperties
  <2>11. Images(PayloadOf, Append(events, e)) = Append(s, p)
    <3>1. events \in Seq(Entry)
      BY <2>9, SeqMonotonic
    <3>2. Images(PayloadOf, Append(events, e)) = Append(Images(PayloadOf, events), PayloadOf[e])
      BY <2>9, <3>1, PayloadType, ImagesAppend
    <3> QED
      BY <2>2, <2>9, <3>2
  <2>12. Append(s, p) \in Seq(AnyPayload)
    BY AppendProperties
  <2>13. [events |-> Append(events, e), pending |-> o.pending] \in R
    BY <2>6, <2>10
  <2>14. PICK a : a = Observed!Fold(q, start, Append(s, p))
    OBVIOUS
  <2>15. a \in R /\ a.events = Append(events, e)
    <3>1. a = [events |-> Append(events, e), pending |-> o.pending]
      <4> HIDE DEF q, start
      <4> QED
        BY <2>3, <2>8, <2>14
    <3>2. a.events = Append(events, e)
      BY <3>1
    <3> QED
      BY <2>13, <3>1, <3>2
  <2> HIDE DEF q, start, R, E
  <2> QED
    BY <2>11, <2>12, <2>14, <2>15
<1>5. payloads \in Q
  <2> HIDE DEF Q
  <2> QED
    BY <1>3, <1>4, SequenceInduction
<1>6. /\ pending' = all.pending
      /\ clock' = clock + Len(all.events)
      /\ trace' = IF disk = "ok" THEN trace \o all.events ELSE trace
      /\ disk' = disk
  BY DEF Observe, Call, Observed!Fold, FoldLeft, Observed!FoldLeft,
         MapThenFoldSet, Observed!MapThenFoldSet, Max, Observed!Max
<1>7. /\ all.events \in Seq(Entries(n, dir, routing)) /\ all.pending \in PendingMap
      /\ Images(PayloadOf, all.events) = payloads
  BY <1>5
<1> HIDE DEF all
<1>8. Writes(all.events)
  BY <1>6, <1>7 DEF Writes
<1> QED
  BY <1>7, <1>8

-----------------------------------------------------------------------------
(* The messages of a stream, as images of what is kept of its events.      *)
Bared == [t \in Seq(AnyByte) |-> Keep(t, ToSet(t) \ {LF, CR, Space})]

OneMessage ==
    {t \in Seq(AnyByte) : /\ Len(t) = 1
                          /\ t[1] \notin {LF, CR, Space, Colon, DataField}
                          /\ is_json_rpc_payload(t[1])}

MessageOf == [t \in OneMessage |-> t[1]]

LEMMA BaredType == Bared \in [Seq(AnyByte) -> Seq(AnyByte \ {LF, CR, Space})]
<1> SUFFICES ASSUME NEW t \in Seq(AnyByte)
             PROVE  Keep(t, ToSet(t) \ {LF, CR, Space}) \in Seq(AnyByte \ {LF, CR, Space})
  BY DEF Bared
<1>1. PICK S : S = ToSet(t) \ {LF, CR, Space}
  OBVIOUS
<1>2. Keep(t, S) \in Seq(AnyByte \cap S)
  BY KeepType
<1>3. AnyByte \cap S \subseteq AnyByte \ {LF, CR, Space}
  BY <1>1
<1> QED
  BY <1>1, <1>2, <1>3, SeqMonotonic

LEMMA MessageType == MessageOf \in [OneMessage -> AnyPayload]
<1> SUFFICES ASSUME NEW t \in OneMessage
             PROVE  t[1] \in AnyPayload
  BY DEF MessageOf
<1>1. t \in Seq(AnyByte) /\ 1 \in 1..Len(t)
  BY DEF OneMessage
<1>2. t[1] \in AnyByte
  BY <1>1, ElementOfSeq
<1> QED
  BY <1>2 DEF OneMessage, AnyByte

LEMMA JsonRpcIs ==
    ASSUME NEW texts \in Seq(Seq(AnyByte))
    PROVE  /\ Keep(Images(Bared, texts), OneMessage) \in Seq(OneMessage)
           /\ JsonRpc(texts) = Images(MessageOf, Keep(Images(Bared, texts), OneMessage))
<1>1. PICK B : B = Seq(AnyByte \ {LF, CR, Space})
  OBVIOUS
<1>2. PICK T : T = Seq(AnyByte)
  OBVIOUS
<1>3. PICK bare \in Seq(B) : bare = Images(Bared, texts)
  <2>1. Bared \in [T -> B] /\ texts \in Seq(T)
    BY <1>1, <1>2, BaredType
  <2>2. Images(Bared, texts) \in Seq(B)
    BY <2>1, ImagesType
  <2> QED
    BY <2>2
<1>4. bare = [i \in DOMAIN texts |-> Keep(texts[i], ToSet(texts[i]) \ {LF, CR, Space})]
  <2>1. \A i \in DOMAIN texts : texts[i] \in Seq(AnyByte)
    BY LenProperties, ElementOfSeq
  <2> QED
    BY <1>3, <2>1 DEF Images, Bared
<1> DEFINE messages == { text \in ToSet(bare) : /\ Len(text) = 1
                                                /\ text[1] \notin {Colon, DataField}
                                                /\ is_json_rpc_payload(text[1]) }
<1>5. Keep(bare, messages) = Keep(bare, OneMessage)
  <2>1. bare \in Seq(ToSet(bare)) /\ ToSet(bare) \subseteq B
    BY SeqOfItsSet
  <2>2. ASSUME NEW t \in ToSet(bare)
        PROVE  t \in messages <=> t \in OneMessage
    <3>1. t \in Seq(AnyByte \ {LF, CR, Space}) /\ t \in Seq(AnyByte)
      <4>1. t \in Seq(AnyByte \ {LF, CR, Space})
        BY <1>1, <2>1
      <4>2. AnyByte \ {LF, CR, Space} \subseteq AnyByte
        OBVIOUS
      <4> QED
        BY <4>1, <4>2, SeqMonotonic
    <3>2. Len(t) = 1 => t[1] \notin {LF, CR, Space}
      <4> SUFFICES ASSUME Len(t) = 1 PROVE t[1] \notin {LF, CR, Space}
        OBVIOUS
      <4>1. 1 \in 1..Len(t)
        OBVIOUS
      <4>2. t[1] \in AnyByte \ {LF, CR, Space}
        BY <3>1, <4>1, ElementOfSeq
      <4> QED
        BY <4>2
    <3> QED
      BY <3>1, <3>2 DEF OneMessage
  <2>3. messages \cap ToSet(bare) = OneMessage \cap ToSet(bare)
    BY <2>2
  <2> HIDE DEF messages
  <2> QED
    BY <2>1, <2>3, KeepSame
<1>6. PICK kept : kept = Keep(bare, OneMessage)
  OBVIOUS
<1>7. kept \in Seq(OneMessage)
  <2>1. Keep(bare, OneMessage) \in Seq(B \cap OneMessage)
    BY KeepType
  <2>2. B \cap OneMessage \subseteq OneMessage
    OBVIOUS
  <2> QED
    BY <1>6, <2>1, <2>2, SeqMonotonic
<1>8. JsonRpc(texts) = [i \in DOMAIN kept |-> kept[i][1]]
  BY <1>4, <1>5, <1>6 DEF JsonRpc
<1>9. \A i \in DOMAIN kept : kept[i] \in OneMessage
  BY <1>7, LenProperties, ElementOfSeq
<1>10. Images(MessageOf, kept) = [i \in DOMAIN kept |-> kept[i][1]]
  BY <1>9 DEF Images, MessageOf
<1> QED
  BY <1>3, <1>6, <1>7, <1>8, <1>10

(* What may be written of a stream.                                        *)
LEMMA JsonRpcType ==
    ASSUME NEW texts \in Seq(Seq(AnyByte))
    PROVE  JsonRpc(texts) \in Seq(AnyPayload)
<1>1. PICK kept \in Seq(OneMessage) : JsonRpc(texts) = Images(MessageOf, kept)
  BY JsonRpcIs
<1>2. Images(MessageOf, kept) \in Seq(AnyPayload)
  BY MessageType, ImagesType
<1> QED
  BY <1>1, <1>2

LEMMA JsonRpcEmpty == JsonRpc(<<>>) = <<>>
<1>1. <<>> \in Seq(Seq(AnyByte))
  BY EmptySeq
<1>2. JsonRpc(<<>>) = Images(MessageOf, Keep(Images(Bared, <<>>), OneMessage))
  BY <1>1, JsonRpcIs
<1> QED
  BY <1>2, ImagesEmpty, KeepEmpty

(* The messages of events that follow others follow theirs.                *)
LEMMA JsonRpcCat ==
    ASSUME NEW s \in Seq(Seq(AnyByte)), NEW t \in Seq(Seq(AnyByte))
    PROVE  JsonRpc(Cat(s, t)) = Cat(JsonRpc(s), JsonRpc(t))
<1>1. PICK B : B = Seq(AnyByte \ {LF, CR, Space})
  OBVIOUS
<1>2. PICK T : T = Seq(AnyByte)
  OBVIOUS
<1>3. Bared \in [T -> B] /\ s \in Seq(T) /\ t \in Seq(T)
  BY <1>1, <1>2, BaredType
<1>4. PICK x \in Seq(B), y \in Seq(B) : x = Images(Bared, s) /\ y = Images(Bared, t)
  BY <1>3, ImagesType
<1>5. PICK u \in Seq(T) : u = Cat(s, t) /\ Images(Bared, u) = Cat(x, y)
  <2>1. Images(Bared, Cat(s, t)) = Cat(Images(Bared, s), Images(Bared, t))
    <3>1. ImagesSplit(Bared, T)
      BY <1>3, ImagesCat
    <3> QED
      BY <1>3, <3>1 DEF ImagesSplit
  <2>2. Cat(s, t) \in Seq(T)
    BY <1>3, CatClosed
  <2> QED
    BY <1>4, <2>1, <2>2
<1>6. Keep(Cat(x, y), OneMessage) = Cat(Keep(x, OneMessage), Keep(y, OneMessage))
  BY KeepCat
<1>7. PICK k \in Seq(OneMessage), l \in Seq(OneMessage) :
         /\ k = Keep(x, OneMessage) /\ JsonRpc(s) = Images(MessageOf, k)
         /\ l = Keep(y, OneMessage) /\ JsonRpc(t) = Images(MessageOf, l)
  BY <1>4, JsonRpcIs
<1>8. JsonRpc(u) = Images(MessageOf, Cat(k, l))
  <2>1. u \in Seq(Seq(AnyByte))
    BY <1>2
  <2> QED
    BY <1>5, <1>6, <1>7, <2>1, JsonRpcIs
<1>9. Images(MessageOf, Cat(k, l)) = Cat(Images(MessageOf, k), Images(MessageOf, l))
  <2>1. ImagesSplit(MessageOf, OneMessage)
    BY MessageType, ImagesCat
  <2> QED
    BY <2>1 DEF ImagesSplit
<1> QED
  BY <1>5, <1>7, <1>8, <1>9

-----------------------------------------------------------------------------
(***************************************************************************)
(* The invariant.                                                          *)
(***************************************************************************)
(* How many requests the handler has taken, those it refused included.     *)
Taken == Len(exchanges) - Len(waiting)

Fresh(x) ==
    /\ x.status = "waiting"
    /\ x.sent = None /\ x.answered = None
    /\ x.reply = NoReply /\ ~x.broken
    /\ x.got = <<>>

(* Requests are taken in the order in which they came, each once, and      *)
(* nothing happens to one before.                                          *)
QueueOK ==
    /\ Len(exchanges) <= MaxRequests
    /\ Len(waiting) <= Len(exchanges)
    /\ \A i \in DOMAIN waiting : waiting[i] = Taken + i
    /\ \A n \in DOMAIN exchanges : n > Taken => Fresh(exchanges[n])
    /\ pc # "idle" => current <= Taken

(* The exchange being handled: what its client has, with what lies between *)
(* the two connections, is the answer that was sent.                       *)
Between(x, u) == Cat(x.got, Cat(u.ready, FlattenSeq(u.left)))

Handling(x, u, at) ==
    /\ u.state # "none"
    /\ at = "calling" => x.status = "waiting" /\ x.answered = None /\ x.got = <<>>
    /\ at # "calling" => x.status = "stream" /\ x.reply.kind = "stream"
    /\ u.state = "asked" => /\ at = "calling" /\ x.reply = NoReply
                            /\ u.left = <<>> /\ u.ready = <<>>
    /\ u.state = "closed" => u.left = <<>>
    /\ u.state = "broken" => x.broken
    /\ x.reply.kind = "stream" => Between(x, u) = FlattenSeq(x.reply.chunks)
    /\ at = "deliver" => u.ready # <<>>

HandlerOK ==
    /\ pc = "idle" => up = NoUpstream
    /\ pc # "idle" => Handling(exchanges[current], up, pc)

(* What is right of one exchange, with a client that has hung up or not.   *)
Whole(x) ==
    IF x.reply.kind = "stream" THEN FlattenSeq(x.reply.chunks) ELSE <<x.reply.body>>

AnswerOK(x, left) ==
    /\ IsPrefix(x.got, Whole(x))
    /\ x.status = "done" => x.got = Whole(x)
    /\ x.status \in {"cut", "dropped"} => left \/ x.broken \/ x.ask.target = "absolute"
    /\ x.status = "502" => x.reply.kind = "error" \/ x.reply.body = Oversize
    /\ x.status = "413" => x.ask.body = Oversize

HeadsOK(x) ==
    /\ x.sent # None => x.sent = UpstreamHeaders(x.ask.head)
    /\ x.answered # None => x.answered = CollectResponseHeaders(x.reply.head)

ExchangesOK ==
    \A n \in DOMAIN exchanges : AnswerOK(exchanges[n], n \in gone) /\ HeadsOK(exchanges[n])

(* An entry of the trace is about a request that has been forwarded.       *)
EntryOK(e) ==
    /\ e.n \in DOMAIN exchanges
    /\ e.event.dir = "s2c" => e.routing = NoRouting
    /\ e.event.dir = "c2s" =>
          /\ exchanges[e.n].sent = UpstreamHeaders(exchanges[e.n].ask.head)
          /\ e.routing = CollectRequestRoutingMetadata(exchanges[e.n].ask.head)

TraceOK == \A e \in ToSet(trace) : EntryOK(e)

CountOK == IF disk = "ok" THEN Len(trace) = clock ELSE Len(trace) <= clock

IInv == Typed /\ QueueOK /\ HandlerOK /\ ExchangesOK /\ TraceOK /\ CountOK

-----------------------------------------------------------------------------
(* What a change of one exchange keeps.                                    *)
Touches(m, y) ==
    /\ exchanges' = [exchanges EXCEPT ![m] = y]
    /\ y.ask = exchanges[m].ask
    /\ y.sent = exchanges[m].sent \/ y.sent = UpstreamHeaders(y.ask.head)

SameLength ==
    /\ exchanges' \in Seq(Exchange)
    /\ Len(exchanges') = Len(exchanges)
    /\ DOMAIN exchanges' = DOMAIN exchanges

EntriesKept == \A e \in Entry : EntryOK(e) => EntryOK(e)'

LEMMA Domains ==
    ASSUME Typed
    PROVE  /\ Len(exchanges) \in Nat /\ DOMAIN exchanges = 1..Len(exchanges)
           /\ Len(waiting) \in Nat /\ DOMAIN waiting = 1..Len(waiting)
           /\ \A n \in DOMAIN exchanges : exchanges[n] \in Exchange
           /\ \A i \in DOMAIN waiting : waiting[i] \in Nat
  BY LenProperties, ElementOfSeq DEF Typed

LEMMA Touched ==
    ASSUME Typed, NEW m \in DOMAIN exchanges, NEW y \in Exchange, Touches(m, y)
    PROVE  /\ SameLength
           /\ exchanges'[m] = y
           /\ \A n \in DOMAIN exchanges : n # m => exchanges'[n] = exchanges[n]
<1>1. exchanges \in Seq(Exchange) /\ m \in 1..Len(exchanges)
  BY Domains DEF Typed
<1>2. exchanges' \in Seq(Exchange) /\ Len(exchanges') = Len(exchanges)
  BY <1>1, ExceptSeq DEF Touches
<1>3. DOMAIN exchanges' = DOMAIN exchanges
  BY DEF Touches
<1>4. exchanges'[m] = y /\ \A n \in DOMAIN exchanges : n # m => exchanges'[n] = exchanges[n]
  BY DEF Touches
<1> QED
  BY <1>2, <1>3, <1>4 DEF SameLength

LEMMA EntriesStay ==
    ASSUME Typed, NEW m \in DOMAIN exchanges, NEW y \in Exchange, Touches(m, y)
    PROVE  EntriesKept
<1> SUFFICES ASSUME NEW e \in Entry, EntryOK(e)
             PROVE  EntryOK(e)'
  BY DEF EntriesKept
<1>1. e.n \in DOMAIN exchanges'
  BY Touched DEF EntryOK, SameLength
<1>2. CASE e.n = m
  <2>1. exchanges'[m] = y
    BY Touched
  <2>2. e.event.dir = "s2c" => e.routing = NoRouting
    BY DEF EntryOK
  <2>3. e.event.dir = "c2s" =>
           /\ exchanges[m].sent = UpstreamHeaders(exchanges[m].ask.head)
           /\ e.routing = CollectRequestRoutingMetadata(exchanges[m].ask.head)
    BY <1>2 DEF EntryOK
  <2>4. y.ask = exchanges[m].ask
    BY DEF Touches
  <2>5. y.sent = exchanges[m].sent \/ y.sent = UpstreamHeaders(y.ask.head)
    BY DEF Touches
  <2>6. e.event.dir = "c2s" =>
           /\ y.sent = UpstreamHeaders(y.ask.head)
           /\ e.routing = CollectRequestRoutingMetadata(y.ask.head)
    BY <2>3, <2>4, <2>5
  <2> QED
    BY <1>1, <1>2, <2>1, <2>2, <2>6 DEF EntryOK
<1>3. CASE e.n # m
  <2>1. exchanges'[e.n] = exchanges[e.n]
    BY <1>3, Touched DEF EntryOK
  <2> QED
    BY <1>1, <2>1 DEF EntryOK
<1> QED
  BY <1>2, <1>3

LEMMA ExchangesStay ==
    ASSUME Typed, ExchangesOK, gone' = gone,
           NEW m \in DOMAIN exchanges, NEW y \in Exchange, Touches(m, y),
           AnswerOK(y, m \in gone), HeadsOK(y)
    PROVE  ExchangesOK'
<1>1. /\ DOMAIN exchanges' = DOMAIN exchanges
      /\ exchanges'[m] = y
      /\ \A n \in DOMAIN exchanges : n # m => exchanges'[n] = exchanges[n]
  BY Touched DEF SameLength
<1> SUFFICES ASSUME NEW n \in DOMAIN exchanges
             PROVE  AnswerOK(exchanges'[n], n \in gone) /\ HeadsOK(exchanges'[n])
  BY <1>1 DEF ExchangesOK
<1>2. CASE n = m
  BY <1>1, <1>2
<1>3. CASE n # m
  BY <1>1, <1>3 DEF ExchangesOK
<1> QED
  BY <1>2, <1>3

(* The first request of the queue.                                         *)
LEMMA FirstWaiting ==
    ASSUME Typed, QueueOK, waiting # <<>>
    PROVE  /\ Head(waiting) \in DOMAIN exchanges /\ Head(waiting) \in Nat
           /\ Head(waiting) = Taken + 1
           /\ Fresh(exchanges[Head(waiting)])
<1>1. /\ Len(exchanges) \in Nat /\ DOMAIN exchanges = 1..Len(exchanges)
      /\ Len(waiting) \in Nat /\ DOMAIN waiting = 1..Len(waiting)
      /\ Len(waiting) <= Len(exchanges)
  BY Domains DEF QueueOK
<1>2. Len(waiting) # 0 /\ Head(waiting) = waiting[1]
  BY EmptySeq, HeadTailProperties DEF Typed
<1>3. waiting[1] = Taken + 1
  BY <1>1, <1>2 DEF QueueOK
<1>4. Taken + 1 \in DOMAIN exchanges /\ Taken \in Nat
  BY <1>1, <1>2 DEF Taken
<1> QED
  BY <1>2, <1>3, <1>4 DEF QueueOK

LEMMA QueueStays ==
    ASSUME Typed, QueueOK, pc # "idle", waiting' = waiting, current' = current,
           NEW y \in Exchange, Touches(current, y)
    PROVE  QueueOK'
<1>1. current \in DOMAIN exchanges
  BY DEF Typed
<1>2. /\ Len(exchanges') = Len(exchanges) /\ DOMAIN exchanges' = DOMAIN exchanges
      /\ \A n \in DOMAIN exchanges : n # current => exchanges'[n] = exchanges[n]
  BY <1>1, Touched DEF SameLength
<1>3. Taken' = Taken
  BY <1>2 DEF Taken
<1>4. current <= Taken
  BY DEF QueueOK
<1>5. ASSUME NEW n \in DOMAIN exchanges, n > Taken
      PROVE  Fresh(exchanges'[n])
  <2>1. n # current
    BY <1>1, <1>4, <1>5, Domains DEF Taken
  <2> QED
    BY <1>2, <1>5, <2>1 DEF QueueOK
<1> QED
  BY <1>2, <1>3, <1>4, <1>5 DEF QueueOK

LEMMA QueueMoves ==
    ASSUME Typed, QueueOK, waiting # <<>>, waiting' = Tail(waiting),
           pc' = "idle" \/ current' = Head(waiting),
           NEW y \in Exchange, Touches(Head(waiting), y)
    PROVE  QueueOK' /\ waiting' \in Seq(Nat)
<1> DEFINE m == Head(waiting)
<1>1. m \in DOMAIN exchanges /\ m = Taken + 1
  BY FirstWaiting
<1>2. /\ Len(exchanges') = Len(exchanges) /\ DOMAIN exchanges' = DOMAIN exchanges
      /\ \A n \in DOMAIN exchanges : n # m => exchanges'[n] = exchanges[n]
  BY <1>1, Touched DEF SameLength
<1>3. PICK k \in Nat, l \in Nat : k = Len(exchanges) /\ l = Len(waiting)
  BY Domains
<1>4. /\ waiting' \in Seq(Nat) /\ Len(waiting') = l - 1 /\ DOMAIN waiting' = 1..(l - 1)
      /\ \A i \in 1..(l - 1) : waiting'[i] = waiting[i + 1]
      /\ l # 0 /\ l <= k
  BY <1>3, HeadTailProperties, EmptySeq, LenProperties DEF Typed, QueueOK
<1>5. Taken = k - l /\ Taken' = (k - l) + 1
  BY <1>2, <1>3, <1>4 DEF Taken
<1>6. \A i \in 1..(l - 1) : waiting'[i] = Taken' + i
  <2> SUFFICES ASSUME NEW i \in 1..(l - 1)
               PROVE  waiting'[i] = Taken' + i
    OBVIOUS
  <2>1. i + 1 \in DOMAIN waiting
    BY <1>3, Domains
  <2>2. waiting[i + 1] = Taken + (i + 1)
    BY <2>1 DEF QueueOK
  <2> QED
    BY <1>3, <1>4, <1>5, <2>2
<1>7. ASSUME NEW n \in DOMAIN exchanges, n > Taken'
      PROVE  Fresh(exchanges'[n])
  <2>1. n > Taken /\ n # m
    BY <1>1, <1>3, <1>5, <1>7, Domains
  <2> QED
    BY <1>2, <2>1 DEF QueueOK
<1>8. pc' # "idle" => current' <= Taken'
  BY <1>1, <1>3, <1>5
<1> QED
  BY <1>2, <1>3, <1>4, <1>6, <1>7, <1>8 DEF QueueOK

-----------------------------------------------------------------------------
(* The trace, when nothing is observed and when something is.              *)
Recorded ==
    /\ pending \in PendingMap /\ disk \in {"ok", "full"}
    /\ trace \in Seq(Entry) /\ clock \in Nat
    /\ TraceOK /\ CountOK

LEMMA Silent ==
    ASSUME IInv, EntriesKept, UNCHANGED <<pending, trace, clock>>,
           disk' = disk \/ disk' = "full"
    PROVE  Recorded'
<1>1. /\ pending \in PendingMap /\ disk \in {"ok", "full"}
      /\ trace \in Seq(Entry) /\ clock \in Nat
  BY DEF IInv, Typed
<1>2. ToSet(trace) \subseteq Entry
  BY <1>1, SeqOfItsSet
<1>3. TraceOK'
  <2>1. ToSet(trace') = ToSet(trace)
    OBVIOUS
  <2>2. \A e \in ToSet(trace) : EntryOK(e)'
    BY <1>2 DEF IInv, TraceOK, EntriesKept
  <2> QED
    BY <2>1, <2>2 DEF TraceOK
<1>4. CountOK'
  <2>1. Len(trace) \in Nat
    BY <1>1, LenProperties
  <2> QED
    BY <1>1, <2>1 DEF IInv, CountOK
<1> QED
  BY <1>1, <1>3, <1>4 DEF Recorded

LEMMA Recording ==
    ASSUME IInv, EntriesKept, NEW n \in Nat, NEW payloads \in Seq(AnyPayload),
           NEW dir \in Directions, NEW routing \in Routing,
           Observe(n, payloads, dir, routing),
           \A e \in Entries(n, dir, routing) : EntryOK(e)'
    PROVE  Recorded'
<1>1. /\ pending \in PendingMap /\ disk \in {"ok", "full"}
      /\ trace \in Seq(Entry) /\ clock \in Nat
  BY DEF IInv, Typed
<1>2. PICK es \in Seq(Entries(n, dir, routing)) : Writes(es)
  BY ObservePayloads DEF IInv
<1>3. es \in Seq(Entry) /\ ToSet(es) \subseteq Entries(n, dir, routing)
  <2>1. ToSet(es) \subseteq Entries(n, dir, routing)
    BY SeqOfItsSet
  <2>2. Entries(n, dir, routing) \subseteq Entry
    BY DEF Entries
  <2> QED
    BY <2>1, <2>2, SeqMonotonic
<1>4. PICK k \in Nat, l \in Nat : k = Len(trace) /\ l = Len(es)
  BY <1>1, <1>3, LenProperties
<1>5. PICK all \in Seq(Entry) : /\ all = trace \o es /\ Len(all) = k + l
                                /\ ToSet(all) = ToSet(trace) \cup ToSet(es)
  <2>1. trace \o es \in Seq(Entry) /\ Len(trace \o es) = k + l
    BY <1>1, <1>3, <1>4, ConcatProperties
  <2>2. ToSet(trace \o es) = ToSet(trace) \cup ToSet(es)
    BY <1>1, <1>3, ToSetCat
  <2> QED
    BY <2>1, <2>2
<1>6. ToSet(trace) \subseteq Entry
  BY <1>1, SeqOfItsSet
<1>7. \A e \in ToSet(trace) \cup ToSet(es) : EntryOK(e)'
  BY <1>3, <1>6 DEF IInv, TraceOK, EntriesKept
<1>8. /\ pending' \in PendingMap /\ clock' = clock + l /\ disk' = disk
      /\ trace' = IF disk = "ok" THEN all ELSE trace
  BY <1>2, <1>4, <1>5 DEF Writes
<1>9. trace' \in Seq(Entry) /\ ToSet(trace') \subseteq ToSet(trace) \cup ToSet(es)
  BY <1>1, <1>5, <1>8
<1>10. TraceOK'
  BY <1>7, <1>9 DEF TraceOK
<1>11. CountOK'
  <2>1. CountOK
    BY DEF IInv
  <2>2. CASE disk = "ok"
    BY <1>1, <1>4, <1>5, <1>8, <2>1, <2>2 DEF CountOK
  <2>3. CASE disk # "ok"
    BY <1>1, <1>4, <1>8, <2>1, <2>3 DEF CountOK
  <2> QED
    BY <2>2, <2>3
<1> QED
  BY <1>1, <1>8, <1>9, <1>10, <1>11 DEF Recorded

(* What is observed with an answer is about the current exchange.          *)
LEMMA AnswerEntries ==
    ASSUME NEW n, n \in DOMAIN exchanges'
    PROVE  \A e \in Entries(n, "s2c", NoRouting) : EntryOK(e)'
  BY DEF Entries, EntryOK

LEMMA NoRoutingType == NoRouting \in Routing
  BY DEF NoRouting, Routing

LEMMA RoutingType ==
    ASSUME NEW head \in Seq(Header)
    PROVE  CollectRequestRoutingMetadata(head) \in Routing
<1> SUFFICES ASSUME NEW name \in RoutingNames
             PROVE  AllowlistedHeaderValue(head, name) \in {h.value : h \in Header} \cup {None}
  BY DEF CollectRequestRoutingMetadata, Routing
<1> DEFINE named == Named(head, name)
<1>1. AllowlistedHeaderValue(head, name)
         = IF Len(named) = 1 /\ named[1].value # Blank THEN named[1].value ELSE None
  BY HeaderFacts, AllowlistedValue
<1>2. named \in Seq(Header)
  BY NamedType
<1>3. Len(named) = 1 => named[1] \in Header
  <2> HIDE DEF named
  <2> QED
    BY <1>2, ElementOfSeq
<1> QED
  BY <1>1, <1>3

(* A body that is observed is a payload.                                   *)
LEMMA BodyType ==
    ASSUME NEW b \in AnyBody, b # Oversize
    PROVE  (IF b = None THEN <<>> ELSE <<b>>) \in Seq(AnyPayload)
<1>1. CASE b = None
  BY <1>1, EmptySeq
<1>2. CASE b # None
  <2>1. b \in AnyPayload
    BY <1>2 DEF AnyBody
  <2> QED
    BY <1>2, <2>1
<1> QED
  BY <1>1, <1>2

-----------------------------------------------------------------------------
(* The steps: what each must show of the exchange it changes.              *)
Shape ==
    /\ exchanges \in Seq(Exchange)
    /\ waiting \in Seq(Nat)
    /\ gone \subseteq DOMAIN exchanges
    /\ pc \in {"idle", "calling", "stream", "deliver"}
    /\ current \in Nat
    /\ pc # "idle" => current \in DOMAIN exchanges
    /\ up \in Upstream
    /\ parser \in GoodParser(AnyByte)

LEMMA Together ==
    ASSUME Shape', QueueOK', HandlerOK', ExchangesOK', Recorded'
    PROVE  IInv'
  BY DEF IInv, Typed, Shape, Recorded

(* The exchange being handled goes on, or comes to its end.                *)
LEMMA CurrentStep ==
    ASSUME IInv, pc # "idle", UNCHANGED <<waiting, gone, current>>,
           NEW y \in Exchange, Touches(current, y),
           AnswerOK(y, current \in gone), HeadsOK(y),
           pc' \in {"idle", "calling", "stream", "deliver"},
           up' \in Upstream, parser' \in GoodParser(AnyByte),
           pc' = "idle" => up' = NoUpstream,
           pc' # "idle" => Handling(y, up', pc'),
           EntriesKept => Recorded'
    PROVE  IInv'
<1>1. Typed /\ QueueOK /\ ExchangesOK /\ current \in DOMAIN exchanges
  BY DEF IInv, Typed
<1>2. SameLength /\ exchanges'[current] = y
  BY <1>1, Touched
<1>3. Shape'
  BY <1>1, <1>2 DEF Shape, SameLength, Typed
<1>4. QueueOK'
  BY <1>1, QueueStays
<1>5. HandlerOK'
  BY <1>2 DEF HandlerOK
<1>6. ExchangesOK'
  BY <1>1, ExchangesStay
<1>7. Recorded'
  BY <1>1, EntriesStay
<1> QED
  BY <1>3, <1>4, <1>5, <1>6, <1>7, Together

(* The first request of the queue is taken.                                *)
LEMMA TakingStep ==
    ASSUME IInv, waiting # <<>>, waiting' = Tail(waiting), gone' = gone,
           NEW m, m = Head(waiting), (pc' = "idle" /\ current' = current) \/ current' = m,
           NEW y \in Exchange, Touches(m, y),
           AnswerOK(y, m \in gone), HeadsOK(y),
           pc' \in {"idle", "calling", "stream", "deliver"},
           up' \in Upstream, parser' = parser,
           pc' = "idle" => up' = NoUpstream,
           pc' # "idle" => Handling(y, up', pc'),
           EntriesKept => Recorded'
    PROVE  IInv'
<1>1. Typed /\ QueueOK /\ ExchangesOK
  BY DEF IInv
<1>2. m \in DOMAIN exchanges /\ m \in Nat
  BY <1>1, FirstWaiting
<1>3. SameLength /\ exchanges'[m] = y
  BY <1>1, <1>2, Touched
<1>4. QueueOK' /\ waiting' \in Seq(Nat)
  BY <1>1, QueueMoves
<1>5. Shape'
  BY <1>1, <1>2, <1>3, <1>4 DEF Shape, SameLength, Typed
<1>6. HandlerOK'
  BY <1>3 DEF HandlerOK
<1>7. ExchangesOK'
  BY <1>1, <1>2, ExchangesStay
<1>8. Recorded'
  BY <1>1, <1>2, EntriesStay
<1> QED
  BY <1>4, <1>5, <1>6, <1>7, <1>8, Together

(* An exchange ends.                                                       *)
Ends502(x) == x.reply.kind = "error" \/ x.reply.body = Oversize

Abandoned(x, left) == left \/ x.broken \/ x.ask.target = "absolute"

LEMMA Ending ==
    ASSUME NEW x \in Exchange, NEW status \in Over, NEW left,
           AnswerOK(x, left), HeadsOK(x),
           status = "done" => x.got = Whole(x),
           status \in {"cut", "dropped"} => Abandoned(x, left),
           status = "502" => Ends502(x),
           status = "413" => x.ask.body = Oversize
    PROVE  \E y \in Exchange :
              /\ y = [x EXCEPT !.status = status]
              /\ y.ask = x.ask /\ y.sent = x.sent
              /\ AnswerOK(y, left) /\ HeadsOK(y)
<1>1. status \in Statuses
  BY DEF Over, Statuses
<1>2. PICK y \in Exchange : /\ y = [x EXCEPT !.status = status]
                            /\ y.ask = x.ask /\ y.sent = x.sent /\ y.status = status
                            /\ y.reply = x.reply /\ y.broken = x.broken
                            /\ y.answered = x.answered /\ y.got = x.got
  <2>1. [x EXCEPT !.status = status] \in Exchange
    BY <1>1 DEF Exchange
  <2> WITNESS [x EXCEPT !.status = status] \in Exchange
  <2> QED
    BY <1>1 DEF Exchange
<1>3. Whole(y) = Whole(x)
  BY <1>2 DEF Whole
<1>4. AnswerOK(y, left)
  BY <1>2, <1>3 DEF AnswerOK, Abandoned, Ends502
<1>5. HeadsOK(y)
  BY <1>2 DEF HeadsOK
<1> QED
  BY <1>2, <1>4, <1>5

LEMMA NoUpstreamType == NoUpstream \in Upstream
  BY EmptySeq DEF NoUpstream, Upstream

LEMMA ConcludeCurrent ==
    ASSUME IInv, pc # "idle", UNCHANGED <<waiting, gone, current>>,
           NEW status \in Over, Conclude(current, status),
           status = "done" => exchanges[current].got = Whole(exchanges[current]),
           status \in {"cut", "dropped"} =>
              Abandoned(exchanges[current], current \in gone),
           status = "502" => Ends502(exchanges[current]),
           status = "413" => exchanges[current].ask.body = Oversize,
           parser' \in GoodParser(AnyByte),
           EntriesKept => Recorded'
    PROVE  IInv'
<1> DEFINE x == exchanges[current]
<1>1. current \in DOMAIN exchanges /\ x \in Exchange
  BY Domains DEF IInv, Typed
<1>2. AnswerOK(x, current \in gone) /\ HeadsOK(x)
  BY <1>1 DEF IInv, ExchangesOK
<1>3. PICK y \in Exchange : /\ y = [x EXCEPT !.status = status]
                            /\ y.ask = x.ask /\ y.sent = x.sent
                            /\ AnswerOK(y, current \in gone) /\ HeadsOK(y)
  <2> HIDE DEF x
  <2> QED
    BY <1>1, <1>2, Ending DEF x
<1>4. Touches(current, y)
  BY <1>3 DEF Touches, Conclude
<1>5. pc' = "idle" /\ up' = NoUpstream /\ up' \in Upstream
  BY NoUpstreamType DEF Conclude
<1> QED
  BY <1>3, <1>4, <1>5, CurrentStep

LEMMA RefuseKeeps ==
    ASSUME IInv, Refuse
    PROVE  IInv'
<1> DEFINE m == Head(waiting)
           x == exchanges[m]
<1>1. pc = "idle" /\ waiting # <<>> /\ waiting' = Tail(waiting)
  BY DEF Refuse
<1>2. UNCHANGED <<gone, current, parser, pending, disk, trace, clock>>
  BY DEF Refuse
<1>3. m \in DOMAIN exchanges /\ m \in Nat
  BY <1>1, FirstWaiting DEF IInv
<1>4. x \in Exchange /\ AnswerOK(x, m \in gone) /\ HeadsOK(x)
  BY <1>3, Domains DEF IInv, ExchangesOK
<1>5. PICK status \in {"dropped", "413"} :
         /\ Conclude(m, status)
         /\ status = "dropped" => Abandoned(x, m \in gone)
         /\ status = "413" => x.ask.body = Oversize
  BY DEF Refuse, Abandoned
<1>6. PICK y \in Exchange : /\ y = [x EXCEPT !.status = status]
                            /\ y.ask = x.ask /\ y.sent = x.sent
                            /\ AnswerOK(y, m \in gone) /\ HeadsOK(y)
  <2>1. status \in Over
    BY DEF Over
  <2> HIDE DEF x
  <2> QED
    BY <1>4, <1>5, <2>1, Ending
<1>7. Touches(m, y)
  BY <1>5, <1>6 DEF Touches, Conclude
<1>8. pc' = "idle" /\ up' = NoUpstream /\ up' \in Upstream
  BY <1>5, NoUpstreamType DEF Conclude
<1>9. EntriesKept => Recorded'
  BY <1>2, Silent
<1> QED
  BY <1>1, <1>2, <1>6, <1>7, <1>8, <1>9, TakingStep

LEMMA ForwardKeeps ==
    ASSUME IInv, Forward
    PROVE  IInv'
<1> DEFINE x == exchanges[Head(waiting)]
           routing == CollectRequestRoutingMetadata(x.ask.head)
<1>1. PICK m \in Nat : m = Head(waiting) /\ m \in DOMAIN exchanges /\ Fresh(exchanges[m])
  BY FirstWaiting DEF Forward, IInv
<1>2. x \in Exchange /\ AnswerOK(x, m \in gone) /\ HeadsOK(x) /\ x = exchanges[m]
  BY <1>1, Domains DEF IInv, ExchangesOK
<1>3. x.ask.head \in Seq(Header) /\ x.ask.body \in AnyBody
  BY <1>2, RequestFacts DEF Exchange
<1>4. PICK sent \in Seq(Header) : sent = UpstreamHeaders(x.ask.head)
  <2>1. UpstreamHeaders(x.ask.head) \in Seq(Header)
    BY <1>3, UpstreamType
  <2> QED
    BY <2>1
<1>5. PICK y \in Exchange : /\ y = [x EXCEPT !.sent = sent]
                            /\ y.ask = x.ask /\ y.sent = sent
                            /\ y.reply = x.reply /\ y.broken = x.broken
                            /\ y.status = x.status
                            /\ y.answered = x.answered /\ y.got = x.got
  <2>1. [x EXCEPT !.sent = sent] \in Exchange
    BY <1>2, <1>4 DEF Exchange
  <2> HIDE DEF x
  <2> WITNESS [x EXCEPT !.sent = sent] \in Exchange
  <2> QED
    BY <1>2, <1>4 DEF Exchange
<1>6. current' = m /\ waiting # <<>> /\ waiting' = Tail(waiting) /\ gone' = gone
  BY <1>1 DEF Forward
<1>7. pc = "idle" /\ pc' = "calling" /\ parser' = parser
  BY DEF Forward
<1>8. up = NoUpstream /\ up' = [NoUpstream EXCEPT !.state = "asked"]
  BY <1>7 DEF Forward, IInv, HandlerOK
<1>9. Touches(m, y)
  BY <1>1, <1>2, <1>4, <1>5, <1>6 DEF Forward, Touches
<1>10. AnswerOK(y, m \in gone)
  <2>1. Whole(y) = Whole(x)
    BY <1>5 DEF Whole
  <2> QED
    BY <1>2, <1>5, <2>1 DEF AnswerOK
<1>11. HeadsOK(y)
  BY <1>2, <1>4, <1>5 DEF HeadsOK
<1>12. up' \in Upstream
  BY <1>8, EmptySeq DEF NoUpstream, Upstream
<1>13. Handling(y, up', pc')
  <2>1. /\ y.status = "waiting" /\ y.answered = None /\ y.got = <<>>
        /\ y.reply = NoReply
    BY <1>1, <1>2, <1>5 DEF Fresh
  <2>2. y.reply.kind = "none"
    BY <2>1 DEF NoReply
  <2>3. up'.state = "asked" /\ up'.left = <<>> /\ up'.ready = <<>>
    BY <1>8 DEF NoUpstream
  <2> QED
    BY <1>7, <2>1, <2>2, <2>3 DEF Handling
<1>14. ASSUME EntriesKept
       PROVE  Recorded'
  <2> DEFINE b == x.ask.body
             payloads == IF b = None THEN <<>> ELSE <<b>>
  <2>1. b # Oversize /\ ObserveBody(b, "c2s", routing)
    BY <1>1, <1>6 DEF Forward
  <2>2. Observe(m, payloads, "c2s", routing)
    BY <1>6, <2>1 DEF ObserveBody
  <2>3. payloads \in Seq(AnyPayload)
    BY <1>3, <2>1, BodyType
  <2>4. routing \in Routing
    BY <1>3, RoutingType
  <2>5. \A e \in Entries(m, "c2s", routing) : EntryOK(e)'
    <3>1. m \in DOMAIN exchanges' /\ exchanges'[m] = y
      BY <1>1, <1>9, Touched DEF SameLength, IInv
    <3>2. y.sent = UpstreamHeaders(y.ask.head)
           /\ routing = CollectRequestRoutingMetadata(y.ask.head)
      BY <1>4, <1>5
    <3> HIDE DEF routing
    <3> SUFFICES ASSUME NEW e \in Entries(m, "c2s", routing)
                 PROVE  EntryOK(e)'
      OBVIOUS
    <3>3. e.n = m /\ e.event.dir = "c2s" /\ e.routing = routing
      BY DEF Entries
    <3> QED
      BY <3>1, <3>2, <3>3 DEF EntryOK
  <2>6. "c2s" \in Directions
    BY DEF Directions
  <2> HIDE DEF routing, payloads
  <2> QED
    BY <1>14, <2>2, <2>3, <2>4, <2>5, <2>6, Recording
<1> QED
  BY <1>1, <1>6, <1>7, <1>9, <1>10, <1>11, <1>12, <1>13, <1>14, TakingStep

(* The exchange being handled.                                             *)
LEMMA CurrentFacts ==
    ASSUME IInv, pc # "idle"
    PROVE  /\ current \in DOMAIN exchanges /\ current \in Nat
           /\ exchanges[current] \in Exchange
           /\ AnswerOK(exchanges[current], current \in gone)
           /\ HeadsOK(exchanges[current])
           /\ Handling(exchanges[current], up, pc)
           /\ exchanges[current].reply \in AllReplies
           /\ up \in Upstream /\ parser \in GoodParser(AnyByte)
<1>1. current \in DOMAIN exchanges /\ current \in Nat
  BY DEF IInv, Typed
<1>2. exchanges[current] \in Exchange
  BY <1>1, Domains DEF IInv
<1> QED
  BY <1>1, <1>2 DEF IInv, ExchangesOK, HandlerOK, Typed, Exchange

LEMMA GivenUpKeeps ==
    ASSUME IInv, BadGateway \/ LoseDirect \/ DeliverFails \/ ReadFails
    PROVE  IInv'
<1> DEFINE x == exchanges[current]
<1>1. pc # "idle"
  BY DEF BadGateway, LoseDirect, DeliverFails, ReadFails, Replied
<1>2. UNCHANGED <<waiting, gone, current, parser, pending, disk, trace, clock>>
  BY DEF BadGateway, LoseDirect, DeliverFails, ReadFails
<1>3. up.state = "broken" => x.broken
  BY <1>1, CurrentFacts DEF Handling
<1>4. PICK status \in {"502", "dropped", "cut"} :
         /\ Conclude(current, status)
         /\ status \in {"cut", "dropped"} => Abandoned(x, current \in gone)
         /\ status = "502" => Ends502(x)
  <2>1. CASE BadGateway
    BY <2>1 DEF BadGateway, Replied, Ends502
  <2>2. CASE LoseDirect
    BY <1>3, <2>2 DEF LoseDirect, Abandoned, Ends502
  <2>3. CASE DeliverFails
    BY <2>3 DEF DeliverFails, Abandoned
  <2>4. CASE ReadFails
    BY <1>3, <2>4 DEF ReadFails, Abandoned
  <2> QED
    BY <2>1, <2>2, <2>3, <2>4
<1>5. status \in Over
  BY DEF Over
<1>6. parser' \in GoodParser(AnyByte)
  BY <1>1, <1>2, CurrentFacts
<1>7. EntriesKept => Recorded'
  BY <1>2, Silent
<1> QED
  BY <1>1, <1>2, <1>4, <1>5, <1>6, <1>7, ConcludeCurrent

(* An answer is observed.                                                  *)
LEMMA AnswerRecorded ==
    ASSUME IInv, pc # "idle", NEW payloads \in Seq(AnyPayload),
           Observe(current, payloads, "s2c", NoRouting),
           DOMAIN exchanges' = DOMAIN exchanges, EntriesKept
    PROVE  Recorded'
<1>1. PICK n \in Nat : n = current /\ n \in DOMAIN exchanges'
  BY CurrentFacts
<1>2. Observe(n, payloads, "s2c", NoRouting)
  BY <1>1
<1>3. \A e \in Entries(n, "s2c", NoRouting) : EntryOK(e)'
  BY <1>1, AnswerEntries
<1>4. "s2c" \in Directions
  BY DEF Directions
<1> QED
  BY <1>2, <1>3, <1>4, NoRoutingType, Recording

LEMMA AnswerDirectKeeps ==
    ASSUME IInv, AnswerDirect
    PROVE  IInv'
<1> DEFINE x == exchanges[current]
           r == x.reply
<1>1. pc = "calling" /\ r.kind = "direct" /\ r.body # Oversize
  BY DEF AnswerDirect, Replied
<1>2. UNCHANGED <<waiting, gone, current, parser>> /\ pc' = "idle" /\ up' = NoUpstream
  BY DEF AnswerDirect
<1>3. /\ x \in Exchange /\ AnswerOK(x, current \in gone) /\ HeadsOK(x)
      /\ current \in DOMAIN exchanges
      /\ r \in AllReplies /\ parser \in GoodParser(AnyByte)
  BY <1>1, CurrentFacts
<1>4. r.head \in Seq(Header) /\ r.body \in AnyBody
  BY <1>3, ReplyFacts
<1>5. PICK answered \in Seq(Header) : answered = CollectResponseHeaders(r.head)
  <2>1. CollectResponseHeaders(r.head) \in Seq(Header)
    BY <1>4, ResponseSet
  <2> QED
    BY <2>1
<1>6. \E y \in Exchange : /\ Touches(current, y)
                          /\ AnswerOK(y, current \in gone) /\ HeadsOK(y)
  <2>1. CASE exchanges' = [exchanges EXCEPT ![current].status = "done",
                   ![current].answered = CollectResponseHeaders(r.head),
                   ![current].got = <<r.body>>]
    <3>1. PICK got \in Seq(Gift) : got = <<r.body>>
      <4>1. PICK b \in Gift : b = r.body
        BY <1>4 DEF Gift
      <4>2. <<b>> \in Seq(Gift)
        OBVIOUS
      <4> QED
        BY <4>1, <4>2
    <3>2. PICK y \in Exchange :
             /\ y = [x EXCEPT !.status = "done", !.answered = answered, !.got = got]
             /\ y.ask = x.ask /\ y.sent = x.sent /\ y.status = "done"
             /\ y.reply = x.reply /\ y.answered = answered /\ y.got = got
      <4>1. [x EXCEPT !.status = "done", !.answered = answered, !.got = got] \in Exchange
        BY <1>3 DEF Exchange, Statuses
      <4> HIDE DEF x
      <4> WITNESS [x EXCEPT !.status = "done", !.answered = answered, !.got = got] \in Exchange
      <4> QED
        BY <1>3 DEF Exchange
    <3>3. exchanges' = [exchanges EXCEPT ![current] = y]
      BY <1>3, <1>5, <2>1, <3>1, <3>2
    <3>4. Whole(y) = got
      BY <1>1, <3>1, <3>2 DEF Whole
    <3>5. IsPrefix(got, got)
      <4>1. got \o <<>> = got
        BY ConcatEmptySeq
      <4> QED
        BY <4>1, PrefixOfConcat, EmptySeq
    <3>6. AnswerOK(y, current \in gone)
      BY <3>2, <3>4, <3>5 DEF AnswerOK
    <3>7. HeadsOK(y)
      BY <1>3, <1>5, <3>2 DEF HeadsOK
    <3>8. Touches(current, y)
      BY <3>2, <3>3 DEF Touches
    <3> QED
      BY <3>6, <3>7, <3>8
  <2>2. CASE current \in gone /\ exchanges' = [exchanges EXCEPT ![current].status = "cut"]
    <3>1. PICK y \in Exchange : /\ y = [x EXCEPT !.status = "cut"]
                                /\ y.ask = x.ask /\ y.sent = x.sent
                                /\ AnswerOK(y, current \in gone) /\ HeadsOK(y)
      <4>1. "cut" \in Over
        BY DEF Over
      <4> HIDE DEF x
      <4> QED
        BY <1>3, <2>2, <4>1, Ending DEF Abandoned
    <3>2. Touches(current, y)
      BY <2>2, <3>1 DEF Touches
    <3> QED
      BY <3>1, <3>2
  <2> QED
    BY <2>1, <2>2 DEF AnswerDirect
<1>7. PICK y \in Exchange : /\ Touches(current, y)
                            /\ AnswerOK(y, current \in gone) /\ HeadsOK(y)
  BY <1>6
<1>8. ASSUME EntriesKept
      PROVE  Recorded'
  <2> DEFINE payloads == IF r.body = None THEN <<>> ELSE <<r.body>>
  <2>1. ObserveBody(r.body, "s2c", NoRouting)
    BY DEF AnswerDirect
  <2>2. Observe(current, payloads, "s2c", NoRouting)
    BY <1>2, <2>1 DEF ObserveBody
  <2>3. payloads \in Seq(AnyPayload)
    BY <1>1, <1>4, BodyType
  <2>4. DOMAIN exchanges' = DOMAIN exchanges
    BY <1>7 DEF Touches
  <2> HIDE DEF payloads
  <2> QED
    BY <1>1, <1>8, <2>2, <2>3, <2>4, AnswerRecorded
<1>9. up' \in Upstream /\ parser' \in GoodParser(AnyByte)
  BY <1>2, <1>3, NoUpstreamType
<1> QED
  BY <1>1, <1>2, <1>7, <1>8, <1>9, CurrentStep

LEMMA StartStreamKeeps ==
    ASSUME IInv, StartStream
    PROVE  IInv'
<1> DEFINE x == exchanges[current]
<1>1. pc = "calling" /\ x.reply.kind = "stream" /\ pc' = "stream"
  BY DEF StartStream, Replied
<1>2. UNCHANGED <<waiting, gone, current, up, pending, disk, trace, clock>>
  BY DEF StartStream
<1>3. /\ x \in Exchange /\ AnswerOK(x, current \in gone) /\ HeadsOK(x)
      /\ Handling(x, up, pc) /\ up \in Upstream /\ x.reply \in AllReplies
  BY <1>1, CurrentFacts
<1>4. PICK answered \in Seq(Header) : answered = CollectResponseHeaders(x.reply.head)
  <2>1. x.reply.head \in Seq(Header)
    BY <1>3, ReplyFacts
  <2>2. CollectResponseHeaders(x.reply.head) \in Seq(Header)
    BY <2>1, ResponseSet
  <2> QED
    BY <2>2
<1>5. PICK y \in Exchange :
         /\ y = [x EXCEPT !.status = "stream", !.answered = answered]
         /\ y.ask = x.ask /\ y.sent = x.sent /\ y.status = "stream"
         /\ y.reply = x.reply /\ y.answered = answered /\ y.got = x.got
         /\ y.broken = x.broken
  <2>1. [x EXCEPT !.status = "stream", !.answered = answered] \in Exchange
    BY <1>3 DEF Exchange, Statuses
  <2> HIDE DEF x
  <2> WITNESS [x EXCEPT !.status = "stream", !.answered = answered] \in Exchange
  <2> QED
    BY <1>3 DEF Exchange
<1>6. exchanges' = [exchanges EXCEPT ![current] = y]
  BY <1>4, <1>5 DEF StartStream
<1>7. Touches(current, y)
  BY <1>5, <1>6 DEF Touches
<1>8. AnswerOK(y, current \in gone)
  <2>1. Whole(y) = Whole(x)
    BY <1>5 DEF Whole
  <2> QED
    BY <1>3, <1>5, <2>1 DEF AnswerOK
<1>9. HeadsOK(y)
  BY <1>3, <1>4, <1>5 DEF HeadsOK
<1>10. Handling(y, up', pc')
  <2>1. up.state # "asked"
    BY <1>1, <1>3 DEF Handling, NoReply
  <2>2. Between(y, up) = Between(x, up)
    BY <1>5 DEF Between
  <2> QED
    BY <1>1, <1>2, <1>3, <1>5, <2>1, <2>2 DEF Handling
<1>11. EntriesKept => Recorded'
  BY <1>2, Silent
<1>12. parser' \in GoodParser(AnyByte) /\ up' \in Upstream
  BY <1>2, <1>3, NewParserGood DEF StartStream
<1> QED
  BY <1>1, <1>2, <1>7, <1>8, <1>9, <1>10, <1>11, <1>12, CurrentStep

(* A step that leaves the exchanges alone.                                 *)
LEMMA SameExchange ==
    ASSUME IInv, pc # "idle", exchanges' = exchanges
    PROVE  Touches(current, exchanges[current])
<1>1. exchanges = [exchanges EXCEPT ![current] = exchanges[current]]
  <2>1. exchanges \in [DOMAIN exchanges -> Exchange]
    BY LenProperties DEF IInv, Typed
  <2> QED
    BY <2>1
<1> QED
  BY <1>1 DEF Touches

LEMMA ReadChunkKeeps ==
    ASSUME IInv, ReadChunk
    PROVE  IInv'
<1> DEFINE x == exchanges[current]
<1>1. /\ pc = "stream" /\ pc' = "deliver" /\ up.ready # <<>>
      /\ UNCHANGED <<exchanges, waiting, gone, current, up>>
  BY DEF ReadChunk
<1>2. /\ x \in Exchange /\ AnswerOK(x, current \in gone) /\ HeadsOK(x)
      /\ Handling(x, up, pc) /\ up \in Upstream /\ parser \in GoodParser(AnyByte)
  BY <1>1, CurrentFacts
<1>3. PICK q \in GoodParser(AnyByte) : q = Push(parser, up.ready)
  <2>1. up.ready \in Seq(AnyByte)
    BY <1>2 DEF Upstream
  <2>2. Push(parser, up.ready) \in GoodParser(AnyByte)
    BY <1>2, <2>1, StreamBytes, PushGood
  <2> QED
    BY <2>2
<1>4. parser' = q /\ Observe(current, JsonRpc(parser'.events), "s2c", NoRouting)
  BY <1>3 DEF ReadChunk
<1>5. ASSUME EntriesKept
      PROVE  Recorded'
  <2>1. q.events \in Seq(Seq(AnyByte))
    BY DEF GoodParser, AnyParser
  <2>2. JsonRpc(q.events) \in Seq(AnyPayload)
    BY <2>1, JsonRpcType
  <2>3. Observe(current, JsonRpc(q.events), "s2c", NoRouting)
    BY <1>4
  <2> QED
    BY <1>1, <1>5, <2>2, <2>3, AnswerRecorded
<1>6. Handling(x, up', pc')
  BY <1>1, <1>2 DEF Handling
<1>7. Touches(current, x)
  BY <1>1, SameExchange
<1> QED
  BY <1>1, <1>2, <1>4, <1>5, <1>6, <1>7, CurrentStep

(* Bytes on their way.                                                     *)
LEMMA BetweenParts ==
    ASSUME NEW x \in Exchange, NEW u \in Upstream
    PROVE  /\ x.got \in Seq(Gift) /\ u.ready \in Seq(Gift)
           /\ u.left \in Seq(Seq(AnyByte)) /\ FlattenSeq(u.left) \in Seq(Gift)
<1>1. AnyByte \subseteq Gift
  BY StreamBytes
<1>2. u.left \in Seq(Seq(AnyByte)) /\ u.ready \in Seq(AnyByte) /\ x.got \in Seq(Gift)
  BY DEF Upstream, Exchange
<1>3. FlattenSeq(u.left) \in Seq(AnyByte)
  BY <1>2, FlattenType
<1> QED
  BY <1>1, <1>2, <1>3, SeqMonotonic

LEMMA CatNothing ==
    ASSUME NEW S, NEW s \in Seq(S)
    PROVE  Cat(s, <<>>) = s /\ Cat(<<>>, s) = s
  BY ConcatEmptySeq DEF Cat

LEMMA DeliverKeeps ==
    ASSUME IInv, Deliver
    PROVE  IInv'
<1> DEFINE x == exchanges[current]
<1>1. pc = "deliver" /\ pc' = "stream" /\ up' = [up EXCEPT !.ready = <<>>]
  BY DEF Deliver
<1>2. UNCHANGED <<waiting, gone, current, parser, pending, disk, trace, clock>>
  BY DEF Deliver
<1>3. /\ x \in Exchange /\ AnswerOK(x, current \in gone) /\ HeadsOK(x)
      /\ Handling(x, up, pc) /\ up \in Upstream /\ parser \in GoodParser(AnyByte)
  BY <1>1, CurrentFacts
<1>4. PICK g \in Seq(Gift), r \in Seq(Gift), f \in Seq(Gift) :
         g = x.got /\ r = up.ready /\ f = FlattenSeq(up.left)
  BY <1>3, BetweenParts
<1>5. PICK got \in Seq(Gift) : got = Cat(g, r)
  BY CatClosed
<1>6. PICK y \in Exchange :
         /\ y = [x EXCEPT !.got = got]
         /\ y.ask = x.ask /\ y.sent = x.sent /\ y.status = x.status
         /\ y.reply = x.reply /\ y.answered = x.answered /\ y.got = got
         /\ y.broken = x.broken
  <2>1. [x EXCEPT !.got = got] \in Exchange
    BY <1>3 DEF Exchange
  <2> HIDE DEF x
  <2> WITNESS [x EXCEPT !.got = got] \in Exchange
  <2> QED
    BY <1>3 DEF Exchange
<1>7. exchanges' = [exchanges EXCEPT ![current] = y]
  BY <1>4, <1>5, <1>6 DEF Deliver, Cat
<1>8. Touches(current, y)
  BY <1>6, <1>7 DEF Touches
<1>9. PICK d \in Seq(AnyByte) : d = <<>>
  BY EmptySeq
<1>10. PICK u \in Upstream : /\ u = up' /\ u.state = up.state
                             /\ u.left = up.left /\ u.ready = d
  <2>1. [up EXCEPT !.ready = d] \in Upstream
    BY <1>3 DEF Upstream
  <2>2. PICK u \in Upstream : u = [up EXCEPT !.ready = d]
    BY <2>1
  <2>3. u.state = up.state /\ u.left = up.left /\ u.ready = d
    BY <1>3, <2>2 DEF Upstream
  <2> QED
    BY <1>1, <1>9, <2>2, <2>3
<1>11. /\ x.status = "stream" /\ x.reply.kind = "stream"
       /\ Cat(g, Cat(r, f)) = FlattenSeq(x.reply.chunks)
       /\ up.state # "asked" /\ up.state # "none"
       /\ (up.state = "closed" => up.left = <<>>)
       /\ (up.state = "broken" => x.broken)
  BY <1>1, <1>3, <1>4 DEF Handling, Between
<1>12. Cat(got, f) = FlattenSeq(x.reply.chunks)
  BY <1>5, <1>11, CatAssociative
<1>13. Between(y, u) = FlattenSeq(y.reply.chunks)
  <2>1. Cat(u.ready, FlattenSeq(u.left)) = f
    BY <1>4, <1>9, <1>10, CatNothing
  <2> QED
    BY <1>6, <1>12, <2>1 DEF Between
<1>14. AnswerOK(y, current \in gone)
  <2>1. Whole(y) = Cat(got, f)
    BY <1>6, <1>11, <1>12 DEF Whole
  <2>2. IsPrefix(y.got, Whole(y))
    BY <1>6, <2>1, PrefixOfConcat DEF Cat
  <2> QED
    BY <1>6, <1>11, <2>2 DEF AnswerOK
<1>15. HeadsOK(y)
  BY <1>3, <1>6 DEF HeadsOK
<1>16. Handling(y, up', pc')
  BY <1>1, <1>6, <1>10, <1>11, <1>13 DEF Handling
<1>17. EntriesKept => Recorded'
  BY <1>2, Silent
<1> QED
  BY <1>1, <1>2, <1>3, <1>8, <1>10, <1>14, <1>15, <1>16, <1>17, CurrentStep

LEMMA ReadEndKeeps ==
    ASSUME IInv, ReadEnd
    PROVE  IInv'
<1> DEFINE x == exchanges[current]
<1>1. /\ pc = "stream" /\ up.ready = <<>> /\ up.state = "closed"
      /\ UNCHANGED <<waiting, gone, current>> /\ Conclude(current, "done")
  BY DEF ReadEnd
<1>2. /\ x \in Exchange /\ Handling(x, up, pc) /\ up \in Upstream
      /\ parser \in GoodParser(AnyByte)
  BY <1>1, CurrentFacts
<1>3. PICK q \in GoodParser(AnyByte) : q = Finish(parser)
  BY <1>2, StreamBytes, FinishGood
<1>4. parser' = q /\ Observe(current, JsonRpc(parser'.events), "s2c", NoRouting)
  BY <1>3 DEF ReadEnd
<1>5. x.got = Whole(x)
  <2>1. /\ x.reply.kind = "stream" /\ up.left = <<>>
        /\ Between(x, up) = FlattenSeq(x.reply.chunks)
    BY <1>1, <1>2 DEF Handling
  <2>2. FlattenSeq(up.left) = <<>>
    BY <2>1, FlattenEmpty
  <2>3. Between(x, up) = x.got
    <3>1. x.got \in Seq(Gift) /\ <<>> \in Seq(Gift)
      BY <1>2, EmptySeq DEF Exchange
    <3> QED
      BY <1>1, <2>2, <3>1, CatNothing DEF Between
  <2> QED
    BY <2>1, <2>3 DEF Whole
<1>6. ASSUME EntriesKept
      PROVE  Recorded'
  <2>1. q.events \in Seq(Seq(AnyByte))
    BY DEF GoodParser, AnyParser
  <2>2. JsonRpc(q.events) \in Seq(AnyPayload)
    BY <2>1, JsonRpcType
  <2>3. Observe(current, JsonRpc(q.events), "s2c", NoRouting)
    BY <1>4
  <2>4. DOMAIN exchanges' = DOMAIN exchanges
    BY <1>1 DEF Conclude
  <2> QED
    BY <1>1, <1>6, <2>2, <2>3, <2>4, AnswerRecorded
<1>7. "done" \in Over
  BY DEF Over
<1> QED
  BY <1>1, <1>4, <1>5, <1>6, <1>7, ConcludeCurrent

-----------------------------------------------------------------------------
(* The steps of clients, of the upstream and of the disk.                  *)
LEMMA SendKeeps ==
    ASSUME IInv, Send
    PROVE  IInv'
<1>1. PICK k \in Nat, l \in Nat : k = Len(exchanges) /\ l = Len(waiting)
  BY Domains DEF IInv
<1>2. k < MaxRequests /\ MaxRequests \in Nat /\ l <= k
  BY <1>1, HttpProxyAssumption DEF Send, IInv, QueueOK
<1>3. PICK q \in Requests : exchanges' = Append(exchanges,
             [ask |-> q, sent |-> None, reply |-> NoReply, broken |-> FALSE,
              status |-> "waiting", answered |-> None, got |-> <<>>])
  BY DEF Send
<1>4. PICK y \in Exchange : /\ exchanges' = Append(exchanges, y)
                            /\ Fresh(y)
  <2>1. PICK got \in Seq(Gift) : got = <<>>
    BY EmptySeq
  <2>2. PICK y \in Exchange :
           y = [ask |-> q, sent |-> None, reply |-> NoReply, broken |-> FALSE,
                status |-> "waiting", answered |-> None, got |-> got]
    BY DEF Exchange, AllReplies, Statuses
  <2> QED
    BY <1>3, <2>1, <2>2 DEF Fresh
<1>5. UNCHANGED <<gone, pc, current, up, parser, pending, disk, trace, clock>>
  BY DEF Send
<1>6. waiting' = Append(waiting, Len(exchanges'))
  BY DEF Send
<1>7. /\ exchanges' \in Seq(Exchange) /\ Len(exchanges') = k + 1
      /\ DOMAIN exchanges' = 1..(k + 1) /\ DOMAIN exchanges = 1..k
      /\ exchanges'[k + 1] = y
      /\ \A n \in 1..k : exchanges'[n] = exchanges[n]
  <2>1. exchanges \in Seq(Exchange)
    BY DEF IInv, Typed
  <2> QED
    BY <1>1, <1>4, <2>1, AppendProperties, LenProperties
<1>8. /\ waiting' \in Seq(Nat) /\ Len(waiting') = l + 1
      /\ DOMAIN waiting' = 1..(l + 1) /\ DOMAIN waiting = 1..l
      /\ waiting'[l + 1] = k + 1
      /\ \A i \in 1..l : waiting'[i] = waiting[i]
  <2>1. waiting \in Seq(Nat) /\ waiting' = Append(waiting, k + 1)
    BY <1>6, <1>7 DEF IInv, Typed
  <2> QED
    BY <1>1, <2>1, AppendProperties, LenProperties
<1>9. Taken' = Taken /\ Taken = k - l
  BY <1>1, <1>7, <1>8 DEF Taken
<1>10. Shape'
  <2>1. Typed
    BY DEF IInv
  <2> QED
    BY <1>5, <1>7, <1>8, <2>1 DEF Shape, Typed
<1>11. QueueOK'
  <2>1. QueueOK
    BY DEF IInv
  <2>2. \A i \in 1..(l + 1) : waiting'[i] = Taken + i
    <3> SUFFICES ASSUME NEW i \in 1..(l + 1)
                 PROVE  waiting'[i] = Taken + i
      OBVIOUS
    <3>1. CASE i \in 1..l
      BY <1>8, <2>1, <3>1 DEF QueueOK
    <3>2. CASE i = l + 1
      BY <1>8, <1>9, <3>2
    <3> QED
      BY <3>1, <3>2
  <2>3. \A n \in 1..(k + 1) : n > Taken => Fresh(exchanges'[n])
    <3> SUFFICES ASSUME NEW n \in 1..(k + 1), n > Taken
                 PROVE  Fresh(exchanges'[n])
      OBVIOUS
    <3>1. CASE n \in 1..k
      BY <1>7, <2>1, <3>1 DEF QueueOK
    <3>2. CASE n = k + 1
      BY <1>4, <1>7, <3>2
    <3> QED
      BY <3>1, <3>2
  <2>4. pc' # "idle" => current' <= Taken
    BY <1>5, <2>1 DEF QueueOK
  <2> QED
    BY <1>2, <1>7, <1>8, <1>9, <2>2, <2>3, <2>4 DEF QueueOK
<1>12. HandlerOK'
  <2>1. pc # "idle" => current \in 1..k
    BY <1>7 DEF IInv, Typed
  <2> QED
    BY <1>5, <1>7, <2>1 DEF HandlerOK, IInv
<1>13. ExchangesOK'
  <2> SUFFICES ASSUME NEW n \in 1..(k + 1)
               PROVE  AnswerOK(exchanges'[n], n \in gone) /\ HeadsOK(exchanges'[n])
    BY <1>5, <1>7 DEF ExchangesOK
  <2>1. CASE n \in 1..k
    BY <1>7, <2>1 DEF IInv, ExchangesOK
  <2>2. CASE n = k + 1
    <3>1. IsPrefix(y.got, Whole(y))
      <4>1. /\ y.got = <<>> /\ Whole(y) = <<None>>
        BY <1>4 DEF Fresh, Whole, NoReply
      <4>2. <<>> \in Seq({None}) /\ <<None>> \in Seq({None})
        BY EmptySeq
      <4>3. <<>> \o <<None>> = <<None>>
        BY <4>2, ConcatEmptySeq
      <4> QED
        BY <4>1, <4>2, <4>3, PrefixOfConcat
    <3> QED
      BY <1>4, <1>7, <2>2, <3>1 DEF Fresh, AnswerOK, HeadsOK
  <2> QED
    BY <2>1, <2>2
<1>14. EntriesKept
  <2>1. \A e \in Entry : EntryOK(e) => e.n \in 1..k
    BY <1>7 DEF EntryOK
  <2> QED
    BY <1>7, <2>1 DEF EntriesKept, EntryOK
<1>15. Recorded'
  BY <1>5, <1>14, Silent
<1> QED
  BY <1>10, <1>11, <1>12, <1>13, <1>15, Together

(* A client hangs up, the disk fills: nothing happens to an exchange.      *)
LEMMA AroundKeeps ==
    ASSUME IInv, UNCHANGED <<exchanges, waiting, pc, current, up, parser, pending,
                             trace, clock>>,
           gone \subseteq gone', gone' \subseteq DOMAIN exchanges,
           disk' = disk \/ disk' = "full"
    PROVE  IInv'
<1>1. Shape'
  BY DEF IInv, Typed, Shape
<1>2. QueueOK'
  BY DEF IInv, QueueOK, Taken
<1>3. HandlerOK'
  BY DEF IInv, HandlerOK
<1>4. ExchangesOK'
  <2> SUFFICES ASSUME NEW n \in DOMAIN exchanges
               PROVE  AnswerOK(exchanges[n], n \in gone') /\ HeadsOK(exchanges[n])
    BY DEF ExchangesOK
  <2>1. AnswerOK(exchanges[n], n \in gone) /\ HeadsOK(exchanges[n])
    BY DEF IInv, ExchangesOK
  <2> QED
    BY <2>1 DEF AnswerOK
<1>5. EntriesKept
  BY DEF EntriesKept, EntryOK
<1>6. Recorded'
  BY <1>5, Silent
<1> QED
  BY <1>1, <1>2, <1>3, <1>4, <1>6, Together

LEMMA UpstreamRepliesKeeps ==
    ASSUME IInv, UpstreamReplies
    PROVE  IInv'
<1> DEFINE x == exchanges[current]
<1>1. UNCHANGED <<waiting, gone, pc, current, parser, pending, disk, trace, clock>>
      /\ up.state = "asked"
  BY DEF UpstreamReplies
<1>2. pc # "idle"
  BY <1>1 DEF IInv, HandlerOK, NoUpstream
<1>3. /\ x \in Exchange /\ AnswerOK(x, current \in gone) /\ HeadsOK(x)
      /\ current \in DOMAIN exchanges
      /\ Handling(x, up, pc) /\ up \in Upstream /\ parser \in GoodParser(AnyByte)
  BY <1>2, CurrentFacts
<1>4. PICK r \in Replies[x.ask] :
         /\ up' = [up EXCEPT !.state = "sending", !.left = r.chunks]
         /\ exchanges' = [exchanges EXCEPT ![current].reply = r]
  BY DEF UpstreamReplies
<1>5. r \in AllReplies /\ r.chunks \in Seq(Seq(AnyByte))
  <2>1. r \in AllReplies
    BY <1>3 DEF Exchange, AllReplies
  <2> QED
    BY <2>1, ReplyFacts
<1>6. PICK y \in Exchange :
         /\ y = [x EXCEPT !.reply = r]
         /\ y.ask = x.ask /\ y.sent = x.sent /\ y.status = x.status
         /\ y.reply = r /\ y.answered = x.answered /\ y.got = x.got
         /\ y.broken = x.broken
  <2>1. [x EXCEPT !.reply = r] \in Exchange
    BY <1>3, <1>5 DEF Exchange
  <2> HIDE DEF x
  <2> WITNESS [x EXCEPT !.reply = r] \in Exchange
  <2> QED
    BY <1>3, <1>5 DEF Exchange
<1>7. Touches(current, y)
  BY <1>4, <1>6 DEF Touches
<1>8. PICK u \in Upstream : /\ u = up' /\ u.state = "sending"
                            /\ u.left = r.chunks /\ u.ready = up.ready
  <2>1. PICK c \in Seq(Seq(AnyByte)) : c = r.chunks
    BY <1>5
  <2>2. PICK u \in Upstream : /\ u = [up EXCEPT !.state = "sending", !.left = c]
                              /\ u.state = "sending" /\ u.left = c /\ u.ready = up.ready
    <3>1. [up EXCEPT !.state = "sending", !.left = c] \in Upstream
      BY <1>3 DEF Upstream
    <3> WITNESS [up EXCEPT !.state = "sending", !.left = c] \in Upstream
    <3> QED
      BY <1>3 DEF Upstream
  <2> QED
    BY <1>4, <2>1, <2>2
<1>9. /\ pc = "calling" /\ x.status = "waiting" /\ x.answered = None /\ x.got = <<>>
      /\ up.ready = <<>>
  BY <1>1, <1>3 DEF Handling
<1>10. FlattenSeq(r.chunks) \in Seq(AnyByte)
  BY <1>5, FlattenType
<1>11. AnswerOK(y, current \in gone)
  <2>1. PICK S : Whole(y) \in Seq(S)
    <3>1. CASE r.kind = "stream"
      BY <1>6, <1>10, <3>1 DEF Whole
    <3>2. CASE r.kind # "stream"
      <4>1. Whole(y) \in Seq({r.body})
        BY <1>6, <3>2 DEF Whole
      <4> QED
        BY <4>1
    <3> QED
      BY <3>1, <3>2
  <2>2. PICK w \in Seq(S) : w = Whole(y)
    BY <2>1
  <2>3. <<>> \in Seq(S) /\ <<>> \o w = w
    BY EmptySeq, ConcatEmptySeq
  <2>4. IsPrefix(<<>>, w)
    BY <2>3, PrefixOfConcat
  <2> QED
    BY <1>6, <1>9, <2>2, <2>4 DEF AnswerOK
<1>12. HeadsOK(y)
  BY <1>3, <1>6, <1>9 DEF HeadsOK
<1>13. Between(y, u) = FlattenSeq(r.chunks)
  BY <1>6, <1>8, <1>9, <1>10, CatNothing DEF Between
<1>14. Handling(y, up', pc')
  BY <1>1, <1>6, <1>8, <1>9, <1>13 DEF Handling
<1>15. EntriesKept => Recorded'
  BY <1>1, Silent
<1> QED
  BY <1>1, <1>2, <1>3, <1>7, <1>8, <1>9, <1>11, <1>12, <1>14, <1>15, CurrentStep

LEMMA UpstreamMovesKeeps ==
    ASSUME IInv, UpstreamSends \/ UpstreamCloses
    PROVE  IInv'
<1> DEFINE x == exchanges[current]
<1>1. UNCHANGED <<exchanges, waiting, gone, pc, current, parser, pending, disk, trace,
                  clock>> /\ up.state = "sending"
  BY DEF UpstreamSends, UpstreamCloses
<1>2. pc # "idle"
  BY <1>1 DEF IInv, HandlerOK, NoUpstream
<1>3. /\ x \in Exchange /\ AnswerOK(x, current \in gone) /\ HeadsOK(x)
      /\ Handling(x, up, pc) /\ up \in Upstream /\ parser \in GoodParser(AnyByte)
  BY <1>2, CurrentFacts
<1>4. \E u \in Upstream :
         /\ u = up' /\ u.state \in {"sending", "closed"}
         /\ (u.state = "closed" => u.left = <<>>)
         /\ Between(x, u) = Between(x, up)
         /\ (pc = "deliver" => u.ready # <<>>)
  <2>1. CASE UpstreamSends
    <3>1. up.left \in Seq(Seq(AnyByte)) /\ up.left # <<>> /\ up.ready = <<>>
      BY <1>3, <2>1 DEF Upstream, UpstreamSends
    <3>2. PICK h \in Seq(AnyByte), t \in Seq(Seq(AnyByte)) : h = Head(up.left) /\ t = Tail(up.left)
      BY <3>1, HeadTailProperties
    <3>3. PICK u \in Upstream : /\ u = [up EXCEPT !.ready = h, !.left = t]
                                /\ u.state = up.state /\ u.left = t /\ u.ready = h
      <4>1. [up EXCEPT !.ready = h, !.left = t] \in Upstream
        BY <1>3, <3>2 DEF Upstream
      <4> WITNESS [up EXCEPT !.ready = h, !.left = t] \in Upstream
      <4> QED
        BY <1>3, <3>2 DEF Upstream
    <3>4. u = up'
      BY <2>1, <3>2, <3>3 DEF UpstreamSends
    <3>5. FlattenSeq(up.left) = Cat(h, FlattenSeq(t)) /\ FlattenSeq(up.left) \in Seq(AnyByte)
      BY <3>1, <3>2, FlattenHeadTail, FlattenType
    <3>6. Cat(up.ready, FlattenSeq(up.left)) = Cat(u.ready, FlattenSeq(u.left))
      BY <3>1, <3>3, <3>5, CatNothing
    <3>7. Between(x, u) = Between(x, up)
      BY <3>6 DEF Between
    <3>8. pc # "deliver"
      BY <1>3, <3>1 DEF Handling
    <3> QED
      BY <1>1, <3>3, <3>4, <3>7, <3>8
  <2>2. CASE UpstreamCloses
    <3>1. up' = [up EXCEPT !.state = "closed"] /\ up.left = <<>>
      BY <2>2 DEF UpstreamCloses
    <3>2. PICK u \in Upstream : /\ u = up' /\ u.state = "closed"
                                /\ u.left = up.left /\ u.ready = up.ready
      BY <1>3, <3>1 DEF Upstream
    <3>3. Between(x, u) = Between(x, up)
      BY <3>2 DEF Between
    <3> QED
      BY <1>3, <3>1, <3>2, <3>3 DEF Handling
  <2> QED
    BY <2>1, <2>2
<1>5. Handling(x, up', pc')
  BY <1>1, <1>3, <1>4 DEF Handling
<1>6. Touches(current, x)
  BY <1>1, <1>2, SameExchange
<1>7. EntriesKept => Recorded'
  BY <1>1, Silent
<1>8. pc' \in {"idle", "calling", "stream", "deliver"}
  BY <1>1 DEF IInv, Typed
<1> QED
  BY <1>1, <1>2, <1>3, <1>4, <1>5, <1>6, <1>7, <1>8, CurrentStep

LEMMA UpstreamBreaksKeeps ==
    ASSUME IInv, UpstreamBreaks
    PROVE  IInv'
<1> DEFINE x == exchanges[current]
<1>1. /\ UNCHANGED <<waiting, gone, pc, current, parser, pending, disk, trace, clock>>
      /\ up.state = "sending" /\ up' = [up EXCEPT !.state = "broken"]
  BY DEF UpstreamBreaks
<1>2. pc # "idle"
  BY <1>1 DEF IInv, HandlerOK, NoUpstream
<1>3. /\ x \in Exchange /\ AnswerOK(x, current \in gone) /\ HeadsOK(x)
      /\ Handling(x, up, pc) /\ up \in Upstream /\ parser \in GoodParser(AnyByte)
  BY <1>2, CurrentFacts
<1>4. PICK y \in Exchange :
         /\ y = [x EXCEPT !.broken = TRUE]
         /\ y.ask = x.ask /\ y.sent = x.sent /\ y.status = x.status
         /\ y.reply = x.reply /\ y.answered = x.answered /\ y.got = x.got
         /\ y.broken
  <2>1. [x EXCEPT !.broken = TRUE] \in Exchange
    BY <1>3 DEF Exchange
  <2> HIDE DEF x
  <2> WITNESS [x EXCEPT !.broken = TRUE] \in Exchange
  <2> QED
    BY <1>3 DEF Exchange
<1>5. Touches(current, y)
  BY <1>4 DEF Touches, UpstreamBreaks
<1>6. PICK u \in Upstream : /\ u = up' /\ u.state = "broken"
                            /\ u.left = up.left /\ u.ready = up.ready
  BY <1>1, <1>3 DEF Upstream
<1>7. AnswerOK(y, current \in gone)
  <2>1. Whole(y) = Whole(x)
    BY <1>4 DEF Whole
  <2> QED
    BY <1>3, <1>4, <2>1 DEF AnswerOK
<1>8. HeadsOK(y)
  BY <1>3, <1>4 DEF HeadsOK
<1>9. Between(y, u) = Between(x, up)
  BY <1>4, <1>6 DEF Between
<1>10. Handling(y, up', pc')
  BY <1>1, <1>3, <1>4, <1>6, <1>9 DEF Handling
<1>11. EntriesKept => Recorded'
  BY <1>1, Silent
<1>12. pc' \in {"idle", "calling", "stream", "deliver"}
  BY <1>1 DEF IInv, Typed
<1> QED
  BY <1>1, <1>2, <1>3, <1>5, <1>6, <1>7, <1>8, <1>10, <1>11, <1>12, CurrentStep

-----------------------------------------------------------------------------
LEMMA InitIInv ==
    ASSUME Init
    PROVE  IInv
<1>1. /\ Len(exchanges) = 0 /\ Len(waiting) = 0 /\ Len(trace) = 0
      /\ DOMAIN exchanges = {} /\ DOMAIN waiting = {} /\ ToSet(trace) = {}
      /\ exchanges \in Seq(Exchange) /\ waiting \in Seq(Nat) /\ trace \in Seq(Entry)
  <2>1. /\ exchanges = <<>> /\ waiting = <<>> /\ trace = <<>>
    BY DEF Init
  <2> QED
    BY <2>1, EmptySeq DEF ToSet
<1>2. /\ gone = {} /\ pc = "idle" /\ current = 0 /\ up = NoUpstream
      /\ parser = NewParser /\ pending = NoPending /\ disk = "ok" /\ clock = 0
  BY DEF Init
<1>3. parser \in GoodParser(AnyByte) /\ up \in Upstream /\ pending \in PendingMap
  BY <1>2, NewParserGood, NoUpstreamType DEF NoPending, PendingMap
<1>4. Typed
  BY <1>1, <1>2, <1>3 DEF Typed
<1>5. QueueOK /\ HandlerOK /\ ExchangesOK /\ TraceOK /\ CountOK
  BY <1>1, <1>2, HttpProxyAssumption
  DEF QueueOK, HandlerOK, ExchangesOK, TraceOK, CountOK
<1> QED
  BY <1>4, <1>5 DEF IInv

LEMMA StepIInv ==
    ASSUME IInv, [Next]_httpVars
    PROVE  IInv'
<1>1. CASE Send \/ UpstreamReplies \/ UpstreamSends \/ UpstreamCloses \/ UpstreamBreaks
  BY <1>1, SendKeeps, UpstreamRepliesKeeps, UpstreamMovesKeeps, UpstreamBreaksKeeps
<1>2. CASE DiskFills
  <2>1. gone \subseteq DOMAIN exchanges
    BY DEF IInv, Typed
  <2> QED
    BY <1>2, <2>1, AroundKeeps DEF DiskFills
<1>3. ASSUME NEW n \in DOMAIN exchanges, HangUp(n)
      PROVE  IInv'
  <2>1. gone \subseteq DOMAIN exchanges
    BY DEF IInv, Typed
  <2> QED
    BY <1>3, <2>1, AroundKeeps DEF HangUp
<1>4. CASE Rest \/ UNCHANGED httpVars
  <2>1. gone \subseteq DOMAIN exchanges
    BY DEF IInv, Typed
  <2> QED
    BY <1>4, <2>1, AroundKeeps DEF Rest, httpVars
<1>5. CASE Refuse \/ Forward \/ AnswerDirect \/ StartStream \/ ReadChunk \/ Deliver
           \/ ReadEnd
  BY <1>5, RefuseKeeps, ForwardKeeps, AnswerDirectKeeps, StartStreamKeeps,
     ReadChunkKeeps, DeliverKeeps, ReadEndKeeps
<1>6. CASE BadGateway \/ LoseDirect \/ DeliverFails \/ ReadFails
  BY <1>6, GivenUpKeeps
<1> QED
  BY <1>1, <1>2, <1>3, <1>4, <1>5, <1>6 DEF Next, Handler, Environment

(* All of this holds in every state of the specification.                  *)
THEOREM AlwaysIInv == Spec => []IInv
<1>1. Init => IInv
  BY InitIInv
<1>2. IInv /\ [Next]_httpVars => IInv'
  BY StepIInv
<1> QED
  BY <1>1, <1>2, PTL DEF Spec

(***************************************************************************)
(* What follows from it.                                                   *)
(***************************************************************************)
LEMMA IInvTypeOK ==
    ASSUME IInv
    PROVE  TypeOK
<1>1. Typed /\ QueueOK /\ HandlerOK /\ CountOK
  BY DEF IInv
<1>2. \A n \in DOMAIN exchanges : exchanges[n].status \in Statuses
  BY <1>1, Domains DEF Exchange
<1>3. \A i \in DOMAIN waiting : exchanges[waiting[i]].status = "waiting"
  <2> SUFFICES ASSUME NEW i \in DOMAIN waiting
               PROVE  exchanges[waiting[i]].status = "waiting"
    OBVIOUS
  <2>1. PICK k \in Nat, l \in Nat : /\ k = Len(exchanges) /\ l = Len(waiting)
                                    /\ DOMAIN exchanges = 1..k /\ i \in 1..l
    BY <1>1, Domains
  <2>2. l <= k /\ waiting[i] = (k - l) + i
    BY <1>1, <2>1 DEF QueueOK, Taken
  <2>3. waiting[i] \in DOMAIN exchanges /\ waiting[i] > Taken
    BY <2>1, <2>2 DEF Taken
  <2> QED
    BY <1>1, <2>3 DEF QueueOK, Fresh
<1>4. pc # "idle" <=> up.state # "none"
  BY <1>1 DEF HandlerOK, Handling, NoUpstream
<1>5. pc # "idle" => exchanges[current].status \notin Over
  BY <1>1 DEF HandlerOK, Handling, Over
<1>6. pc \in {"stream", "deliver"} => exchanges[current].reply.kind = "stream"
  BY <1>1 DEF HandlerOK, Handling
<1>7. pc = "deliver" => up.ready # <<>>
  BY <1>1 DEF HandlerOK, Handling
<1> QED
  BY <1>1, <1>2, <1>3, <1>4, <1>5, <1>6, <1>7 DEF TypeOK, Typed, QueueOK, CountOK

(* The types of the state, and who is where while the handler is busy.     *)
THEOREM AlwaysTypeOK == Spec => []TypeOK
<1>1. IInv => TypeOK
  BY IInvTypeOK
<1> QED
  BY <1>1, AlwaysIInv, PTL

LEMMA IInvAnswers ==
    ASSUME IInv
    PROVE  AnswersUntouched
<1> SUFFICES ASSUME NEW n \in DOMAIN exchanges
             PROVE  LET x   == exchanges[n]
                        all == IF Streamed(n) THEN FlattenSeq(x.reply.chunks)
                               ELSE <<x.reply.body>>
                    IN  /\ IsPrefix(x.got, all)
                        /\ x.status = "done" => x.got = all
                        /\ x.status \in {"cut", "dropped"} =>
                              n \in gone \/ x.broken \/ x.ask.target = "absolute"
                        /\ x.status = "502" => x.reply.kind = "error" \/ x.reply.body = Oversize
                        /\ x.status = "413" => x.ask.body = Oversize
  BY DEF AnswersUntouched
<1>1. AnswerOK(exchanges[n], n \in gone)
  BY DEF IInv, ExchangesOK
<1> QED
  BY <1>1 DEF AnswerOK, Whole, Streamed

(* A client is given what the server sent, a prefix of it or, when the     *)
(* exchange is done, all of it, whatever becomes of the measurement: only  *)
(* clients and servers that fail, refusals and sizes stop an answer.       *)
THEOREM AnswersAreUntouched == Spec => []AnswersUntouched
<1>1. IInv => AnswersUntouched
  BY IInvAnswers
<1> QED
  BY <1>1, AlwaysIInv, PTL

(* The headers of a request.                                               *)
NamesOf(head) == { head[k].name : k \in DOMAIN head }

LEMMA NameIsThere ==
    ASSUME NEW head \in Seq(Header), NEW name
    PROVE  name \in NamesOf(head) <=> Named(head, name) # <<>>
  BY NamedSet DEF NamesOf, ToSet

LEMMA SentHeaders ==
    ASSUME NEW head \in Seq(Header), NEW sent, sent = UpstreamHeaders(head)
    PROVE  /\ NamesOf(sent) = NamesOf(head) \ (HopByHop \cup {"content-length", "host"})
           /\ \A name \in NamesOf(sent) :
                 Named(sent, name) = IF name \in Extensions THEN Named(head, name)
                                     ELSE <<Last(Named(head, name))>>
<1>1. sent \in Seq(Header)
  BY UpstreamType
<1>2. \A name : Named(sent, name) = Forwarded(head, name)
  BY UpstreamNamed
<1>3. ASSUME NEW name
      PROVE  /\ name \in NamesOf(sent) <=>
                  /\ name \in NamesOf(head)
                  /\ name \notin HopByHop \cup {"content-length", "host"}
             /\ name \in NamesOf(sent) =>
                  Named(sent, name) = IF name \in Extensions THEN Named(head, name)
                                      ELSE <<Last(Named(head, name))>>
  <2>1. name \in NamesOf(sent) <=> Named(sent, name) # <<>>
    BY <1>1, NameIsThere
  <2>2. name \in NamesOf(head) <=> Named(head, name) # <<>>
    BY NameIsThere
  <2>3. Named(sent, name) = Forwarded(head, name)
    BY <1>2
  <2>4. ShouldForwardRequestHeader(name)
           <=> name \notin HopByHop \cup {"content-length", "host"}
    BY DEF ShouldForwardRequestHeader
  <2> QED
    BY <2>1, <2>2, <2>3, <2>4 DEF Forwarded
<1> QED
  BY <1>3

LEMMA IInvHeaders ==
    ASSUME IInv
    PROVE  HeadersEndToEnd
<1> DEFINE Crossing(head) == { h \in ToSet(head) :
                                 h.name \notin OfConnection /\ h.value # NonAscii }
<1> SUFFICES ASSUME NEW n \in DOMAIN exchanges
             PROVE  LET x == exchanges[n] IN
                    /\ x.sent # None =>
                          /\ NamesOf(x.sent)
                                = NamesOf(x.ask.head) \ (OfConnection \cup {"host"})
                          /\ \A name \in NamesOf(x.sent) :
                                Named(x.sent, name)
                                   = IF name \in Extensions THEN Named(x.ask.head, name)
                                     ELSE <<Last(Named(x.ask.head, name))>>
                    /\ x.answered # None =>
                          /\ ToSet(x.answered) = Crossing(x.reply.head)
                          /\ \A h \in Crossing(x.reply.head) :
                                Named(x.reply.head, h.name) = <<h>> =>
                                    Named(x.answered, h.name) = <<h>>
  BY DEF HeadersEndToEnd, NamesOf
<1> DEFINE x == exchanges[n]
<1>1. x \in Exchange /\ HeadsOK(x)
  BY Domains DEF IInv, ExchangesOK
<1>2. x.ask.head \in Seq(Header) /\ x.reply.head \in Seq(Header)
  BY <1>1, RequestFacts, ReplyFacts DEF Exchange
<1>3. ASSUME x.sent # None
      PROVE  /\ NamesOf(x.sent)
                   = NamesOf(x.ask.head) \ (HopByHop \cup {"content-length", "host"})
             /\ \A name \in NamesOf(x.sent) :
                   Named(x.sent, name) = IF name \in Extensions THEN Named(x.ask.head, name)
                                         ELSE <<Last(Named(x.ask.head, name))>>
  <2>1. x.sent = UpstreamHeaders(x.ask.head)
    BY <1>1, <1>3 DEF HeadsOK
  <2> QED
    BY <1>2, <2>1, SentHeaders
<1>4. ASSUME x.answered # None
      PROVE  /\ ToSet(x.answered) = Crossing(x.reply.head)
             /\ \A h \in Crossing(x.reply.head) :
                   Named(x.reply.head, h.name) = <<h>> =>
                       Named(x.answered, h.name) = <<h>>
  <2>1. x.answered = CollectResponseHeaders(x.reply.head)
    BY <1>1, <1>4 DEF HeadsOK
  <2>2. PICK head \in Seq(Header) : head = x.reply.head /\ ToSet(head) \subseteq Header
    BY <1>2, SeqOfItsSet
  <2>3. ToSet(x.answered) = { h \in ToSet(head) :
                                 /\ ShouldForwardResponseHeader(h.name)
                                 /\ h.value # NonAscii }
    BY <2>1, <2>2, ResponseSet
  <2>4. \A h : h \in Crossing(head)
           <=> /\ h \in ToSet(head) /\ ShouldForwardResponseHeader(h.name)
               /\ h.value # NonAscii
    BY DEF ShouldForwardResponseHeader, OfConnection
  <2>5. ASSUME NEW h \in Crossing(head), Named(head, h.name) = <<h>>
        PROVE  Named(CollectResponseHeaders(head), h.name) = <<h>>
    <3>1. h \in Header /\ h \in ToSet(head) /\ ShouldForwardResponseHeader(h.name)
             /\ h.value # NonAscii
      BY <2>2, <2>4, <2>5
    <3> HIDE DEF Crossing
    <3> QED
      BY <2>5, <3>1, ResponseOnce
  <2>6. ToSet(x.answered) = Crossing(head)
    BY <2>3, <2>4
  <2> HIDE DEF Crossing
  <2> QED
    BY <2>1, <2>2, <2>5, <2>6
<1>5. OfConnection \cup {"host"} = HopByHop \cup {"content-length", "host"}
  BY DEF OfConnection
<1> QED
  BY <1>3, <1>4, <1>5

(* Headers of the connection stop at the proxy, and every other header     *)
(* crosses it: of a request with the last of its values, or all of an      *)
(* extension; of an answer with each value that can be represented, and    *)
(* once if it is given once.                                               *)
THEOREM HeadersCross == Spec => []HeadersEndToEnd
<1>1. IInv => HeadersEndToEnd
  BY IInvHeaders
<1> QED
  BY <1>1, AlwaysIInv, PTL

(* A routing header on its way: what is recorded of it, and what is sent.  *)
LEMMA RoutingValue ==
    ASSUME NEW head \in Seq(Header), NEW name \in RoutingNames,
           NEW sent, sent = UpstreamHeaders(head)
    PROVE  LET value == AllowlistedHeaderValue(head, name)
           IN  /\ value # None =>
                     /\ Named(sent, name) = <<[name |-> name, value |-> value]>>
                     /\ Named(head, name) = Named(sent, name)
               /\ value = None => \/ Named(head, name) = <<>>
                                  \/ Len(Named(head, name)) > 1
                                  \/ Named(sent, name)[1].value = Blank
<1> DEFINE named == Named(head, name)
           value == AllowlistedHeaderValue(head, name)
<1>1. value = IF Len(named) = 1 /\ named[1].value # Blank THEN named[1].value ELSE None
  BY HeaderFacts, AllowlistedValue
<1>2. named \in Seq(Header) /\ \A i \in 1..Len(named) : named[i].name = name
  BY NamedType
<1>3. Named(sent, name) = IF name \in Extensions \/ named = <<>> THEN named
                          ELSE <<Last(named)>>
  <2>1. ShouldForwardRequestHeader(name)
    BY DEF ShouldForwardRequestHeader, RoutingNames, HopByHop
  <2>2. Named(sent, name) = Forwarded(head, name)
    BY UpstreamNamed
  <2> QED
    BY <2>1, <2>2 DEF Forwarded
<1> HIDE DEF named, value
<1>4. PICK l \in Nat : l = Len(named) /\ (named # <<>> => l # 0)
  BY <1>2, EmptySeq, LenProperties
<1>5. CASE Len(named) = 1
  <2>1. PICK h \in Header : h = named[1]
    <3>1. 1 \in 1..Len(named)
      BY <1>5
    <3>2. named[1] \in Header
      BY <1>2, <3>1, ElementOfSeq
    <3> QED
      BY <3>2
  <2>2. h = [name |-> name, value |-> h.value] /\ h.value # None
    BY <1>2, <1>5, <2>1, HeaderFacts
  <2>3. named = <<h>> /\ Last(named) = h
    BY <1>2, <1>5, <2>1 DEF Last
  <2>4. Named(sent, name) = <<h>>
    BY <1>3, <2>3
  <2>5. CASE h.value = Blank
    <3>1. value = None
      BY <1>1, <2>1, <2>5
    <3> QED
      BY <2>4, <2>5, <3>1 DEF value
  <2>6. CASE h.value # Blank
    <3>1. value = h.value
      BY <1>1, <1>5, <2>1, <2>6
    <3> QED
      BY <2>2, <2>3, <2>4, <3>1 DEF value, named
  <2> QED
    BY <2>5, <2>6
<1>6. CASE Len(named) # 1
  <2>1. value = None
    BY <1>1, <1>6
  <2>2. named = <<>> \/ Len(named) > 1
    <3>1. named = <<>> \/ (l # 0 /\ l # 1)
      BY <1>4, <1>6
    <3>2. named = <<>> \/ l > 1
      BY <3>1
    <3> QED
      BY <1>4, <3>2
  <2> QED
    BY <2>1, <2>2 DEF value, named
<1> QED
  BY <1>5, <1>6

LEMMA IInvRouting ==
    ASSUME IInv
    PROVE  RoutingAsSent
<1> SUFFICES ASSUME NEW k \in DOMAIN trace, NEW name \in RoutingNames
             PROVE  LET x     == exchanges[trace[k].n]
                        value == trace[k].routing[name]
                    IN  IF trace[k].event.dir = "s2c" THEN value = None
                        ELSE /\ value # None =>
                                   /\ Named(x.sent, name) = <<[name |-> name, value |-> value]>>
                                   /\ Named(x.ask.head, name) = Named(x.sent, name)
                             /\ value = None => \/ Named(x.ask.head, name) = <<>>
                                                \/ Len(Named(x.ask.head, name)) > 1
                                                \/ Named(x.sent, name)[1].value = Blank
  BY DEF RoutingAsSent
<1>1. PICK e \in Entry : e = trace[k] /\ EntryOK(e)
  <2>1. trace \in Seq(Entry)
    BY DEF IInv, Typed
  <2>2. k \in 1..Len(trace)
    BY <2>1, LenProperties
  <2>3. trace[k] \in Entry
    BY <2>1, <2>2, ElementOfSeq
  <2>4. EntryOK(trace[k])
    BY DEF IInv, TraceOK, ToSet
  <2> QED
    BY <2>3, <2>4
<1>2. CASE e.event.dir = "s2c"
  BY <1>1, <1>2 DEF EntryOK, NoRouting
<1>3. CASE e.event.dir # "s2c"
  <2>1. e.event.dir = "c2s"
    BY <1>3 DEF Entry, AnyEvent, Directions
  <2> DEFINE x == exchanges[e.n]
  <2>2. x \in Exchange /\ x.sent = UpstreamHeaders(x.ask.head)
        /\ e.routing = CollectRequestRoutingMetadata(x.ask.head)
    BY <1>1, <2>1, Domains DEF EntryOK, IInv
  <2>3. x.ask.head \in Seq(Header)
    BY <2>2, RequestFacts DEF Exchange
  <2>4. e.routing[name] = AllowlistedHeaderValue(x.ask.head, name)
    BY <2>2 DEF CollectRequestRoutingMetadata
  <2> HIDE DEF x
  <2>5. LET value == e.routing[name]
        IN  /\ value # None =>
                  /\ Named(x.sent, name) = <<[name |-> name, value |-> value]>>
                  /\ Named(x.ask.head, name) = Named(x.sent, name)
            /\ value = None => \/ Named(x.ask.head, name) = <<>>
                               \/ Len(Named(x.ask.head, name)) > 1
                               \/ Named(x.sent, name)[1].value = Blank
    BY <2>2, <2>3, <2>4, RoutingValue
  <2> QED
    BY <1>1, <1>3, <2>5 DEF x
<1> QED
  BY <1>2, <1>3

(* What the trace says of the routing of a request is what the server was  *)
(* told and the only thing that the client said; answers have none.        *)
THEOREM RoutingIsAsSent == Spec => []RoutingAsSent
<1>1. IInv => RoutingAsSent
  BY IInvRouting
<1> QED
  BY <1>1, AlwaysIInv, PTL

(***************************************************************************)
(* Streams.                                                                *)
(***************************************************************************)
(* What the trace has of one exchange, in one direction.                   *)
Mine(n, dir) == {e \in Entry : e.n = n /\ e.event.dir = dir}

SeenIn(entries, n, dir) == Images(PayloadOf, Keep(entries, Mine(n, dir)))

LEMMA SeenAs ==
    ASSUME NEW entries \in Seq(Entry), NEW n, NEW dir
    PROVE  LET own == Keep(entries, {e \in ToSet(entries) : e.n = n /\ e.event.dir = dir})
           IN  [k \in DOMAIN own |-> own[k].event.payload] = SeenIn(entries, n, dir)
<1> DEFINE S == {e \in ToSet(entries) : e.n = n /\ e.event.dir = dir}
<1>1. entries \in Seq(ToSet(entries)) /\ ToSet(entries) \subseteq Entry
  BY SeqOfItsSet
<1>2. S \cap ToSet(entries) = Mine(n, dir) \cap ToSet(entries)
  BY <1>1 DEF Mine
<1> HIDE DEF S
<1>3. Keep(entries, S) = Keep(entries, Mine(n, dir))
  BY <1>1, <1>2, KeepSame
<1>4. PICK own : own = Keep(entries, Mine(n, dir))
  OBVIOUS
<1>5. own \in Seq(Entry)
  <2>1. own \in Seq(Entry \cap Mine(n, dir))
    BY <1>4, KeepType
  <2>2. Entry \cap Mine(n, dir) \subseteq Entry
    OBVIOUS
  <2> QED
    BY <2>1, <2>2, SeqMonotonic
<1>6. \A k \in DOMAIN own : own[k] \in Entry
  BY <1>5, LenProperties, ElementOfSeq
<1>7. Images(PayloadOf, own) = [k \in DOMAIN own |-> own[k].event.payload]
  BY <1>6 DEF Images, PayloadOf
<1> QED
  BY <1>3, <1>4, <1>7 DEF SeenIn, S

LEMMA SeenType ==
    ASSUME NEW entries \in Seq(Entry), NEW n, NEW dir
    PROVE  SeenIn(entries, n, dir) \in Seq(AnyPayload)
<1>1. Keep(entries, Mine(n, dir)) \in Seq(Entry \cap Mine(n, dir))
  BY KeepType
<1>2. PICK own \in Seq(Entry) : own = Keep(entries, Mine(n, dir))
  <2>1. Entry \cap Mine(n, dir) \subseteq Entry
    OBVIOUS
  <2> QED
    BY <1>1, <2>1, SeqMonotonic
<1>3. Images(PayloadOf, own) \in Seq(AnyPayload)
  BY PayloadType, ImagesType
<1> QED
  BY <1>2, <1>3 DEF SeenIn

(* Entries about an exchange are seen of it, and of no other.              *)
LEMMA SeenGrows ==
    ASSUME NEW entries \in Seq(Entry), NEW n, NEW dir, NEW es \in Seq(Mine(n, dir))
    PROVE  SeenIn(Cat(entries, es), n, dir)
             = Cat(SeenIn(entries, n, dir), Images(PayloadOf, es))
<1>1. PICK S : S = Mine(n, dir)
  OBVIOUS
<1>2. es \in Seq(S) /\ S \subseteq Entry /\ es \in Seq(Entry)
  <2>1. S \subseteq Entry
    BY <1>1 DEF Mine
  <2> QED
    BY <1>1, <2>1, SeqMonotonic
<1>3. Keep(Cat(entries, es), S) = Cat(Keep(entries, S), Keep(es, S))
  BY <1>2, KeepCat
<1>4. Keep(es, S) = es
  BY <1>2, KeepAll
<1>5. PICK own \in Seq(Entry) : own = Keep(entries, S)
  <2>1. Keep(entries, S) \in Seq(Entry \cap S)
    BY KeepType
  <2>2. Entry \cap S \subseteq Entry
    OBVIOUS
  <2> QED
    BY <2>1, <2>2, SeqMonotonic
<1>6. ImagesSplit(PayloadOf, Entry)
  BY PayloadType, ImagesCat
<1> QED
  BY <1>1, <1>2, <1>3, <1>4, <1>5, <1>6 DEF SeenIn, ImagesSplit

LEMMA SeenStays ==
    ASSUME NEW entries \in Seq(Entry), NEW n, NEW dir, NEW es \in Seq(Entry),
           \A e \in ToSet(es) : e \notin Mine(n, dir)
    PROVE  SeenIn(Cat(entries, es), n, dir) = SeenIn(entries, n, dir)
<1>1. PICK S : S = Mine(n, dir)
  OBVIOUS
<1>2. Keep(Cat(entries, es), S) = Cat(Keep(entries, S), Keep(es, S))
  BY KeepCat
<1>3. Keep(es, S) = <<>>
  <2>1. es \in Seq(ToSet(es)) /\ ToSet(es) \cap S = {}
    BY <1>1, SeqOfItsSet
  <2> QED
    BY <2>1, KeepNone
<1>4. Cat(Keep(entries, S), <<>>) = Keep(entries, S)
  <2>1. Keep(entries, S) \in Seq(Entry \cap S)
    BY KeepType
  <2> QED
    BY <2>1, CatNothing
<1> QED
  BY <1>1, <1>2, <1>3, <1>4 DEF SeenIn

-----------------------------------------------------------------------------
(* The invariant of measuring: what the trace has of a stream.             *)
Messages(s) == JsonRpc(StreamEvents(s))

(* What the parser has been given of the current stream.                   *)
Held == IF pc = "deliver" THEN Cat(exchanges[current].got, up.ready)
        ELSE exchanges[current].got

SeenOK(x, seen) ==
    /\ x.status = "waiting" => x.got = <<>> /\ seen = <<>>
    /\ x.reply.kind = "stream" =>
          /\ IsPrefix(Messages(x.got), seen)
          /\ x.status = "done" => seen = Messages(Ended(x.got))

StreamingOK ==
    pc \in {"stream", "deliver"} =>
        Keeps(parser, Held) /\ SeenIn(trace, current, "s2c") = Messages(Held)

MeasuresOK ==
    disk = "ok" =>
        /\ \A n \in DOMAIN exchanges : SeenOK(exchanges[n], SeenIn(trace, n, "s2c"))
        /\ StreamingOK

(* Only exchange m changes.                                                *)
Changes(m) ==
    /\ m \in DOMAIN exchanges
    /\ DOMAIN exchanges' = DOMAIN exchanges
    /\ \A n \in DOMAIN exchanges : n # m => exchanges'[n] = exchanges[n]

OthersSeen(m) ==
    \A n \in DOMAIN exchanges :
        n # m => SeenIn(trace', n, "s2c") = SeenIn(trace, n, "s2c")

LEMMA MeasuresStep ==
    ASSUME MeasuresOK, NEW m, Changes(m),
           disk' = "ok" => /\ disk = "ok" /\ OthersSeen(m)
                           /\ SeenOK(exchanges'[m], SeenIn(trace', m, "s2c"))
                           /\ StreamingOK'
    PROVE  MeasuresOK'
<1> SUFFICES ASSUME disk' = "ok"
             PROVE  /\ \A n \in DOMAIN exchanges' :
                          SeenOK(exchanges'[n], SeenIn(trace', n, "s2c"))
                    /\ StreamingOK'
  BY DEF MeasuresOK
<1>1. ASSUME NEW n \in DOMAIN exchanges'
      PROVE  SeenOK(exchanges'[n], SeenIn(trace', n, "s2c"))
  <2>1. CASE n = m
    BY <2>1
  <2>2. CASE n # m
    BY <2>2 DEF Changes, OthersSeen, MeasuresOK
  <2> QED
    BY <2>1, <2>2
<1> QED
  BY <1>1

(* Nothing is seen of the stream that the exchange has not.                *)
LEMMA Quiet ==
    ASSUME MeasuresOK, trace' = trace, disk' = disk \/ disk' = "full", NEW m,
           Changes(m),
           disk = "ok" => SeenOK(exchanges'[m], SeenIn(trace, m, "s2c")) /\ StreamingOK'
    PROVE  MeasuresOK'
<1>1. disk' = "ok" => disk = "ok"
  OBVIOUS
<1>2. OthersSeen(m)
  BY DEF OthersSeen
<1> QED
  BY <1>1, <1>2, MeasuresStep

LEMMA SeenObserved ==
    ASSUME Typed, NEW n \in Nat, NEW payloads \in Seq(AnyPayload),
           NEW dir \in Directions, NEW routing \in Routing,
           Observe(n, payloads, dir, routing), disk = "ok"
    PROVE  /\ dir = "s2c" =>
                 SeenIn(trace', n, "s2c") = Cat(SeenIn(trace, n, "s2c"), payloads)
           /\ \A m : m # n \/ dir # "s2c" =>
                 SeenIn(trace', m, "s2c") = SeenIn(trace, m, "s2c")
<1>1. PICK es \in Seq(Entries(n, dir, routing)) :
         Writes(es) /\ Images(PayloadOf, es) = payloads
  BY ObservePayloads
<1>2. trace' = Cat(trace, es) /\ trace \in Seq(Entry)
  BY <1>1 DEF Writes, Typed, Cat
<1>3. /\ Entries(n, dir, routing) \subseteq Mine(n, dir)
      /\ Entries(n, dir, routing) \subseteq Entry
  BY DEF Entries, Mine
<1>4. es \in Seq(Mine(n, dir)) /\ es \in Seq(Entry)
  BY <1>3, SeqMonotonic
<1>5. ASSUME dir = "s2c"
      PROVE  SeenIn(trace', n, "s2c") = Cat(SeenIn(trace, n, "s2c"), payloads)
  BY <1>1, <1>2, <1>4, <1>5, SeenGrows
<1>6. ASSUME NEW m, m # n \/ dir # "s2c"
      PROVE  SeenIn(trace', m, "s2c") = SeenIn(trace, m, "s2c")
  <2>1. ToSet(es) \subseteq Entries(n, dir, routing)
    BY SeqOfItsSet
  <2>2. \A e \in ToSet(es) : e \notin Mine(m, "s2c")
    BY <1>6, <2>1 DEF Entries, Mine
  <2> QED
    BY <1>2, <1>4, <2>2, SeenStays
<1> QED
  BY <1>5, <1>6

LEMMA ObserveKeepsDisk ==
    ASSUME NEW n, NEW payloads, NEW dir, NEW routing, Observe(n, payloads, dir, routing)
    PROVE  disk' = disk
  BY DEF Observe

LEMMA Concluded ==
    ASSUME Typed, NEW m \in DOMAIN exchanges, NEW status, Conclude(m, status)
    PROVE  /\ Changes(m) /\ pc' = "idle"
           /\ exchanges'[m].status = status
           /\ exchanges'[m].reply = exchanges[m].reply
           /\ exchanges'[m].got = exchanges[m].got
<1>1. exchanges[m] \in Exchange
  BY Domains
<1>2. exchanges' = [exchanges EXCEPT ![m].status = status] /\ pc' = "idle"
  BY DEF Conclude
<1>3. exchanges'[m] = [exchanges[m] EXCEPT !.status = status]
  BY <1>2
<1>4. Changes(m)
  BY <1>2 DEF Changes
<1> QED
  BY <1>1, <1>2, <1>3, <1>4 DEF Exchange

(* An exchange ends that was no stream.                                    *)
LEMMA EndsUnstreamed ==
    ASSUME Typed, MeasuresOK, trace' = trace, disk' = disk,
           NEW m \in DOMAIN exchanges, NEW status \in Over, Conclude(m, status),
           exchanges[m].reply.kind # "stream"
    PROVE  MeasuresOK'
<1>1. /\ Changes(m) /\ pc' = "idle" /\ exchanges'[m].status = status
      /\ exchanges'[m].reply.kind # "stream"
  BY Concluded
<1>2. status # "waiting"
  BY DEF Over
<1>3. SeenOK(exchanges'[m], SeenIn(trace, m, "s2c"))
  BY <1>1, <1>2 DEF SeenOK
<1>4. StreamingOK'
  BY <1>1 DEF StreamingOK
<1> QED
  BY <1>1, <1>3, <1>4, Quiet

LEMMA RefuseMeasures ==
    ASSUME IInv, MeasuresOK, Refuse
    PROVE  MeasuresOK'
<1> DEFINE m == Head(waiting)
<1>1. waiting # <<>> /\ UNCHANGED <<trace, disk>>
  BY DEF Refuse
<1>2. m \in DOMAIN exchanges /\ Fresh(exchanges[m])
  BY <1>1, FirstWaiting DEF IInv
<1>3. exchanges[m].reply.kind # "stream"
  BY <1>2 DEF Fresh, NoReply
<1>4. PICK status \in {"dropped", "413"} : Conclude(m, status)
  BY DEF Refuse
<1>5. status \in Over
  BY DEF Over
<1> HIDE DEF m
<1> QED
  BY <1>1, <1>2, <1>3, <1>4, <1>5, EndsUnstreamed DEF IInv

LEMMA LostMeasures ==
    ASSUME IInv, MeasuresOK, BadGateway \/ LoseDirect
    PROVE  MeasuresOK'
<1>1. pc = "calling" /\ exchanges[current].reply.kind # "stream"
      /\ UNCHANGED <<trace, disk>>
  BY DEF BadGateway, LoseDirect, Replied
<1>2. current \in DOMAIN exchanges
  BY <1>1, CurrentFacts
<1>3. PICK status \in {"dropped", "502"} : Conclude(current, status)
  BY DEF BadGateway, LoseDirect
<1>4. status \in Over
  BY DEF Over
<1> QED
  BY <1>1, <1>2, <1>3, <1>4, EndsUnstreamed DEF IInv

(* A stream that is cut off stays what it is.                              *)
LEMMA CutMeasures ==
    ASSUME IInv, MeasuresOK, DeliverFails \/ ReadFails
    PROVE  MeasuresOK'
<1>1. pc # "idle" /\ UNCHANGED <<trace, disk>> /\ Conclude(current, "cut")
  BY DEF DeliverFails, ReadFails
<1>2. current \in DOMAIN exchanges /\ Typed
  BY <1>1, CurrentFacts DEF IInv
<1>3. /\ Changes(current) /\ pc' = "idle" /\ exchanges'[current].status = "cut"
      /\ exchanges'[current].reply = exchanges[current].reply
      /\ exchanges'[current].got = exchanges[current].got
  BY <1>1, <1>2, Concluded
<1>4. disk = "ok" => SeenOK(exchanges'[current], SeenIn(trace, current, "s2c"))
  BY <1>2, <1>3 DEF MeasuresOK, SeenOK
<1>5. StreamingOK'
  BY <1>3 DEF StreamingOK
<1> QED
  BY <1>1, <1>3, <1>4, <1>5, Quiet

LEMMA ForwardMeasures ==
    ASSUME IInv, MeasuresOK, Forward
    PROVE  MeasuresOK'
<1> DEFINE m == Head(waiting)
           q == exchanges[m].ask
           payloads == IF q.body = None THEN <<>> ELSE <<q.body>>
<1>1. /\ waiting # <<>> /\ pc' = "calling" /\ current' = m /\ q.body # Oversize
      /\ ObserveBody(q.body, "c2s", CollectRequestRoutingMetadata(q.head))
      /\ exchanges' = [exchanges EXCEPT ![m].sent = UpstreamHeaders(q.head)]
  BY DEF Forward
<1>2. m \in DOMAIN exchanges /\ m \in Nat /\ Fresh(exchanges[m]) /\ Typed
  BY <1>1, FirstWaiting DEF IInv
<1>3. exchanges[m] \in Exchange
  BY <1>2, Domains
<1>4. q.head \in Seq(Header) /\ q.body \in AnyBody
  BY <1>3, RequestFacts DEF Exchange
<1>5. /\ Changes(m) /\ exchanges'[m].status = exchanges[m].status
      /\ exchanges'[m].reply = exchanges[m].reply
      /\ exchanges'[m].got = exchanges[m].got
  <2>1. exchanges'[m] = [exchanges[m] EXCEPT !.sent = UpstreamHeaders(q.head)]
    BY <1>1, <1>2
  <2>2. Changes(m)
    BY <1>1, <1>2 DEF Changes
  <2> QED
    BY <1>3, <2>1, <2>2 DEF Exchange
<1>6. Observe(m, payloads, "c2s", CollectRequestRoutingMetadata(q.head)) /\ disk' = disk
  <2>1. Observe(m, payloads, "c2s", CollectRequestRoutingMetadata(q.head))
    BY <1>1 DEF ObserveBody
  <2> QED
    BY <2>1, ObserveKeepsDisk
<1>7. payloads \in Seq(AnyPayload) /\ CollectRequestRoutingMetadata(q.head) \in Routing
  BY <1>1, <1>4, BodyType, RoutingType
<1>8. ASSUME disk = "ok"
      PROVE  \A n : SeenIn(trace', n, "s2c") = SeenIn(trace, n, "s2c")
  <2> DEFINE routing == CollectRequestRoutingMetadata(q.head)
  <2>1. "c2s" \in Directions /\ "c2s" # "s2c"
    BY DEF Directions
  <2> HIDE DEF m, q, payloads, routing
  <2>2. routing \in Routing /\ Observe(m, payloads, "c2s", routing)
    BY <1>6, <1>7 DEF routing
  <2> QED
    BY <1>2, <1>7, <1>8, <2>1, <2>2, SeenObserved
<1>9. disk = "ok" => SeenOK(exchanges'[m], SeenIn(trace', m, "s2c"))
  <2> SUFFICES ASSUME disk = "ok" PROVE SeenOK(exchanges'[m], SeenIn(trace', m, "s2c"))
    OBVIOUS
  <2>1. SeenOK(exchanges[m], SeenIn(trace, m, "s2c")) /\ exchanges[m].reply.kind # "stream"
    BY <1>2 DEF MeasuresOK, Fresh, NoReply
  <2> QED
    BY <1>5, <1>8, <2>1 DEF SeenOK
<1>10. StreamingOK'
  BY <1>1 DEF StreamingOK
<1> HIDE DEF m
<1> QED
  BY <1>5, <1>6, <1>8, <1>9, <1>10, MeasuresStep DEF OthersSeen

LEMMA AnswerDirectMeasures ==
    ASSUME IInv, MeasuresOK, AnswerDirect
    PROVE  MeasuresOK'
<1> DEFINE x == exchanges[current]
           payloads == IF x.reply.body = None THEN <<>> ELSE <<x.reply.body>>
<1>1. /\ pc = "calling" /\ x.reply.kind = "direct" /\ x.reply.body # Oversize
      /\ current' = current /\ pc' = "idle"
      /\ ObserveBody(x.reply.body, "s2c", NoRouting)
  BY DEF AnswerDirect, Replied
<1>2. /\ current \in DOMAIN exchanges /\ current \in Nat /\ x \in Exchange
      /\ x.reply \in AllReplies /\ Typed
  BY <1>1, CurrentFacts DEF IInv
<1>3. x.reply.body \in AnyBody
  BY <1>2, ReplyFacts
<1>4. Observe(current, payloads, "s2c", NoRouting) /\ disk' = disk
  <2>1. Observe(current, payloads, "s2c", NoRouting)
    BY <1>1 DEF ObserveBody
  <2> QED
    BY <2>1, ObserveKeepsDisk
<1>5. payloads \in Seq(AnyPayload)
  BY <1>1, <1>3, BodyType
<1>6. ASSUME disk = "ok"
      PROVE  OthersSeen(current)
  <2>1. "s2c" \in Directions
    BY DEF Directions
  <2> HIDE DEF payloads
  <2> QED
    BY <1>2, <1>4, <1>5, <1>6, <2>1, NoRoutingType, SeenObserved DEF OthersSeen
<1>7. /\ Changes(current) /\ exchanges'[current].status \in {"done", "cut"}
      /\ exchanges'[current].reply = x.reply
  <2>1. CASE exchanges' = [exchanges EXCEPT ![current].status = "done",
                   ![current].answered = CollectResponseHeaders(x.reply.head),
                   ![current].got = <<x.reply.body>>]
    <3>1. exchanges'[current] = [x EXCEPT !.status = "done",
                   !.answered = CollectResponseHeaders(x.reply.head),
                   !.got = <<x.reply.body>>]
      BY <1>2, <2>1
    <3>2. Changes(current)
      BY <1>2, <2>1 DEF Changes
    <3> QED
      BY <1>2, <3>1, <3>2 DEF Exchange
  <2>2. CASE exchanges' = [exchanges EXCEPT ![current].status = "cut"]
    <3>1. exchanges'[current] = [x EXCEPT !.status = "cut"]
      BY <1>2, <2>2
    <3>2. Changes(current)
      BY <1>2, <2>2 DEF Changes
    <3> QED
      BY <1>2, <3>1, <3>2 DEF Exchange
  <2> QED
    BY <2>1, <2>2 DEF AnswerDirect
<1>8. SeenOK(exchanges'[current], SeenIn(trace', current, "s2c"))
  BY <1>1, <1>7 DEF SeenOK
<1>9. StreamingOK'
  BY <1>1 DEF StreamingOK
<1> QED
  BY <1>4, <1>6, <1>7, <1>8, <1>9, MeasuresStep

(* A stream's chunks are bytes.                                            *)
LEMMA GotBytes ==
    ASSUME NEW x \in Exchange, IsPrefix(x.got, Whole(x)), x.reply.kind = "stream"
    PROVE  x.got \in Seq(AnyByte)
<1>1. x.reply.chunks \in Seq(Seq(AnyByte))
  BY ReplyFacts DEF Exchange
<1>2. PICK whole \in Seq(AnyByte) : whole = FlattenSeq(x.reply.chunks) /\ whole = Whole(x)
  <2>1. FlattenSeq(x.reply.chunks) \in Seq(AnyByte)
    BY <1>1, FlattenType
  <2> QED
    BY <2>1 DEF Whole
<1>3. IsPrefix(x.got, whole) /\ x.got \in Seq(Gift)
  BY <1>2 DEF Exchange
<1>4. PICK k \in Nat : k = Len(x.got) /\ k <= Len(whole) /\ x.got = SubSeq(whole, 1, k)
  <2>1. Len(x.got) \in Nat
    BY <1>3, LenProperties
  <2>2. Len(x.got) <= Len(whole) /\ SubSeq(x.got, 1, Len(x.got)) = SubSeq(whole, 1, Len(x.got))
    BY <1>3 DEF IsPrefix
  <2>3. SubSeq(x.got, 1, Len(x.got)) = x.got
    BY <1>3, SubSeqFull
  <2> QED
    BY <2>1, <2>2, <2>3
<1>5. k \in 0..Len(whole)
  BY <1>4, LenProperties
<1> QED
  BY <1>4, <1>5, SubSeqPlaces

LEMMA MessagesType ==
    ASSUME NEW s \in Seq(AnyByte)
    PROVE  StreamEvents(s) \in Seq(Seq(AnyByte)) /\ Messages(s) \in Seq(AnyPayload)
<1>1. StreamEvents(s) \in Seq(Seq(AnyByte))
  BY StreamBytes, StreamEventsType
<1> QED
  BY <1>1, JsonRpcType DEF Messages

LEMMA MessagesNone == Messages(<<>>) = <<>>
  BY NewParserKeeps, JsonRpcEmpty DEF Messages

LEMMA PrefixOfSelf ==
    ASSUME NEW T, NEW s \in Seq(T)
    PROVE  IsPrefix(s, s)
<1>1. s \o <<>> = s /\ <<>> \in Seq(T)
  BY ConcatEmptySeq, EmptySeq
<1>2. \A t \in Seq(T) : IsPrefix(s, s \o t)
  BY PrefixOfConcat
<1> QED
  BY <1>1, <1>2

(* The stream that is being read.                                          *)
LEMMA StreamFacts ==
    ASSUME IInv, pc \in {"stream", "deliver"}
    PROVE  /\ exchanges[current].got \in Seq(AnyByte) /\ up.ready \in Seq(AnyByte)
           /\ exchanges[current].reply.kind = "stream"
           /\ exchanges[current].status = "stream"
           /\ current \in DOMAIN exchanges /\ current \in Nat
           /\ exchanges[current] \in Exchange
           /\ parser \in GoodParser(AnyByte) /\ Typed
<1> DEFINE x == exchanges[current]
<1>1. /\ x \in Exchange /\ AnswerOK(x, current \in gone) /\ Handling(x, up, pc)
      /\ up \in Upstream /\ current \in DOMAIN exchanges /\ current \in Nat
      /\ parser \in GoodParser(AnyByte)
  BY CurrentFacts
<1>2. x.reply.kind = "stream" /\ x.status = "stream"
  BY <1>1 DEF Handling
<1>3. IsPrefix(x.got, Whole(x))
  BY <1>1 DEF AnswerOK
<1>4. x.got \in Seq(AnyByte)
  BY <1>1, <1>2, <1>3, GotBytes
<1> QED
  BY <1>1, <1>2, <1>4 DEF Upstream, IInv

LEMMA StartStreamMeasures ==
    ASSUME IInv, MeasuresOK, StartStream
    PROVE  MeasuresOK'
<1> DEFINE x == exchanges[current]
<1>1. /\ pc = "calling" /\ pc' = "stream" /\ parser' = NewParser
      /\ UNCHANGED <<current, trace, disk>>
      /\ exchanges' = [exchanges EXCEPT ![current].status = "stream",
            ![current].answered = CollectResponseHeaders(x.reply.head)]
  BY DEF StartStream, Replied
<1>2. /\ current \in DOMAIN exchanges /\ x \in Exchange
      /\ x.status = "waiting" /\ x.got = <<>>
  BY <1>1, CurrentFacts DEF Handling
<1>3. /\ Changes(current) /\ exchanges'[current].status = "stream"
      /\ exchanges'[current].got = <<>>
  <2>1. exchanges'[current] = [x EXCEPT !.status = "stream",
            !.answered = CollectResponseHeaders(x.reply.head)]
    BY <1>1, <1>2
  <2>2. Changes(current)
    BY <1>1, <1>2 DEF Changes
  <2> QED
    BY <1>2, <2>1, <2>2 DEF Exchange
<1>4. ASSUME disk = "ok"
      PROVE  SeenOK(exchanges'[current], SeenIn(trace, current, "s2c")) /\ StreamingOK'
  <2>1. SeenIn(trace, current, "s2c") = <<>>
    BY <1>2, <1>4 DEF MeasuresOK, SeenOK
  <2>2. IsPrefix(<<>>, <<>>)
    <3>1. <<>> \in Seq(AnyPayload)
      BY EmptySeq
    <3> QED
      BY <3>1, PrefixOfSelf
  <2>3. SeenOK(exchanges'[current], SeenIn(trace, current, "s2c"))
    BY <1>3, <2>1, <2>2, MessagesNone DEF SeenOK
  <2>4. Held' = <<>> /\ SeenIn(trace', current', "s2c") = <<>>
    BY <1>1, <1>3, <2>1 DEF Held
  <2>5. Keeps(parser', <<>>)
    BY <1>1, NewParserKeeps
  <2>6. StreamingOK'
    BY <2>4, <2>5, MessagesNone DEF StreamingOK
  <2> QED
    BY <2>3, <2>6
<1> QED
  BY <1>1, <1>3, <1>4, Quiet

(* What is read is seen before the client has it.                          *)
LEMMA ReadChunkMeasures ==
    ASSUME IInv, MeasuresOK, ReadChunk
    PROVE  MeasuresOK'
<1> DEFINE x == exchanges[current]
<1>1. /\ pc = "stream" /\ pc' = "deliver" /\ parser' = Push(parser, up.ready)
      /\ UNCHANGED <<exchanges, current, up>>
      /\ Observe(current, JsonRpc(parser'.events), "s2c", NoRouting)
  BY DEF ReadChunk
<1>2. /\ x.got \in Seq(AnyByte) /\ up.ready \in Seq(AnyByte)
      /\ x.reply.kind = "stream" /\ x.status = "stream"
      /\ current \in DOMAIN exchanges /\ current \in Nat
      /\ parser \in GoodParser(AnyByte) /\ Typed
  BY <1>1, StreamFacts
<1>3. disk' = disk
  BY <1>1, ObserveKeepsDisk
<1>4. ASSUME disk = "ok"
      PROVE  /\ OthersSeen(current)
             /\ SeenOK(exchanges'[current], SeenIn(trace', current, "s2c"))
             /\ StreamingOK'
  <2>1. PICK g \in Seq(AnyByte), r \in Seq(AnyByte), q \in GoodParser(AnyByte), h \in Seq(AnyByte) :
           /\ g = x.got /\ r = up.ready /\ q = Push(parser, r) /\ h = Cat(g, r)
    <3>1. Push(parser, up.ready) \in GoodParser(AnyByte)
      BY <1>2, StreamBytes, PushGood
    <3> QED
      BY <1>2, <3>1, CatClosed
  <2>2. Keeps(parser, g) /\ SeenIn(trace, current, "s2c") = Messages(g)
    BY <1>1, <1>4, <2>1 DEF MeasuresOK, StreamingOK, Held
  <2>3. Tracks(q, h, StreamEvents(g))
    BY <1>2, <2>1, <2>2, StreamBytes, PushTracks
  <2>4. PICK e \in Seq(Seq(AnyByte)) : e = q.events
    BY DEF GoodParser, AnyParser
  <2>5. PICK p \in Seq(AnyPayload) : p = JsonRpc(e)
    BY JsonRpcType
  <2>6. Messages(h) = Cat(Messages(g), p)
    <3>1. StreamEvents(h) = Cat(StreamEvents(g), e)
      BY <2>3, <2>4 DEF Tracks
    <3>2. StreamEvents(g) \in Seq(Seq(AnyByte))
      BY MessagesType
    <3> QED
      BY <2>5, <3>1, <3>2, JsonRpcCat DEF Messages
  <2>7. Observe(current, p, "s2c", NoRouting)
    BY <1>1, <2>1, <2>4, <2>5
  <2>8. /\ SeenIn(trace', current, "s2c") = Cat(SeenIn(trace, current, "s2c"), p)
        /\ OthersSeen(current)
    <3>1. "s2c" \in Directions
      BY DEF Directions
    <3> QED
      BY <1>2, <1>4, <2>7, <3>1, NoRoutingType, SeenObserved DEF OthersSeen
  <2>9. SeenIn(trace', current, "s2c") = Messages(h)
    BY <2>2, <2>6, <2>8
  <2>10. IsPrefix(Messages(g), Messages(h))
    BY <2>6, MessagesType, PrefixOfConcat DEF Cat
  <2>11. SeenOK(exchanges'[current], SeenIn(trace', current, "s2c"))
    BY <1>1, <1>2, <2>1, <2>9, <2>10 DEF SeenOK
  <2>12. Held' = h /\ parser' = q /\ current' = current
    BY <1>1, <2>1 DEF Held
  <2>13. StreamingOK'
    BY <2>3, <2>9, <2>12 DEF StreamingOK, Tracks
  <2> QED
    BY <2>8, <2>11, <2>13
<1>5. Changes(current)
  BY <1>1, <1>2 DEF Changes
<1> QED
  BY <1>3, <1>4, <1>5, MeasuresStep

LEMMA DeliverMeasures ==
    ASSUME IInv, MeasuresOK, Deliver
    PROVE  MeasuresOK'
<1> DEFINE x == exchanges[current]
<1>1. /\ pc = "deliver" /\ pc' = "stream"
      /\ exchanges' = [exchanges EXCEPT ![current].got = @ \o up.ready]
      /\ UNCHANGED <<current, parser, trace, disk>>
  BY DEF Deliver
<1>2. /\ x.got \in Seq(AnyByte) /\ up.ready \in Seq(AnyByte) /\ x \in Exchange
      /\ x.reply.kind = "stream" /\ x.status = "stream"
      /\ current \in DOMAIN exchanges
  BY <1>1, StreamFacts
<1>3. PICK h \in Seq(AnyByte) : h = Cat(x.got, up.ready)
  BY <1>2, CatClosed
<1>4. /\ Changes(current) /\ exchanges'[current].status = "stream"
      /\ exchanges'[current].got = h
  <2>1. exchanges'[current] = [x EXCEPT !.got = h]
    BY <1>1, <1>2, <1>3 DEF Cat
  <2>2. Changes(current)
    BY <1>1, <1>2 DEF Changes
  <2> QED
    BY <1>2, <2>1, <2>2 DEF Exchange
<1>5. ASSUME disk = "ok"
      PROVE  SeenOK(exchanges'[current], SeenIn(trace, current, "s2c")) /\ StreamingOK'
  <2>1. Keeps(parser, h) /\ SeenIn(trace, current, "s2c") = Messages(h)
    BY <1>1, <1>3, <1>5 DEF MeasuresOK, StreamingOK, Held
  <2>2. IsPrefix(Messages(h), Messages(h))
    BY MessagesType, PrefixOfSelf
  <2>3. SeenOK(exchanges'[current], SeenIn(trace, current, "s2c"))
    BY <1>4, <2>1, <2>2 DEF SeenOK
  <2>4. Held' = h
    BY <1>1, <1>4 DEF Held
  <2>5. StreamingOK'
    BY <1>1, <2>1, <2>4 DEF StreamingOK
  <2> QED
    BY <2>3, <2>5
<1> QED
  BY <1>1, <1>4, <1>5, Quiet

LEMMA ReadEndMeasures ==
    ASSUME IInv, MeasuresOK, ReadEnd
    PROVE  MeasuresOK'
<1> DEFINE x == exchanges[current]
<1>1. /\ pc = "stream" /\ parser' = Finish(parser) /\ Conclude(current, "done")
      /\ Observe(current, JsonRpc(parser'.events), "s2c", NoRouting)
  BY DEF ReadEnd
<1>2. /\ x.got \in Seq(AnyByte) /\ x.reply.kind = "stream"
      /\ current \in DOMAIN exchanges /\ current \in Nat
      /\ parser \in GoodParser(AnyByte) /\ Typed
  BY <1>1, StreamFacts
<1>3. /\ Changes(current) /\ pc' = "idle" /\ exchanges'[current].status = "done"
      /\ exchanges'[current].reply = x.reply /\ exchanges'[current].got = x.got
  BY <1>1, <1>2, Concluded
<1>4. disk' = disk
  BY <1>1, ObserveKeepsDisk
<1>5. ASSUME disk = "ok"
      PROVE  /\ OthersSeen(current)
             /\ SeenOK(exchanges'[current], SeenIn(trace', current, "s2c"))
  <2>1. PICK g \in Seq(AnyByte), q \in GoodParser(AnyByte) : g = x.got /\ q = Finish(parser)
    BY <1>2, StreamBytes, FinishGood
  <2>2. Keeps(parser, g) /\ SeenIn(trace, current, "s2c") = Messages(g)
    BY <1>1, <1>5, <2>1 DEF MeasuresOK, StreamingOK, Held
  <2>3. PICK e \in Seq(Seq(AnyByte)) : e = q.events
    BY DEF GoodParser, AnyParser
  <2>4. StreamEvents(Ended(g)) = Cat(StreamEvents(g), e)
    BY <1>2, <2>1, <2>2, <2>3, StreamBytes, FinishTracks
  <2>5. PICK p \in Seq(AnyPayload) : p = JsonRpc(e)
    BY JsonRpcType
  <2>6. Messages(Ended(g)) = Cat(Messages(g), p)
    <3>1. StreamEvents(g) \in Seq(Seq(AnyByte))
      BY MessagesType
    <3> QED
      BY <2>4, <2>5, <3>1, JsonRpcCat DEF Messages
  <2>7. Observe(current, p, "s2c", NoRouting)
    BY <1>1, <2>1, <2>3, <2>5
  <2>8. /\ SeenIn(trace', current, "s2c") = Cat(SeenIn(trace, current, "s2c"), p)
        /\ OthersSeen(current)
    <3>1. "s2c" \in Directions
      BY DEF Directions
    <3> QED
      BY <1>2, <1>5, <2>7, <3>1, NoRoutingType, SeenObserved DEF OthersSeen
  <2>9. SeenIn(trace', current, "s2c") = Messages(Ended(g))
    BY <2>2, <2>6, <2>8
  <2>10. IsPrefix(Messages(g), Messages(Ended(g)))
    BY <2>6, MessagesType, PrefixOfConcat DEF Cat
  <2>11. SeenOK(exchanges'[current], SeenIn(trace', current, "s2c"))
    BY <1>3, <2>1, <2>9, <2>10 DEF SeenOK
  <2> QED
    BY <2>8, <2>11
<1>6. StreamingOK'
  BY <1>3 DEF StreamingOK
<1> QED
  BY <1>3, <1>4, <1>5, <1>6, MeasuresStep

(* Steps of the surroundings.                                              *)
LEMMA StillMeasured ==
    ASSUME MeasuresOK, UNCHANGED <<exchanges, pc, current, parser, trace>>,
           pc = "deliver" => up'.ready = up.ready,
           disk' = disk \/ disk' = "full"
    PROVE  MeasuresOK'
<1>1. pc \in {"stream", "deliver"} => Held' = Held
  BY DEF Held
<1>2. StreamingOK => StreamingOK'
  BY <1>1 DEF StreamingOK
<1> QED
  BY <1>2 DEF MeasuresOK

LEMMA UpstreamMovesMeasures ==
    ASSUME IInv, MeasuresOK, UpstreamSends \/ UpstreamCloses
    PROVE  MeasuresOK'
<1>1. UNCHANGED <<exchanges, pc, current, parser, trace, disk>>
  BY DEF UpstreamSends, UpstreamCloses
<1>2. up.state = "sending"
  BY DEF UpstreamSends, UpstreamCloses
<1>3. pc # "idle"
  BY <1>2 DEF IInv, HandlerOK, NoUpstream
<1>4. Handling(exchanges[current], up, pc) /\ up \in Upstream
  BY <1>3, CurrentFacts
<1>5. pc = "deliver" => up'.ready = up.ready
  <2>1. CASE UpstreamSends
    BY <1>4, <2>1 DEF UpstreamSends, Handling
  <2>2. CASE UpstreamCloses
    BY <1>4, <2>2 DEF UpstreamCloses, Upstream
  <2> QED
    BY <2>1, <2>2
<1> QED
  BY <1>1, <1>5, StillMeasured

LEMMA UpstreamRepliesMeasures ==
    ASSUME IInv, MeasuresOK, UpstreamReplies
    PROVE  MeasuresOK'
<1> DEFINE x == exchanges[current]
<1>1. UNCHANGED <<pc, current, parser, trace, disk>> /\ up.state = "asked"
  BY DEF UpstreamReplies
<1>2. pc # "idle"
  BY <1>1 DEF IInv, HandlerOK, NoUpstream
<1>3. /\ x \in Exchange /\ current \in DOMAIN exchanges /\ pc = "calling"
      /\ x.status = "waiting" /\ x.got = <<>>
  BY <1>1, <1>2, CurrentFacts DEF Handling
<1>4. PICK r : exchanges' = [exchanges EXCEPT ![current].reply = r]
  BY DEF UpstreamReplies
<1>5. /\ Changes(current) /\ exchanges'[current].status = "waiting"
      /\ exchanges'[current].got = <<>>
  <2>1. exchanges'[current] = [x EXCEPT !.reply = r]
    BY <1>3, <1>4
  <2>2. Changes(current)
    BY <1>3, <1>4 DEF Changes
  <2> QED
    BY <1>3, <2>1, <2>2 DEF Exchange
<1>6. disk = "ok" => SeenOK(exchanges'[current], SeenIn(trace, current, "s2c"))
  <2> SUFFICES ASSUME disk = "ok"
               PROVE  SeenOK(exchanges'[current], SeenIn(trace, current, "s2c"))
    OBVIOUS
  <2>1. SeenIn(trace, current, "s2c") = <<>>
    BY <1>3 DEF MeasuresOK, SeenOK
  <2>2. IsPrefix(<<>>, <<>>)
    <3>1. <<>> \in Seq(AnyPayload)
      BY EmptySeq
    <3> QED
      BY <3>1, PrefixOfSelf
  <2> QED
    BY <1>5, <2>1, <2>2, MessagesNone DEF SeenOK
<1>7. StreamingOK'
  BY <1>1, <1>3 DEF StreamingOK
<1> QED
  BY <1>1, <1>5, <1>6, <1>7, Quiet

LEMMA UpstreamBreaksMeasures ==
    ASSUME IInv, MeasuresOK, UpstreamBreaks
    PROVE  MeasuresOK'
<1> DEFINE x == exchanges[current]
<1>1. /\ UNCHANGED <<pc, current, parser, trace, disk>> /\ up.state = "sending"
      /\ up' = [up EXCEPT !.state = "broken"]
      /\ exchanges' = [exchanges EXCEPT ![current].broken = TRUE]
  BY DEF UpstreamBreaks
<1>2. pc # "idle"
  BY <1>1 DEF IInv, HandlerOK, NoUpstream
<1>3. x \in Exchange /\ current \in DOMAIN exchanges /\ up \in Upstream
  BY <1>2, CurrentFacts
<1>4. /\ Changes(current) /\ exchanges'[current].status = x.status
      /\ exchanges'[current].reply = x.reply /\ exchanges'[current].got = x.got
  <2>1. exchanges'[current] = [x EXCEPT !.broken = TRUE]
    BY <1>1, <1>3
  <2>2. Changes(current)
    BY <1>1, <1>3 DEF Changes
  <2> QED
    BY <1>3, <2>1, <2>2 DEF Exchange
<1>5. up'.ready = up.ready
  BY <1>1, <1>3 DEF Upstream
<1>6. Held' = Held
  BY <1>1, <1>4, <1>5 DEF Held
<1>7. ASSUME disk = "ok"
      PROVE  SeenOK(exchanges'[current], SeenIn(trace, current, "s2c")) /\ StreamingOK'
  <2>1. SeenOK(x, SeenIn(trace, current, "s2c")) /\ StreamingOK
    BY <1>3, <1>7 DEF MeasuresOK
  <2>2. StreamingOK'
    BY <1>1, <1>6, <2>1 DEF StreamingOK
  <2> QED
    BY <1>4, <2>1, <2>2 DEF SeenOK
<1> QED
  BY <1>1, <1>4, <1>7, Quiet

(* Nothing has been seen of an exchange that is new.                       *)
LEMMA SendMeasures ==
    ASSUME IInv, MeasuresOK, Send
    PROVE  MeasuresOK'
<1>1. PICK k \in Nat : k = Len(exchanges) /\ DOMAIN exchanges = 1..k
  BY Domains DEF IInv
<1>2. PICK y : /\ exchanges' = Append(exchanges, y) /\ y.status = "waiting"
               /\ y.got = <<>> /\ y.reply = NoReply
  BY DEF Send
<1>3. UNCHANGED <<pc, current, up, parser, trace, disk>>
  BY DEF Send
<1>4. /\ DOMAIN exchanges' = 1..(k + 1) /\ exchanges'[k + 1] = y
      /\ \A n \in 1..k : exchanges'[n] = exchanges[n]
  <2>1. exchanges' \in Seq(Exchange)
    BY SendKeeps DEF IInv, Typed
  <2>2. Len(exchanges') = k + 1
    BY <1>1, <1>2, LenProperties DEF IInv, Typed
  <2> QED
    BY <1>1, <1>2, <2>1, <2>2, LenProperties DEF IInv, Typed
<1>5. SeenIn(trace, k + 1, "s2c") = <<>>
  <2>1. trace \in Seq(ToSet(trace)) /\ ToSet(trace) \subseteq Entry
    BY SeqOfItsSet DEF IInv, Typed
  <2>2. ToSet(trace) \cap Mine(k + 1, "s2c") = {}
    <3> SUFFICES ASSUME NEW e \in ToSet(trace) PROVE e.n # k + 1
      BY DEF Mine
    <3>1. e.n \in 1..k
      BY <1>1 DEF IInv, TraceOK, EntryOK
    <3> QED
      BY <3>1
  <2>3. Keep(trace, Mine(k + 1, "s2c")) = <<>>
    BY <2>1, <2>2, KeepNone
  <2> QED
    BY <2>3, ImagesEmpty DEF SeenIn
<1>6. ASSUME disk = "ok"
      PROVE  /\ \A n \in 1..(k + 1) : SeenOK(exchanges'[n], SeenIn(trace, n, "s2c"))
             /\ StreamingOK'
  <2>1. ASSUME NEW n \in 1..(k + 1)
        PROVE  SeenOK(exchanges'[n], SeenIn(trace, n, "s2c"))
    <3>1. CASE n \in 1..k
      BY <1>1, <1>4, <1>6, <3>1 DEF MeasuresOK
    <3>2. CASE n = k + 1
      BY <1>2, <1>4, <1>5, <3>2 DEF SeenOK, NoReply
    <3> QED
      BY <3>1, <3>2
  <2>2. pc # "idle" => current \in 1..k
    BY <1>1 DEF IInv, Typed
  <2>3. pc \in {"stream", "deliver"} => Held' = Held
    BY <1>3, <1>4, <2>2 DEF Held
  <2>4. StreamingOK'
    BY <1>3, <1>6, <2>3 DEF StreamingOK, MeasuresOK
  <2> QED
    BY <2>1, <2>4
<1> QED
  BY <1>3, <1>4, <1>6 DEF MeasuresOK

LEMMA InitMeasures ==
    ASSUME Init
    PROVE  MeasuresOK
<1>1. exchanges = <<>> /\ pc = "idle"
  BY DEF Init
<1>2. DOMAIN exchanges = {}
  BY <1>1
<1> QED
  BY <1>1, <1>2 DEF MeasuresOK, StreamingOK

LEMMA StepMeasures ==
    ASSUME IInv, MeasuresOK, [Next]_httpVars
    PROVE  MeasuresOK'
<1>1. CASE Send \/ UpstreamReplies \/ UpstreamSends \/ UpstreamCloses \/ UpstreamBreaks
  BY <1>1, SendMeasures, UpstreamRepliesMeasures, UpstreamMovesMeasures,
     UpstreamBreaksMeasures
<1>2. CASE DiskFills \/ Rest \/ UNCHANGED httpVars
  BY <1>2, StillMeasured DEF DiskFills, Rest, httpVars
<1>3. ASSUME NEW n \in DOMAIN exchanges, HangUp(n)
      PROVE  MeasuresOK'
  BY <1>3, StillMeasured DEF HangUp
<1>4. CASE Refuse \/ Forward \/ AnswerDirect \/ StartStream \/ ReadChunk \/ Deliver
           \/ ReadEnd
  BY <1>4, RefuseMeasures, ForwardMeasures, AnswerDirectMeasures, StartStreamMeasures,
     ReadChunkMeasures, DeliverMeasures, ReadEndMeasures
<1>5. CASE BadGateway \/ LoseDirect \/ DeliverFails \/ ReadFails
  BY <1>5, LostMeasures, CutMeasures
<1> QED
  BY <1>1, <1>2, <1>3, <1>4, <1>5 DEF Next, Handler, Environment

LEMMA MeasuresStreams ==
    ASSUME IInv, MeasuresOK
    PROVE  StreamMeasured
<1> SUFFICES ASSUME disk = "ok", NEW n \in DOMAIN exchanges, Streamed(n)
             PROVE  LET x     == exchanges[n]
                        given == JsonRpc(StreamEvents(x.got))
                    IN  /\ IsPrefix(given, Seen(n, "s2c"))
                        /\ pc = "stream" /\ n = current => Seen(n, "s2c") = given
                        /\ x.status = "done" =>
                              Seen(n, "s2c") = JsonRpc(StreamEvents(Ended(x.got)))
  BY DEF StreamMeasured
<1>1. Seen(n, "s2c") = SeenIn(trace, n, "s2c")
  <2>1. trace \in Seq(Entry)
    BY DEF IInv, Typed
  <2> QED
    BY <2>1, SeenAs DEF Seen
<1>2. SeenOK(exchanges[n], SeenIn(trace, n, "s2c")) /\ StreamingOK
  BY DEF MeasuresOK
<1> QED
  BY <1>1, <1>2 DEF SeenOK, StreamingOK, Held, Streamed, Messages

(* While events can be written, the trace has the JSON-RPC messages of     *)
(* every stream in order and no others, each before the client has it:     *)
(* however the stream is cut into chunks, and whichever of the upstream    *)
(* and the client fails in the middle.                                     *)
THEOREM StreamsAreMeasured == Spec => []StreamMeasured
<1>1. Init => IInv /\ MeasuresOK
  BY InitIInv, InitMeasures
<1>2. (IInv /\ MeasuresOK) /\ [Next]_httpVars => (IInv /\ MeasuresOK)'
  BY StepIInv, StepMeasures
<1>3. IInv /\ MeasuresOK => StreamMeasured
  BY MeasuresStreams
<1> QED
  BY <1>1, <1>2, <1>3, PTL DEF Spec
=============================================================================
