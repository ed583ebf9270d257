----------------------------- MODULE Napi_proofs -----------------------------
(***************************************************************************)
(* Proofs about the parts of the N-API bridge beside the handles (those are *)
(* in Page_proofs), for every value of their constants. The parts share no *)
(* state; each section takes one of them as an instance over variables of  *)
(* its own, named as in MCPage.                                            *)
(***************************************************************************)
EXTENDS Integers, Sequences, FiniteSets, SequenceTheorems, WellFoundedInduction, TLAPS

-----------------------------------------------------------------------------
CONSTANTS
  MaxHandle, MaxBuffer, MaxPtr

VARIABLES
  names, meta, js, region, answer, stale, tainted

Buffers == INSTANCE NapiBuffers

(* NapiBuffers: the bytes of buffers, and the regions given for them.       *)

BuffersAssumed == MaxHandle \in Nat /\ MaxBuffer \in Nat /\ MaxPtr \in Nat

BuffersTyped ==
  /\ names \in [Buffers!Handle -> [kind : {"none", "array", "view"}, of : 0 .. MaxBuffer]]
  /\ meta \in [Buffers!Handle -> Buffers!NoMeta .. MaxPtr]
  /\ js \in [Buffers!Buffer -> Buffers!NoBuffer .. MaxBuffer]
  /\ region \in [1 .. MaxPtr -> [bytes : 0 .. MaxBuffer, of : 0 .. MaxBuffer]]
  /\ answer \in [of : 0 .. MaxBuffer, ptr : 0 .. MaxPtr]
  /\ stale \subseteq Buffers!Handle /\ tainted \subseteq Buffers!Buffer
  /\ \A h \in Buffers!Handle : names[h].kind # "none" => names[h].of \in Buffers!Buffer

\* What was filed for a handle since it names what it does is its own region.
MetaInv ==
  \A h \in Buffers!Handle : names[h].kind # "none" /\ h \notin stale /\ meta[h] > 0 =>
    region[meta[h]].of = names[h].of

BuffersInv == BuffersTyped /\ MetaInv /\ Buffers!BytesStayApart

\* A handle that is out of date taints the buffer.
LEMMA Tainting ==
  ASSUME BuffersTyped, NEW h \in Buffers!Handle, names[h].kind # "none", Buffers!Taint(h), tainted' = {}
  PROVE  tainted = {} /\ h \notin stale
  BY DEF Buffers!Taint, BuffersTyped

LEMMA CreateKeeps ==
  ASSUME BuffersAssumed, BuffersInv, NEW h \in Buffers!Handle, NEW b \in Buffers!Buffer,
         NEW kind \in {"array", "view"}, NEW ptr \in 0 .. MaxPtr, NEW bytes \in {0, b},
         NEW shown \in BOOLEAN, Buffers!Create(h, b, kind, ptr, bytes, shown)
  PROVE  BuffersInv'
<1> DEFINE name == [kind |-> kind, of |-> b]
           filled == [bytes |-> bytes, of |-> b]
<1>1. /\ Buffers!Free(h) /\ Buffers!Fresh(b) /\ (ptr # 0 => Buffers!Unused(ptr))
      /\ names' = [names EXCEPT ![h] = name]
      /\ meta' = [meta EXCEPT ![h] = ptr] /\ stale' = stale \ {h}
      /\ js' = [js EXCEPT ![b] = bytes]
      /\ region' = IF ptr = 0 THEN region ELSE [region EXCEPT ![ptr] = filled]
      /\ answer' = IF shown THEN [of |-> b, ptr |-> ptr] ELSE Buffers!NoAnswer
      /\ UNCHANGED tainted
  BY DEF Buffers!Create, Buffers!MetaSet
<1>2. /\ name \in [kind : {"none", "array", "view"}, of : 0 .. MaxBuffer]
      /\ filled \in [bytes : 0 .. MaxBuffer, of : 0 .. MaxBuffer]
      /\ name.of = b /\ name.kind = kind /\ filled.of = b /\ filled.bytes = bytes
      /\ bytes \in 0 .. MaxBuffer /\ bytes \in Buffers!NoBuffer .. MaxBuffer /\ b # 0
      /\ ptr \in Buffers!NoMeta .. MaxPtr
  BY DEF Buffers!Buffer, BuffersAssumed, Buffers!NoBuffer, Buffers!NoMeta
<1> HIDE DEF name, filled
<1>3. BuffersTyped /\ MetaInv /\ Buffers!BytesStayApart
  BY DEF BuffersInv
<1>4. /\ names' \in [Buffers!Handle -> [kind : {"none", "array", "view"}, of : 0 .. MaxBuffer]]
      /\ names'[h] = name /\ \A k \in Buffers!Handle : k # h => names'[k] = names[k]
  BY <1>1, <1>2, <1>3 DEF BuffersTyped
<1>5. /\ meta' \in [Buffers!Handle -> Buffers!NoMeta .. MaxPtr]
      /\ meta'[h] = ptr /\ \A k \in Buffers!Handle : k # h => meta'[k] = meta[k]
  BY <1>1, <1>2, <1>3 DEF BuffersTyped
<1>6. /\ js' \in [Buffers!Buffer -> Buffers!NoBuffer .. MaxBuffer]
      /\ js'[b] = bytes /\ \A c \in Buffers!Buffer : c # b => js'[c] = js[c]
  BY <1>1, <1>2, <1>3 DEF BuffersTyped
<1>7. /\ region' \in [1 .. MaxPtr -> [bytes : 0 .. MaxBuffer, of : 0 .. MaxBuffer]]
      /\ ptr # 0 => ptr \in 1 .. MaxPtr /\ region'[ptr] = filled /\ region[ptr].of = 0
      /\ \A p \in 1 .. MaxPtr : p # ptr => region'[p] = region[p]
  <2>1. ptr # 0 => ptr \in 1 .. MaxPtr
    BY DEF BuffersAssumed
  <2>2. CASE ptr = 0
    BY <1>1, <1>3, <2>2 DEF BuffersTyped
  <2>3. CASE ptr # 0
    BY <1>1, <1>2, <1>3, <2>1, <2>3 DEF BuffersTyped, Buffers!Unused
  <2>4. QED BY <2>2, <2>3
<1>8. answer' \in [of : 0 .. MaxBuffer, ptr : 0 .. MaxPtr]
  BY <1>1, <1>2 DEF Buffers!NoAnswer, Buffers!Buffer, BuffersAssumed
<1>9. BuffersTyped'
  BY <1>1, <1>2, <1>3, <1>4, <1>5, <1>6, <1>7, <1>8 DEF BuffersTyped
<1>10. MetaInv'
  <2> SUFFICES ASSUME NEW k \in Buffers!Handle, names'[k].kind # "none", k \notin stale', meta'[k] > 0
               PROVE  region'[meta'[k]].of = names'[k].of
    BY DEF MetaInv
  <2>1. CASE k = h
    BY <1>2, <1>4, <1>5, <1>7, <2>1
  <2>2. CASE k # h
    <3>1. /\ names'[k] = names[k] /\ meta'[k] = meta[k] /\ k \notin stale
          /\ meta[k] \in Buffers!NoMeta .. MaxPtr /\ names[k].of \in Buffers!Buffer
      BY <1>1, <1>3, <1>4, <1>5, <2>2 DEF BuffersTyped
    <3>2. region[meta[k]].of = names[k].of /\ names[k].of # 0
      BY <1>3, <2>2, <3>1 DEF MetaInv, Buffers!Buffer
    <3>3. meta[k] \in 1 .. MaxPtr
      BY <3>1 DEF Buffers!NoMeta, BuffersAssumed
    <3>4. meta[k] # ptr
      BY <1>7, <3>2, <3>3
    <3>5. QED BY <1>7, <3>1, <3>2, <3>3, <3>4
  <2>3. QED BY <2>1, <2>2
<1>11. Buffers!BytesStayApart'
  <2> SUFFICES ASSUME tainted' = {}
               PROVE  /\ \A c \in Buffers!Buffer : js'[c] \in {Buffers!NoBuffer, 0, c}
                      /\ \A p \in 1 .. MaxPtr : region'[p].bytes \in {0, region'[p].of}
                      /\ answer'.ptr # 0 => region'[answer'.ptr].of = answer'.of
    BY DEF Buffers!BytesStayApart
  <2>1. /\ \A c \in Buffers!Buffer : js[c] \in {Buffers!NoBuffer, 0, c}
        /\ \A p \in 1 .. MaxPtr : region[p].bytes \in {0, region[p].of}
    BY <1>1, <1>3 DEF Buffers!BytesStayApart
  <2>2. \A c \in Buffers!Buffer : js'[c] \in {Buffers!NoBuffer, 0, c}
    BY <1>6, <2>1
  <2>3. \A p \in 1 .. MaxPtr : region'[p].bytes \in {0, region'[p].of}
    <3> TAKE p \in 1 .. MaxPtr
    <3>1. CASE p = ptr
      BY <1>2, <1>7, <3>1
    <3>2. CASE p # ptr
      BY <1>7, <2>1, <3>2
    <3>3. QED BY <3>1, <3>2
  <2>4. answer'.ptr # 0 => answer'.ptr = ptr /\ answer'.of = b
    BY <1>1 DEF Buffers!NoAnswer
  <2>5. QED BY <1>2, <1>7, <2>2, <2>3, <2>4
<1>12. QED BY <1>9, <1>10, <1>11 DEF BuffersInv

LEMMA FromJavaScriptKeeps ==
  ASSUME BuffersAssumed, BuffersInv, NEW h \in Buffers!Handle, NEW b \in Buffers!Buffer,
         NEW kind \in {"array", "view"}, Buffers!FromJavaScript(h, b, kind)
  PROVE  BuffersInv'
<1> DEFINE name == [kind |-> kind, of |-> b]
<1>1. /\ names' = [names EXCEPT ![h] = name]
      /\ js' = IF js[b] = Buffers!NoBuffer THEN [js EXCEPT ![b] = b] ELSE js
      /\ stale' = IF meta[h] # Buffers!NoMeta THEN stale \cup {h} ELSE stale
      /\ answer' = Buffers!NoAnswer
      /\ UNCHANGED <<meta, region, tainted>>
  BY DEF Buffers!FromJavaScript
<1>2. /\ name \in [kind : {"none", "array", "view"}, of : 0 .. MaxBuffer]
      /\ name.of = b /\ b \in Buffers!NoBuffer .. MaxBuffer
  BY DEF Buffers!Buffer, BuffersAssumed, Buffers!NoBuffer
<1> HIDE DEF name
<1>3. BuffersTyped /\ MetaInv /\ Buffers!BytesStayApart
  BY DEF BuffersInv
<1>4. /\ names' \in [Buffers!Handle -> [kind : {"none", "array", "view"}, of : 0 .. MaxBuffer]]
      /\ names'[h] = name /\ \A k \in Buffers!Handle : k # h => names'[k] = names[k]
  BY <1>1, <1>2, <1>3 DEF BuffersTyped
<1>5. /\ js' \in [Buffers!Buffer -> Buffers!NoBuffer .. MaxBuffer]
      /\ \A c \in Buffers!Buffer : js'[c] = js[c] \/ js'[c] = c
  BY <1>1, <1>2, <1>3 DEF BuffersTyped
<1>6. BuffersTyped'
  BY <1>1, <1>2, <1>3, <1>4, <1>5 DEF BuffersTyped, Buffers!NoAnswer, BuffersAssumed
<1>7. MetaInv'
  <2> SUFFICES ASSUME NEW k \in Buffers!Handle, names'[k].kind # "none", k \notin stale', meta'[k] > 0
               PROVE  region'[meta'[k]].of = names'[k].of
    BY DEF MetaInv
  <2>1. k # h /\ k \notin stale
    BY <1>1 DEF Buffers!NoMeta
  <2>2. QED BY <1>1, <1>3, <1>4, <2>1 DEF MetaInv
<1>8. Buffers!BytesStayApart'
  BY <1>1, <1>3, <1>5 DEF Buffers!BytesStayApart, Buffers!NoAnswer
<1>9. QED BY <1>6, <1>7, <1>8 DEF BuffersInv

LEMMA InfoKeeps ==
  ASSUME BuffersAssumed, BuffersInv, NEW g \in Buffers!Handle, names[g].kind = "array", Buffers!Taint(g),
         \/ answer' = Buffers!NoAnswer
         \/ meta[g] > 0 /\ answer' = [of |-> names[g].of, ptr |-> meta[g]],
         UNCHANGED <<names, meta, js, region, stale>>
  PROVE  BuffersInv'
<1>1. BuffersTyped /\ MetaInv /\ Buffers!BytesStayApart
  BY DEF BuffersInv
<1>2. names[g].of \in Buffers!Buffer /\ names[g].of \in 0 .. MaxBuffer /\ meta[g] \in Buffers!NoMeta .. MaxPtr
  BY <1>1 DEF BuffersTyped
<1>3. answer' \in [of : 0 .. MaxBuffer, ptr : 0 .. MaxPtr]
  BY <1>2 DEF Buffers!NoAnswer, Buffers!NoMeta, BuffersAssumed
<1>4. tainted' \subseteq Buffers!Buffer
  BY <1>1, <1>2 DEF Buffers!Taint, BuffersTyped
<1>5. BuffersTyped' /\ MetaInv'
  BY <1>1, <1>3, <1>4 DEF BuffersTyped, MetaInv
<1>6. Buffers!BytesStayApart'
  <2> SUFFICES ASSUME tainted' = {} PROVE Buffers!BytesStayApart'
    BY DEF Buffers!BytesStayApart
  <2>1. tainted = {} /\ g \notin stale
    BY <1>1, Tainting
  <2>2. answer'.ptr # 0 => region[answer'.ptr].of = answer'.of
    BY <1>1, <2>1 DEF MetaInv, Buffers!NoAnswer
  <2>3. QED BY <1>1, <2>1, <2>2 DEF Buffers!BytesStayApart
<1>7. QED BY <1>5, <1>6 DEF BuffersInv

LEMMA CreateTypedArrayKeeps ==
  ASSUME BuffersAssumed, BuffersInv, NEW h \in Buffers!Handle, NEW g \in Buffers!Handle,
         Buffers!CreateTypedArray(h, g)
  PROVE  BuffersInv'
<1> DEFINE b == names[h].of
           name == [kind |-> "view", of |-> b]
<1>1. /\ names[h].kind = "array" /\ Buffers!Free(g) /\ Buffers!Taint(h)
      /\ js' = IF meta[h] > 0 THEN [js EXCEPT ![b] = region[meta[h]].bytes] ELSE js
      /\ names' = [names EXCEPT ![g] = name]
      /\ stale' = IF meta[g] # Buffers!NoMeta THEN stale \cup {g} ELSE stale
      /\ answer' = Buffers!NoAnswer
      /\ UNCHANGED <<meta, region>>
  BY DEF Buffers!CreateTypedArray
<1>2. BuffersTyped /\ MetaInv /\ Buffers!BytesStayApart
  BY DEF BuffersInv
<1>3. b \in Buffers!Buffer /\ b \in 0 .. MaxBuffer /\ meta[h] \in Buffers!NoMeta .. MaxPtr
  BY <1>1, <1>2 DEF BuffersTyped
<1>4. /\ name \in [kind : {"none", "array", "view"}, of : 0 .. MaxBuffer]
      /\ name.of = b
  BY <1>3
<1> HIDE DEF name, b
<1>5. /\ names' \in [Buffers!Handle -> [kind : {"none", "array", "view"}, of : 0 .. MaxBuffer]]
      /\ names'[g] = name /\ \A k \in Buffers!Handle : k # g => names'[k] = names[k]
  BY <1>1, <1>2, <1>4 DEF BuffersTyped
<1>6. meta[h] > 0 => /\ meta[h] \in 1 .. MaxPtr
                     /\ region[meta[h]].bytes \in Buffers!NoBuffer .. MaxBuffer
  <2> HAVE meta[h] > 0
  <2>1. meta[h] \in 1 .. MaxPtr
    BY <1>3 DEF Buffers!NoMeta, BuffersAssumed
  <2>2. region[meta[h]].bytes \in 0 .. MaxBuffer
    BY <1>2, <2>1 DEF BuffersTyped
  <2>3. QED BY <2>1, <2>2 DEF Buffers!NoBuffer
<1>7. /\ js' \in [Buffers!Buffer -> Buffers!NoBuffer .. MaxBuffer]
      /\ \A c \in Buffers!Buffer : c # b => js'[c] = js[c]
      /\ js'[b] = IF meta[h] > 0 THEN region[meta[h]].bytes ELSE js[b]
  BY <1>1, <1>2, <1>3, <1>6 DEF BuffersTyped
<1>8. tainted' \subseteq Buffers!Buffer
  BY <1>1, <1>2, <1>3 DEF Buffers!Taint, BuffersTyped, b
<1>9. BuffersTyped'
  <2>1. answer' \in [of : 0 .. MaxBuffer, ptr : 0 .. MaxPtr] /\ stale' \subseteq Buffers!Handle
    BY <1>1, <1>2 DEF BuffersTyped, Buffers!NoAnswer, BuffersAssumed
  <2>2. \A k \in Buffers!Handle : names'[k].kind # "none" => names'[k].of \in Buffers!Buffer
    BY <1>2, <1>3, <1>4, <1>5 DEF BuffersTyped
  <2>3. QED BY <1>1, <1>2, <1>5, <1>7, <1>8, <2>1, <2>2 DEF BuffersTyped
<1>10. MetaInv'
  <2> SUFFICES ASSUME NEW k \in Buffers!Handle, names'[k].kind # "none", k \notin stale', meta'[k] > 0
               PROVE  region'[meta'[k]].of = names'[k].of
    BY DEF MetaInv
  <2>1. k # g /\ k \notin stale
    BY <1>1 DEF Buffers!NoMeta
  <2>2. QED BY <1>1, <1>2, <1>5, <2>1 DEF MetaInv
<1>11. Buffers!BytesStayApart'
  <2> SUFFICES ASSUME tainted' = {} PROVE Buffers!BytesStayApart'
    BY DEF Buffers!BytesStayApart
  <2>1. tainted = {} /\ h \notin stale
    BY <1>1, <1>2, Tainting
  <2>2. meta[h] > 0 => region[meta[h]].of = b
    BY <1>1, <1>2, <2>1 DEF MetaInv, b
  <2>3. /\ \A c \in Buffers!Buffer : js[c] \in {Buffers!NoBuffer, 0, c}
        /\ \A p \in 1 .. MaxPtr : region[p].bytes \in {0, region[p].of}
    BY <1>2, <2>1 DEF Buffers!BytesStayApart
  <2>4. js'[b] \in {Buffers!NoBuffer, 0, b}
    BY <1>3, <1>6, <1>7, <2>2, <2>3
  <2>5. QED BY <1>1, <1>7, <2>3, <2>4 DEF Buffers!BytesStayApart, Buffers!NoAnswer
<1>12. QED BY <1>9, <1>10, <1>11 DEF BuffersInv

LEMMA WritesKeep ==
  ASSUME BuffersAssumed, BuffersInv,
         \/ Buffers!NativeWrites
         \/ \E b \in Buffers!Buffer : Buffers!JavaScriptWrites(b)
         \/ \E h \in Buffers!Handle : Buffers!FreeHandle(h)
  PROVE  BuffersInv'
<1>1. BuffersTyped /\ MetaInv /\ Buffers!BytesStayApart
  BY DEF BuffersInv
<1>2. CASE Buffers!NativeWrites
  <2> DEFINE p == answer.ptr
             new == [region[p] EXCEPT !.bytes = answer.of]
  <2>1. /\ p # 0 /\ region' = [region EXCEPT ![p] = new]
        /\ UNCHANGED <<names, meta, js, answer, stale, tainted>>
    BY <1>2 DEF Buffers!NativeWrites
  <2>2. p \in 1 .. MaxPtr /\ answer.of \in 0 .. MaxBuffer
    BY <1>1, <2>1 DEF BuffersTyped, BuffersAssumed
  <2>3. /\ new \in [bytes : 0 .. MaxBuffer, of : 0 .. MaxBuffer]
        /\ new.of = region[p].of /\ new.bytes = answer.of
    BY <1>1, <2>2 DEF BuffersTyped
  <2> HIDE DEF new, p
  <2>4. /\ region' \in [1 .. MaxPtr -> [bytes : 0 .. MaxBuffer, of : 0 .. MaxBuffer]]
        /\ region'[p] = new /\ \A q \in 1 .. MaxPtr : q # p => region'[q] = region[q]
    BY <1>1, <2>1, <2>2, <2>3 DEF BuffersTyped
  <2>5. \A q \in 1 .. MaxPtr : region'[q].of = region[q].of
    BY <2>3, <2>4
  <2>6. BuffersTyped'
    BY <1>1, <2>1, <2>4 DEF BuffersTyped
  <2>7. \A h \in Buffers!Handle : meta[h] > 0 => meta[h] \in 1 .. MaxPtr
    <3> TAKE h \in Buffers!Handle
    <3>1. meta[h] \in Buffers!NoMeta .. MaxPtr
      BY <1>1 DEF BuffersTyped
    <3>2. QED BY <3>1 DEF Buffers!NoMeta, BuffersAssumed
  <2>8. MetaInv'
    BY <1>1, <2>1, <2>5, <2>7 DEF MetaInv
  <2>9. Buffers!BytesStayApart'
    BY <1>1, <2>1, <2>2, <2>3, <2>4, <2>5 DEF Buffers!BytesStayApart, p
  <2>10. QED BY <2>6, <2>8, <2>9 DEF BuffersInv
<1>3. ASSUME NEW b \in Buffers!Buffer, Buffers!JavaScriptWrites(b) PROVE BuffersInv'
  <2>1. /\ js' = [js EXCEPT ![b] = b] /\ UNCHANGED <<names, meta, region, answer, stale, tainted>>
    BY <1>3 DEF Buffers!JavaScriptWrites
  <2>2. b \in Buffers!NoBuffer .. MaxBuffer
    BY DEF Buffers!Buffer, Buffers!NoBuffer, BuffersAssumed
  <2>3. /\ js' \in [Buffers!Buffer -> Buffers!NoBuffer .. MaxBuffer]
        /\ \A c \in Buffers!Buffer : js'[c] = js[c] \/ js'[c] = c
    BY <1>1, <2>1, <2>2 DEF BuffersTyped
  <2>4. QED BY <1>1, <2>1, <2>3 DEF BuffersInv, BuffersTyped, MetaInv, Buffers!BytesStayApart
<1>4. ASSUME NEW h \in Buffers!Handle, Buffers!FreeHandle(h) PROVE BuffersInv'
  <2>1. names' = [names EXCEPT ![h] = Buffers!Nothing]
        /\ UNCHANGED <<meta, js, region, answer, stale, tainted>>
    BY <1>4 DEF Buffers!FreeHandle
  <2>2. /\ Buffers!Nothing \in [kind : {"none", "array", "view"}, of : 0 .. MaxBuffer]
        /\ Buffers!Nothing.kind = "none"
    BY DEF Buffers!Nothing, BuffersAssumed
  <2>3. /\ names' \in [Buffers!Handle -> [kind : {"none", "array", "view"}, of : 0 .. MaxBuffer]]
        /\ names'[h].kind = "none" /\ \A k \in Buffers!Handle : k # h => names'[k] = names[k]
    BY <1>1, <2>1, <2>2 DEF BuffersTyped
  <2>4. QED BY <1>1, <2>1, <2>3 DEF BuffersInv, BuffersTyped, MetaInv, Buffers!BytesStayApart
<1>5. QED BY <1>2, <1>3, <1>4

LEMMA BuffersKeep ==
  ASSUME BuffersAssumed, BuffersInv, [Buffers!Next]_(Buffers!vars)
  PROVE  BuffersInv'
<1>1. BuffersTyped
  BY DEF BuffersInv
<1>2. \A h \in Buffers!Handle, b \in Buffers!Buffer, ptr \in 0 .. MaxPtr :
        Buffers!CreateArrayBuffer(h, b, ptr) \/ Buffers!CreateBuffer(h, b, ptr) \/ Buffers!CreateBufferCopy(h, b, ptr)
        => BuffersInv'
  BY CreateKeeps DEF Buffers!CreateArrayBuffer, Buffers!CreateBuffer, Buffers!CreateBufferCopy
<1>3. \A h \in Buffers!Handle, b \in Buffers!Buffer, ptr \in 1 .. MaxPtr :
        Buffers!CreateExternalArrayBuffer(h, b, ptr) \/ Buffers!CreateExternalBuffer(h, b, ptr) => BuffersInv'
  <2>1. \A ptr \in 1 .. MaxPtr : ptr \in 0 .. MaxPtr
    BY DEF BuffersAssumed
  <2>2. QED BY <2>1, CreateKeeps DEF Buffers!CreateExternalArrayBuffer, Buffers!CreateExternalBuffer
<1>4. \A h \in Buffers!Handle, b \in Buffers!Buffer, kind \in {"array", "view"} :
        Buffers!FromJavaScript(h, b, kind) => BuffersInv'
  BY FromJavaScriptKeeps
<1>5. \A h, g \in Buffers!Handle :
        Buffers!GetBufferInfo(h, g) \/ Buffers!CreateTypedArray(h, g) \/ Buffers!ViewInfo(h, g) => BuffersInv'
  <2> TAKE h, g \in Buffers!Handle
  <2>1. CASE Buffers!GetBufferInfo(h, g)
    <3>1. /\ names[g].kind = "array" /\ Buffers!Taint(g) /\ meta[g] > 0
          /\ answer' = [of |-> names[g].of, ptr |-> meta[g]]
          /\ UNCHANGED <<names, meta, js, region, stale>>
      BY <2>1 DEF Buffers!GetBufferInfo
    <3>2. QED BY <3>1, InfoKeeps
  <2>2. CASE Buffers!ViewInfo(h, g)
    <3>1. names[h].of \in Buffers!Buffer
      BY <1>1, <2>2 DEF Buffers!ViewInfo, BuffersTyped
    <3>2. QED BY <2>2, <3>1, FromJavaScriptKeeps DEF Buffers!ViewInfo
  <2>3. CASE Buffers!CreateTypedArray(h, g)
    BY <2>3, CreateTypedArrayKeeps
  <2>4. QED BY <2>1, <2>2, <2>3
<1>6. \A h \in Buffers!Handle : Buffers!GetArrayBufferInfo(h) => BuffersInv'
  <2> TAKE h \in Buffers!Handle
  <2> HAVE Buffers!GetArrayBufferInfo(h)
  <2>1. /\ names[h].kind = "array" /\ Buffers!Taint(h)
        /\ \/ answer' = Buffers!NoAnswer
           \/ meta[h] > 0 /\ answer' = [of |-> names[h].of, ptr |-> meta[h]]
        /\ UNCHANGED <<names, meta, js, region, stale>>
    BY DEF Buffers!GetArrayBufferInfo
  <2>2. QED BY <2>1, InfoKeeps
<1>7. CASE UNCHANGED Buffers!vars
  BY <1>7 DEF Buffers!vars, BuffersInv, BuffersTyped, MetaInv, Buffers!BytesStayApart
<1>8. QED BY <1>2, <1>3, <1>4, <1>5, <1>6, <1>7, WritesKeep DEF Buffers!Next

LEMMA BuffersStart ==
  ASSUME BuffersAssumed, Buffers!Init
  PROVE  BuffersInv
<1>1. BuffersTyped
  BY DEF Buffers!Init, BuffersTyped, Buffers!Nothing, Buffers!NoMeta, Buffers!NoBuffer, Buffers!NoAnswer, BuffersAssumed
<1>2. MetaInv
  BY DEF Buffers!Init, MetaInv, Buffers!Nothing
<1>3. Buffers!BytesStayApart
  BY DEF Buffers!Init, Buffers!BytesStayApart, Buffers!NoAnswer
<1>4. QED BY <1>1, <1>2, <1>3 DEF BuffersInv

(* The bytes of one buffer never turn up in another, and a pointer leads to *)
(* the region of its buffer, for any handles, buffers and regions, unless a *)
(* buffer was reached by a handle whose slot had been another's.            *)
THEOREM BytesStayApartAlways ==
  ASSUME BuffersAssumed
  PROVE  Buffers!Spec => []Buffers!BytesStayApart
<1>1. Buffers!Init => BuffersInv
  BY BuffersStart
<1>2. BuffersInv /\ [Buffers!Next]_(Buffers!vars) => BuffersInv'
  BY BuffersKeep
<1>3. BuffersInv => Buffers!BytesStayApart
  BY DEF BuffersInv
<1>4. QED BY <1>1, <1>2, <1>3, PTL DEF Buffers!Spec

-----------------------------------------------------------------------------
CONSTANTS
  Value, MaxAnswer

VARIABLES
  prop, frozen, calls, inside, thrownBy, answered

Objects == INSTANCE NapiObjects WITH
  MaxCall <- MaxAnswer, pending <- thrownBy, last <- answered

(* NapiObjects: what a call on a property answers.                          *)

(* A value is not the mark of an empty slot.                                *)
ValuesAssumed == "none" \notin Value

LEMMA AnswerKeeps ==
  ASSUME NEW call, NEW status, NEW value, NEW told, Objects!Answer(call, status, value, told),
         status # "pending" \/ thrownBy' # "none",
         call = "set" /\ status = "ok" => told
  PROVE  Objects!AnswersAreTrue'
  BY DEF Objects!Answer, Objects!AnswersAreTrue

LEMMA WaitKeeps ==
  ASSUME Objects!AnswersAreTrue, UNCHANGED <<thrownBy, answered>>
  PROVE  Objects!AnswersAreTrue'
  BY DEF Objects!AnswersAreTrue

LEMMA ObjectsStep ==
  ASSUME ValuesAssumed, Objects!AnswersAreTrue, [Objects!Next]_(Objects!vars)
  PROVE  Objects!AnswersAreTrue'
<1>1. ASSUME NEW v \in Value, Objects!Set(v) PROVE Objects!AnswersAreTrue'
  <2>1. CASE prop = "accessor" BY <1>1, <2>1, WaitKeeps DEF Objects!Set, Objects!Wait
  <2>2. CASE prop # "accessor"
    BY <1>1, <2>2 DEF Objects!Set, Objects!AnswerWrite, Objects!AnswersAreTrue, Objects!LookupError
  <2> QED BY <2>1, <2>2
<1>2. ASSUME NEW v \in Value, Objects!JsReturns(v) PROVE Objects!AnswersAreTrue'
  BY <1>2, AnswerKeeps DEF Objects!JsReturns, Objects!Answered
<1>3. ASSUME NEW v \in Value, Objects!JsThrows(v) PROVE Objects!AnswersAreTrue'
  <2>1. thrownBy' # "none" BY <1>3 DEF Objects!JsThrows, Objects!LookupError, ValuesAssumed
  <2> QED BY <1>3, <2>1, AnswerKeeps DEF Objects!JsThrows, Objects!Answered
<1>4. ASSUME NEW v \in Value, Objects!Throw(v) PROVE Objects!AnswersAreTrue'
  BY <1>4, AnswerKeeps DEF Objects!Throw
<1>5. ASSUME NEW what \in Objects!Property \ {"absent"}, Objects!Define(what) PROVE Objects!AnswersAreTrue'
  BY <1>5, AnswerKeeps, WaitKeeps DEF Objects!Define, Objects!Unwind
<1>6. CASE Objects!NotAnObject
  BY <1>6, AnswerKeeps DEF Objects!NotAnObject
<1>7. CASE Objects!Get
  BY <1>7, AnswerKeeps, WaitKeeps DEF Objects!Get, Objects!Wait
<1>8. CASE Objects!Has
  BY <1>8, AnswerKeeps DEF Objects!Has
<1>9. CASE Objects!Delete
  BY <1>9, AnswerKeeps, WaitKeeps DEF Objects!Delete, Objects!Unwind
<1>10. CASE Objects!Freeze \/ Objects!CallNothing \/ Objects!GetAndClear
  BY <1>10, AnswerKeeps DEF Objects!Freeze, Objects!CallNothing, Objects!GetAndClear
<1>11. CASE Objects!CallFunction \/ Objects!CallNative \/ Objects!NativeReturns
  BY <1>11, WaitKeeps DEF Objects!CallFunction, Objects!Wait, Objects!CallNative, Objects!NativeReturns
<1>12. CASE UNCHANGED Objects!vars
  BY <1>12, WaitKeeps DEF Objects!vars
<1> QED
  BY <1>1, <1>2, <1>3, <1>4, <1>5, <1>6, <1>7, <1>8, <1>9, <1>10, <1>11, <1>12 DEF Objects!Next

(* A write that answered OK can be read back or JavaScript was told of it,  *)
(* one that did not left the property alone, and PENDING_EXCEPTION leaves an*)
(* exception to fetch: for any values and any nesting of calls.             *)
THEOREM AnswersAreTrueAlways ==
  ASSUME ValuesAssumed
  PROVE  Objects!Spec => []Objects!AnswersAreTrue
<1>1. Objects!Init => Objects!AnswersAreTrue BY DEF Objects!Init, Objects!AnswersAreTrue
<1> QED BY <1>1, ObjectsStep, PTL DEF Objects!Spec

-----------------------------------------------------------------------------
CONSTANTS
  MaxFrame, MaxCall, MaxArgs, MaxEnv, MaxDeferred

VARIABLES
  called, infos, callFrames, argv, refused, envs, activeEnv, scopes, hooks,
  deferred, promise, accepted, passed, released

Env == INSTANCE NapiEnv WITH
  calls <- called, frames <- callFrames

(* NapiEnv: what a call into native code knows of itself, and deferreds.    *)

EnvAssumed == MaxCall \in Nat /\ MaxArgs \in Nat

FrameOf == [call : Nat, kind : Env!Kind, env : Nat]
InfoOf == [this : Seq(Nat), args : Seq(Seq(Nat))]

CallsTyped ==
  /\ called \in Nat /\ envs \in Nat /\ activeEnv \in Nat /\ callFrames \in Seq(FrameOf)
  /\ passed \in [Env!Call -> InfoOf] /\ infos \in [Env!Call -> InfoOf]
  /\ argv \in [Env!Call -> [1 .. MaxArgs -> Seq(Nat) \cup {Env!Garbage}]]

\* Calls that run are different ones, all of those that were made.
FramesInv ==
  /\ \A i \in 1 .. Len(callFrames) : callFrames[i].call \in 1 .. called
  /\ \A i, j \in 1 .. Len(callFrames) : callFrames[i].call = callFrames[j].call => i = j

\* A call that was not made yet has nothing in native memory.
UnusedInv == \A k \in Env!Call : k > called => \A i \in 1 .. MaxArgs : argv[k][i] = Env!Garbage

CallsInv == CallsTyped /\ FramesInv /\ UnusedInv /\ Env!InfosAreOfTheRunning /\ Env!ArgvIsTheCallers

DeferredInv ==
  /\ accepted \in [Env!Deferred -> Nat]
  /\ promise \in [Env!Deferred -> {"none", "pending", "resolved", "rejected"}]
  /\ deferred \subseteq Env!Deferred
  /\ \A d \in deferred : promise[d] = "pending"
  /\ Env!SettledOnce

LEMMA RunningIs ==
  ASSUME callFrames \in Seq(FrameOf)
  PROVE  Env!Running = {callFrames[i].call : i \in 1 .. Len(callFrames)}
  BY LenProperties DEF Env!Running

\* What is unchanged, when nothing is called, returned or copied.
LEMMA CallsRest ==
  ASSUME CallsInv, UNCHANGED <<Env!calling, argv>>, envs' \in Nat, activeEnv' \in Nat
  PROVE  CallsInv'
  BY DEF CallsInv, CallsTyped, FramesInv, UnusedInv, Env!InfosAreOfTheRunning, Env!ArgvIsTheCallers,
         Env!Running, Env!calling

LEMMA CallsMade ==
  ASSUME EnvAssumed, CallsInv, NEW k \in Env!Kind, Env!JsCalls(k)
  PROVE  CallsInv'
<1>1. PICK e \in Env!EnvOf(k), n \in Env!ArgCount(k) : Env!Enter(k, e, n)
  BY DEF Env!JsCalls
<1> DEFINE c == called + 1
           a == [i \in 1 .. n |-> <<c, i>>]
           info == [this |-> <<c, 0>>, args |-> a]
           f == [call |-> c, kind |-> k, env |-> e]
<1>2. CallsTyped /\ FramesInv /\ UnusedInv /\ Env!InfosAreOfTheRunning /\ Env!ArgvIsTheCallers
  BY DEF CallsInv
<1>3. e \in Nat /\ n \in Nat
  BY <1>2 DEF Env!EnvOf, Env!ArgCount, CallsTyped, EnvAssumed
<1>4. c \in Env!Call /\ c \in Nat /\ called \in Nat /\ called' = c
  BY <1>1, <1>2 DEF Env!JsCalls, CallsTyped, Env!Call, EnvAssumed, Env!Enter
<1>5. info \in InfoOf /\ f \in FrameOf /\ f.call = c
  <2>1. a \in Seq(Seq(Nat))
    <3>1. ASSUME NEW i \in 1 .. n PROVE <<c, i>> \in Seq(Nat)
      BY <1>3, <1>4
    <3> QED BY <1>3, <3>1
  <2>2. <<c, 0>> \in Seq(Nat) BY <1>4
  <2> HIDE DEF a, c
  <2> QED BY <1>3, <1>4, <2>1, <2>2 DEF InfoOf, FrameOf
<1>6. /\ infos' = [infos EXCEPT ![c] = info] /\ passed' = [passed EXCEPT ![c] = info]
      /\ callFrames' = Append(callFrames, f) /\ UNCHANGED <<argv, envs, activeEnv>>
  BY <1>1 DEF Env!Enter, Env!JsCalls, Env!environments
<1> HIDE DEF c, info, f, a
<1>7. CallsTyped'
  BY <1>2, <1>4, <1>5, <1>6, AppendProperties DEF CallsTyped
<1>8. /\ Len(callFrames') = Len(callFrames) + 1 /\ callFrames'[Len(callFrames) + 1] = f
      /\ \A i \in 1 .. Len(callFrames) : callFrames'[i] = callFrames[i]
      /\ Len(callFrames) \in Nat
  BY <1>2, <1>5, <1>6, AppendProperties, LenProperties DEF CallsTyped
<1>9. FramesInv'
  <2>1. \A i \in 1 .. Len(callFrames) : callFrames[i].call \in 1 .. called /\ callFrames[i].call # c
    BY <1>2, <1>4 DEF FramesInv, c
  <2>2. c \in 1 .. c /\ \A x \in 1 .. called : x \in 1 .. c
    BY <1>4 DEF c
  <2>3. \A i \in 1 .. Len(callFrames') : i \in 1 .. Len(callFrames) \/ i = Len(callFrames) + 1
    BY <1>8
  <2> QED BY <1>2, <1>4, <1>5, <1>8, <2>1, <2>2, <2>3 DEF FramesInv
<1>10. UnusedInv'
  <2>1. \A m \in Env!Call : m > c => m > called
    BY <1>4 DEF Env!Call, c
  <2> QED BY <1>2, <1>4, <1>6, <2>1 DEF UnusedInv
<1>11. Env!Running' = Env!Running \cup {c}
  <2>1. Env!Running = {callFrames[i].call : i \in 1 .. Len(callFrames)}
    BY <1>2, RunningIs DEF CallsTyped
  <2>2. Env!Running' = {callFrames'[i].call : i \in 1 .. Len(callFrames')}
    <3>1. callFrames' \in Seq(FrameOf) BY <1>7 DEF CallsTyped
    <3> QED BY <3>1, LenProperties DEF Env!Running
  <2>3. \A i : i \in 1 .. Len(callFrames') <=> (i \in 1 .. Len(callFrames) \/ i = Len(callFrames) + 1)
    BY <1>8
  <2> QED BY <1>5, <1>8, <2>1, <2>2, <2>3
<1>12. Env!InfosAreOfTheRunning'
  <2>1. ASSUME NEW m \in Env!Call PROVE infos'[m] = IF m \in Env!Running' THEN passed'[m] ELSE Env!NoInfo
    BY <1>2, <1>4, <1>6, <1>11 DEF Env!InfosAreOfTheRunning, CallsTyped
  <2> QED BY <2>1 DEF Env!InfosAreOfTheRunning
<1>13. Env!ArgvIsTheCallers'
  <2>1. c > called BY <1>4 DEF c
  <2> QED BY <1>2, <1>4, <1>6, <2>1 DEF Env!ArgvIsTheCallers, UnusedInv, CallsTyped
<1> QED BY <1>7, <1>9, <1>10, <1>12, <1>13 DEF CallsInv

\* Calls are left down to n of them, each with its information.
LEMMA CallsLeft ==
  ASSUME EnvAssumed, CallsInv, NEW n \in Nat, n < Len(callFrames),
         callFrames' = SubSeq(callFrames, 1, n),
         NEW ks, ks = {callFrames[i].call : i \in n + 1 .. Len(callFrames)}, Env!Delete(ks),
         UNCHANGED <<called, passed, argv, envs, activeEnv>>
  PROVE  CallsInv'
<1>1. CallsTyped /\ FramesInv /\ UnusedInv /\ Env!InfosAreOfTheRunning /\ Env!ArgvIsTheCallers
  BY DEF CallsInv
<1>2. Len(callFrames) \in Nat /\ callFrames \in Seq(FrameOf)
  BY <1>1, LenProperties DEF CallsTyped
<1>3. /\ callFrames' \in Seq(FrameOf) /\ Len(callFrames') = n
      /\ \A i \in 1 .. n : callFrames'[i] = callFrames[i] /\ i \in 1 .. Len(callFrames)
  BY <1>2, SubSeqProperties
<1>4. CallsTyped'
  <2>1. Env!NoInfo \in InfoOf BY DEF Env!NoInfo, InfoOf
  <2> QED BY <1>1, <1>3, <2>1 DEF CallsTyped, Env!Delete
<1>5. FramesInv'
  BY <1>1, <1>3 DEF FramesInv
<1>6. UnusedInv' /\ Env!ArgvIsTheCallers'
  BY <1>1 DEF UnusedInv, Env!ArgvIsTheCallers
<1>7. Env!Running = {callFrames[i].call : i \in 1 .. Len(callFrames)}
  BY <1>2, RunningIs
<1>8. Env!Running' = {callFrames'[i].call : i \in 1 .. n}
  BY <1>3, LenProperties DEF Env!Running
<1>9. Env!Running' = Env!Running \ ks
  <2>1. \A i : i \in 1 .. Len(callFrames) <=> (i \in 1 .. n \/ i \in n + 1 .. Len(callFrames))
    BY <1>2
  <2>2. \A i \in 1 .. n : i \notin n + 1 .. Len(callFrames)
    OBVIOUS
  <2>3. \A i \in 1 .. n : callFrames[i].call \notin ks
    BY <1>1, <1>2, <2>1, <2>2 DEF FramesInv
  <2> QED BY <1>3, <1>7, <1>8, <2>1, <2>3
<1>10. Env!InfosAreOfTheRunning'
  BY <1>1, <1>9 DEF Env!InfosAreOfTheRunning, Env!Delete
<1> QED BY <1>4, <1>5, <1>6, <1>10 DEF CallsInv

LEMMA CallsCopied ==
  ASSUME EnvAssumed, CallsInv, NEW k \in Env!Call, NEW room \in 0 .. MaxArgs, Env!GetCbInfo(k, room)
  PROVE  CallsInv'
<1>1. CallsTyped /\ FramesInv /\ UnusedInv /\ Env!InfosAreOfTheRunning /\ Env!ArgvIsTheCallers
  BY DEF CallsInv
<1>2. k \in Env!Running /\ infos[k] = passed[k] /\ infos[k] # Env!NoInfo
  BY <1>1 DEF Env!GetCbInfo, Env!InfosAreOfTheRunning
<1> DEFINE args == passed[k].args
           n == Env!CopyCount(room, Len(args))
           new == [i \in 1 .. MaxArgs |-> IF i \in 1 .. n
                     THEN IF i \in DOMAIN args THEN args[i] ELSE << >>
                     ELSE argv[k][i]]
<1>3. args \in Seq(Seq(Nat)) /\ DOMAIN args = 1 .. Len(args) /\ Len(args) \in Nat
  BY <1>1, LenProperties DEF CallsTyped, InfoOf
<1>4. n \in Nat /\ n <= Len(args)
  BY <1>3 DEF Env!CopyCount, EnvAssumed
<1>5. argv' = [argv EXCEPT ![k] = new] /\ UNCHANGED <<Env!calling, envs, activeEnv>>
  BY <1>2 DEF Env!GetCbInfo, Env!environments
<1> HIDE DEF n, args
<1>6. \A i \in 1 .. n : i \in DOMAIN args
  BY <1>3, <1>4
<1>7. new \in [1 .. MaxArgs -> Seq(Nat) \cup {Env!Garbage}]
  <2>1. ASSUME NEW i \in 1 .. MaxArgs PROVE argv[k][i] \in Seq(Nat) \cup {Env!Garbage}
    BY <1>1 DEF CallsTyped
  <2>2. ASSUME NEW i \in DOMAIN args PROVE args[i] \in Seq(Nat)
    BY <1>3, ElementOfSeq
  <2> QED BY <1>6, <2>1, <2>2
<1>8. \A i \in 1 .. MaxArgs : new[i] # Env!Garbage => i \in DOMAIN args /\ new[i] = args[i]
  <2>1. ASSUME NEW i \in 1 .. MaxArgs, i \in 1 .. n
        PROVE  i \in DOMAIN args /\ new[i] = args[i]
    BY <1>6, <2>1
  <2>2. ASSUME NEW i \in 1 .. MaxArgs, i \notin 1 .. n PROVE new[i] = argv[k][i]
    BY <2>2
  <2> HIDE DEF new
  <2> QED BY <1>1, <2>1, <2>2 DEF Env!ArgvIsTheCallers, args
<1> HIDE DEF new
<1>9. /\ argv' \in [Env!Call -> [1 .. MaxArgs -> Seq(Nat) \cup {Env!Garbage}]]
      /\ argv'[k] = new /\ \A m \in Env!Call : m # k => argv'[m] = argv[m]
  BY <1>1, <1>5, <1>7 DEF CallsTyped
<1>10. CallsTyped' /\ FramesInv' /\ Env!InfosAreOfTheRunning'
  BY <1>1, <1>5, <1>9 DEF CallsTyped, FramesInv, Env!InfosAreOfTheRunning, Env!calling, Env!Running
<1>11. k <= called
  <2>1. Env!Running = {callFrames[i].call : i \in 1 .. Len(callFrames)}
    BY <1>1, RunningIs DEF CallsTyped
  <2>2. k \in 1 .. called BY <1>1, <1>2, <2>1 DEF FramesInv
  <2> QED BY <2>2, <1>1 DEF CallsTyped
<1>12. UnusedInv'
  <2>1. ~(k > called) BY <1>11, <1>1 DEF Env!Call, CallsTyped
  <2> QED BY <1>1, <1>5, <1>9, <2>1 DEF UnusedInv, Env!calling
<1>13. Env!ArgvIsTheCallers'
  BY <1>1, <1>5, <1>8, <1>9 DEF Env!ArgvIsTheCallers, Env!calling, args
<1> QED BY <1>10, <1>12, <1>13 DEF CallsInv

LEMMA CallsStep ==
  ASSUME EnvAssumed, CallsInv, [Env!Next]_(Env!vars)
  PROVE  CallsInv'
<1>t. envs \in Nat /\ activeEnv \in Nat /\ callFrames \in Seq(FrameOf) /\ Len(callFrames) \in Nat
  BY LenProperties DEF CallsInv, CallsTyped
<1>1. CASE Env!CreateEnv
  BY <1>1, <1>t, CallsRest DEF Env!CreateEnv
<1>2. ASSUME NEW e \in Env!Env, Env!ReleaseEnv(e) \/ Env!AddCleanupHook(e) PROVE CallsInv'
  BY <1>2, <1>t, CallsRest DEF Env!ReleaseEnv, Env!AddCleanupHook
<1>3. ASSUME NEW kind \in Env!Kind, Env!JsCalls(kind) PROVE CallsInv'
  BY <1>3, CallsMade
<1>4. CASE Env!NativeReturns
  <2> DEFINE n == Len(callFrames) - 1
  <2>1. n \in Nat /\ n < Len(callFrames) /\ n + 1 .. Len(callFrames) = {Len(callFrames)}
    BY <1>t, <1>4, EmptySeq DEF Env!NativeReturns
  <2>2. {callFrames[Len(callFrames)].call} = {callFrames[i].call : i \in n + 1 .. Len(callFrames)}
    BY <2>1
  <2>3. callFrames' = SubSeq(callFrames, 1, n) /\ UNCHANGED <<called, passed, argv, envs, activeEnv>>
    BY <1>4 DEF Env!NativeReturns, Env!environments
  <2> HIDE DEF n
  <2> QED BY <1>4, <2>1, <2>2, <2>3, CallsLeft DEF Env!NativeReturns
<1>5. ASSUME NEW n \in 0 .. MaxFrame, Env!NativeFails(n) PROVE CallsInv'
  <2>1. n \in Nat BY DEF CallsInv
  <2> QED BY <1>5, <2>1, CallsLeft DEF Env!NativeFails, Env!environments
<1>6. ASSUME NEW k \in Env!Call, NEW room \in 0 .. MaxArgs, Env!GetCbInfo(k, room) PROVE CallsInv'
  BY <1>6, CallsCopied
<1>7. ASSUME NEW k \in Env!Call, Env!GetCbInfoUnknown(k) PROVE CallsInv'
  BY <1>7, <1>t, CallsRest DEF Env!GetCbInfoUnknown, Env!environments
<1>8. ASSUME NEW d \in Env!Deferred, Env!CreatePromise(d) PROVE CallsInv'
  BY <1>8, <1>t, CallsRest DEF Env!CreatePromise, Env!environments
<1>9. ASSUME NEW d \in Env!Deferred, NEW how \in {"resolved", "rejected"}, Env!Settle(d, how)
      PROVE  CallsInv'
  BY <1>9, <1>t, CallsRest DEF Env!Settle, Env!environments
<1>10. CASE UNCHANGED Env!vars
  BY <1>10, <1>t, CallsRest DEF Env!vars, Env!environments
<1> QED
  BY <1>1, <1>2, <1>3, <1>4, <1>5, <1>6, <1>7, <1>8, <1>9, <1>10 DEF Env!Next

LEMMA CallsStart == ASSUME EnvAssumed, Env!Init PROVE CallsInv
<1>1. callFrames = << >> /\ Len(callFrames) = 0 /\ callFrames \in Seq(FrameOf)
  BY EmptySeq DEF Env!Init
<1>2. Env!NoInfo \in InfoOf BY DEF Env!NoInfo, InfoOf
<1>3. CallsTyped
  BY <1>1, <1>2 DEF Env!Init, CallsTyped, Env!NoEnv
<1>4. Env!Running = {} BY <1>1, RunningIs
<1> QED
  BY <1>1, <1>3, <1>4 DEF CallsInv, FramesInv, UnusedInv, Env!InfosAreOfTheRunning,
     Env!ArgvIsTheCallers, Env!Init

LEMMA DeferredStep == DeferredInv /\ [Env!Next]_(Env!vars) => DeferredInv'
<1> SUFFICES ASSUME DeferredInv, [Env!Next]_(Env!vars) PROVE DeferredInv'
  OBVIOUS
<1>1. ASSUME NEW d \in Env!Deferred, Env!CreatePromise(d) PROVE DeferredInv'
  BY <1>1 DEF Env!CreatePromise, DeferredInv, Env!SettledOnce
<1>2. ASSUME NEW d \in Env!Deferred, NEW how \in {"resolved", "rejected"}, Env!Settle(d, how)
      PROVE  DeferredInv'
  <2>1. promise[d] = "pending" /\ accepted[d] = 0
    BY <1>2 DEF Env!Settle, DeferredInv, Env!SettledOnce
  <2>2. /\ promise' = [promise EXCEPT ![d] = how] /\ accepted' = [accepted EXCEPT ![d] = 1]
        /\ deferred' = deferred \ {d}
    BY <1>2, <2>1 DEF Env!Settle
  <2> QED BY <2>1, <2>2 DEF DeferredInv, Env!SettledOnce
<1>3. ASSUME UNCHANGED Env!deferring PROVE DeferredInv'
  BY <1>3 DEF Env!deferring, DeferredInv, Env!SettledOnce
<1>4. \/ UNCHANGED Env!deferring
      \/ \E d \in Env!Deferred : Env!CreatePromise(d)
      \/ \E d \in Env!Deferred, how \in {"resolved", "rejected"} : Env!Settle(d, how)
  BY DEF Env!Next, Env!vars, Env!CreateEnv, Env!ReleaseEnv, Env!AddCleanupHook, Env!JsCalls, Env!NativeReturns,
         Env!NativeFails, Env!GetCbInfo, Env!GetCbInfoUnknown
<1> QED BY <1>1, <1>2, <1>3, <1>4

(* The information of a call is there exactly as long as the call runs.     *)
THEOREM InfosAreOfTheRunningAlways ==
  ASSUME EnvAssumed
  PROVE  Env!Spec => []Env!InfosAreOfTheRunning
<1>1. CallsInv => Env!InfosAreOfTheRunning BY DEF CallsInv
<1> QED BY <1>1, CallsStart, CallsStep, PTL DEF Env!Spec

(* What napi_get_cb_info writes are arguments of that call, in their place. *)
THEOREM ArgvIsTheCallersAlways ==
  ASSUME EnvAssumed
  PROVE  Env!Spec => []Env!ArgvIsTheCallers
<1>1. CallsInv => Env!ArgvIsTheCallers BY DEF CallsInv
<1> QED BY <1>1, CallsStart, CallsStep, PTL DEF Env!Spec

(* One settlement of a deferred is accepted, and settles its promise.       *)
THEOREM SettledOnceAlways == Env!Spec => []Env!SettledOnce
<1>1. Env!Init => DeferredInv
  BY DEF Env!Init, DeferredInv, Env!SettledOnce
<1>2. DeferredInv => Env!SettledOnce BY DEF DeferredInv
<1> QED BY <1>1, <1>2, DeferredStep, PTL DEF Env!Spec

-----------------------------------------------------------------------------
CONSTANTS
  MaxToken, MaxDepth, MaxImport

VARIABLES
  read, inString, templateDepth, inComment, escaped, keywords, classified,
  within, braces, expected, astray, compiled, scopeDepth, dynamic, opened,
  leaked, rejected

Scripts == INSTANCE NapiScripts WITH
  MaxLength <- MaxToken, mode <- classified, depth <- scopeDepth, imports <-
  dynamic, pending <- rejected

(* NapiScripts: the detector of ES modules beside a lexer of one mode.      *)

\* Where a string, a comment or a regular expression is read.
Inner == Scripts!Quote \cup Scripts!Comment \cup {"regex"}

\* The detector's three variables say the mode; in the expression of a template
\* they say no more than that it is in a template.
Outside == inString = "none" /\ inComment = "none"
InTemplate == Outside /\ templateDepth \in {1, 2}
Place ==
  /\ classified = "code" => Outside /\ templateDepth = 0
  /\ classified = "template" => Outside /\ templateDepth = 1
  /\ classified = "expression" => InTemplate
  /\ classified \in Inner /\ within = "expression" => InTemplate
  /\ classified \in Scripts!Quote /\ within = "code" =>
       inString = classified /\ templateDepth = 0 /\ inComment = "none"
  /\ classified \in Scripts!Comment /\ within = "code" =>
       inString = "none" /\ templateDepth = 0 /\ inComment = classified
  /\ classified = "regex" /\ within = "code" => Outside /\ templateDepth = 0

Static == {"import", "export"}

LexerTyped == classified \in Scripts!Mode /\ within \in Scripts!Code /\ escaped \in BOOLEAN

LexerHolds ==
  /\ LexerTyped /\ Place
  /\ escaped => classified \notin Scripts!Code
  /\ keywords \cap Static = expected \cap Static

LexerInv == ~astray => LexerHolds

\* The scopes that are open are the root, one for each import, and what native
\* code opened in them or left.
ScopesInv ==
  /\ scopeDepth \in Nat /\ opened \in Nat /\ leaked \in Nat /\ dynamic \in Seq(Nat)
  /\ scopeDepth = 1 + leaked + Len(dynamic) + opened
  /\ dynamic = << >> => opened = 0
  /\ dynamic # << >> => dynamic[1] = 0 /\ dynamic[Len(dynamic)] <= opened
  /\ \A i \in 1 .. Len(dynamic) - 1 : dynamic[i] <= dynamic[i + 1]

\* DepthAfter, an arm at a time.
LEMMA DepthArms ==
  ASSUME NEW t, ~(inString # "none" \/ inComment # "none")
  PROVE  /\ t = "tick" => Scripts!DepthAfter(t) = IF templateDepth = 0 THEN 1 ELSE templateDepth - 1
         /\ t = "${" /\ templateDepth > 0 => Scripts!DepthAfter(t) = templateDepth + 1
         /\ t = "}" /\ templateDepth > 1 => Scripts!DepthAfter(t) = templateDepth - 1
         /\ /\ t # "tick" /\ ~(t = "${" /\ templateDepth > 0)
            /\ ~(t = "}" /\ templateDepth > 1)
            => Scripts!DepthAfter(t) = templateDepth
<1> DEFINE more == templateDepth > 0
           two == templateDepth > 1
           up == templateDepth + 1
           down == templateDepth - 1
<1>1. Scripts!DepthAfter(t) =
        CASE t = "tick" -> IF templateDepth = 0 THEN 1 ELSE down
          [] t = "${" /\ more -> up
          [] t = "}" /\ two -> down
          [] OTHER -> templateDepth
  BY DEF Scripts!DepthAfter
<1> HIDE DEF more, two, up, down
<1>2. t = "tick" => Scripts!DepthAfter(t) = IF templateDepth = 0 THEN 1 ELSE down
  BY <1>1
<1>3. t = "${" /\ more => Scripts!DepthAfter(t) = up
  BY <1>1
<1>4. t = "}" /\ two => Scripts!DepthAfter(t) = down
  BY <1>1
<1>5. t # "tick" /\ ~(t = "${" /\ more) /\ ~(t = "}" /\ two) => Scripts!DepthAfter(t) = templateDepth
  BY <1>1
<1> QED BY <1>2, <1>3, <1>4, <1>5 DEF more, two, up, down

\* Follows, a mode at a time.
LEMMA FollowsInCode ==
  ASSUME classified = "code", NEW t \in Scripts!Token
  PROVE  Scripts!Follows(t) = IF t \in Scripts!Quote \cup Scripts!Comment THEN t
                      ELSE IF t = "slash" THEN "regex"
                      ELSE IF t = "tick" THEN "template" ELSE "code"
<1>1. classified \in Scripts!Code /\ classified \notin Scripts!Quote
  BY DEF Scripts!Code, Scripts!Quote
<1>2. ~Scripts!Ends(t)
  BY <1>1 DEF Scripts!Ends
<1>3. t \in Scripts!Quote \cup Scripts!Comment => t # "slash" /\ t # "tick"
  BY DEF Scripts!Quote, Scripts!Comment
<1> QED BY <1>1, <1>2, <1>3 DEF Scripts!Follows

LEMMA FollowsInTemplate ==
  ASSUME classified = "template", NEW t \in Scripts!Token
  PROVE  Scripts!Follows(t) = IF t = "tick" /\ ~escaped THEN "code"
                      ELSE IF t = "${" /\ ~escaped THEN "expression" ELSE "template"
<1>1. classified \notin Scripts!Code /\ classified \notin Scripts!Quote
  BY DEF Scripts!Code, Scripts!Quote
<1>2. ~Scripts!Ends(t)
  BY <1>1 DEF Scripts!Ends
<1> QED BY <1>1, <1>2 DEF Scripts!Follows

LEMMA FollowsInExpression ==
  ASSUME classified = "expression", NEW t \in Scripts!Token
  PROVE  Scripts!Follows(t) = IF t \in Scripts!Quote \cup Scripts!Comment THEN t
                      ELSE IF t = "slash" THEN "regex"
                      ELSE IF t = "}" /\ braces = 0 THEN "template" ELSE "expression"
<1>1. classified \in Scripts!Code /\ classified \notin Scripts!Quote
  BY DEF Scripts!Code, Scripts!Quote
<1>2. ~Scripts!Ends(t)
  BY <1>1 DEF Scripts!Ends
<1>3. t \in Scripts!Quote \cup Scripts!Comment => t # "slash" /\ t # "}"
  BY DEF Scripts!Quote, Scripts!Comment
<1> DEFINE none == braces = 0
           text == t \in Scripts!Quote \cup Scripts!Comment
           code == classified \in Scripts!Code
           ends == Scripts!Ends(t)
<1>4. Scripts!Follows(t) =
        CASE code /\ text -> t
          [] code /\ t = "slash" -> "regex"
          [] classified = "code" /\ t = "tick" -> "template"
          [] classified = "template" /\ t = "tick" /\ ~escaped -> "code"
          [] classified = "template" /\ t = "${" /\ ~escaped -> "expression"
          [] classified = "expression" /\ t = "}" /\ none -> "template"
          [] ends -> within
          [] OTHER -> classified
  BY DEF Scripts!Follows
<1>5. code /\ ~ends /\ (text => t # "slash" /\ t # "}")
  BY <1>1, <1>2, <1>3
<1> HIDE DEF none, text, code, ends
<1>6. text => Scripts!Follows(t) = t
  BY <1>4, <1>5
<1>7. t = "slash" => Scripts!Follows(t) = "regex"
  BY <1>4, <1>5
<1>8. t = "}" /\ none => Scripts!Follows(t) = "template"
  BY <1>4, <1>5
<1>9. ~text /\ t # "slash" /\ ~(t = "}" /\ none) => Scripts!Follows(t) = "expression"
  BY <1>4, <1>5
<1>10. Scripts!Follows(t) = IF text THEN t ELSE IF t = "slash" THEN "regex"
                    ELSE IF t = "}" /\ none THEN "template" ELSE "expression"
  BY <1>6, <1>7, <1>8, <1>9
<1> QED BY <1>10 DEF text, none

LEMMA FollowsInside ==
  ASSUME classified \in Inner, NEW t \in Scripts!Token
  PROVE  Scripts!Follows(t) = IF Scripts!Ends(t) THEN within ELSE classified
<1>1. classified \notin Scripts!Code /\ classified # "template" /\ classified # "code" /\ classified # "expression"
  BY DEF Inner, Scripts!Code, Scripts!Quote, Scripts!Comment
<1> QED BY <1>1 DEF Scripts!Follows

\* The kinds of tokens and modes have nothing in common.
LEMMA TokensDiffer ==
  ASSUME NEW t \in Scripts!Token
  PROVE  /\ t # "none"
         /\ ~(t \in Scripts!Quote /\ t \in Scripts!Comment)
         /\ t \in Scripts!Quote \cup Scripts!Comment =>
              t \notin Scripts!Keyword \cup {"tick", "${", "{", "}", "*/", "slash", "newline",
                                     "backslash", "lookalike", "other"}
         /\ t = "lookalike" => t \notin Scripts!Keyword
  BY DEF Scripts!Token, Scripts!Keyword, Scripts!Quote, Scripts!Comment

LEMMA ModesDiffer ==
  ASSUME classified \in Scripts!Mode
  PROVE  /\ classified \in Inner => classified \notin {"code", "template", "expression", "none"}
         /\ ~(classified \in Scripts!Quote /\ classified \in Scripts!Comment)
         /\ classified \in Scripts!Quote \cup Scripts!Comment => classified # "regex" /\ classified \in Inner
         /\ classified \in Scripts!Code <=> classified \in {"code", "expression"}
         /\ classified \in Scripts!Comment <=> classified \in {"line", "block"}
         /\ classified \in Inner \/ classified \in {"code", "template", "expression"}
         /\ classified = "regex" => classified \in Inner
  BY DEF Scripts!Mode, Inner, Scripts!Code, Scripts!Quote, Scripts!Comment

\* What the detector makes of a token where no comment is open, and in a template.
LEMMA CommentArms ==
  ASSUME NEW t
  PROVE  /\ inString # "none" \/ templateDepth > 0 => Scripts!CommentAfter(t) = inComment
         /\ inString = "none" /\ ~(templateDepth > 0) /\ inComment = "none" =>
              Scripts!CommentAfter(t) = IF t \in Scripts!Comment THEN t ELSE "none"
<1>1. inComment = "none" => <<inComment, t>> \notin {<<"line", "newline">>, <<"block", "*/">>}
  OBVIOUS
<1> QED BY <1>1 DEF Scripts!CommentAfter, Scripts!InText

LEMMA OneOrTwo ==
  ASSUME templateDepth \in {1, 2}
  PROVE  /\ templateDepth > 0 /\ (templateDepth > 1 => templateDepth = 2)
         /\ (templateDepth = 2 => templateDepth - 1 = 1)
  OBVIOUS

\* A token in a template, whatever stands in its expressions: it stays there.
LEMMA TemplateStays ==
  ASSUME InTemplate, NEW t \in Scripts!Token, t # "tick", t # "${"
  PROVE  /\ Scripts!CommentAfter(t) = "none" /\ Scripts!StringAfter(t) = "none"
         /\ Scripts!DepthAfter(t) \in {1, 2}
<1>1. inString = "none" /\ inComment = "none" /\ templateDepth \in {1, 2}
  BY DEF InTemplate, Outside
<1>2. templateDepth \in {1, 2}
  BY <1>1
<1>3a. /\ templateDepth > 0 /\ (templateDepth > 1 => templateDepth = 2)
       /\ (templateDepth = 2 => templateDepth - 1 = 1)
  BY <1>2, OneOrTwo
<1>3. Scripts!CommentAfter(t) = "none" /\ Scripts!StringAfter(t) = "none"
  BY <1>1, <1>3a, CommentArms DEF Scripts!StringAfter
<1>4. CASE t = "}" /\ templateDepth > 1
  <2>1. Scripts!DepthAfter(t) = templateDepth - 1 /\ templateDepth = 2
    BY <1>1, <1>4, <1>3a, DepthArms
  <2> QED BY <1>3, <1>3a, <2>1
<1>5. CASE ~(t = "}" /\ templateDepth > 1)
  <2>1. Scripts!DepthAfter(t) = templateDepth
    BY <1>1, <1>5, DepthArms
  <2> QED BY <1>1, <1>3, <2>1
<1> QED BY <1>4, <1>5

\* Words are looked for where no string, template or comment is open: in code,
\* and in a regular expression of it.
LEMMA WordsMatch ==
  ASSUME LexerHolds, NEW t \in Scripts!Token, Scripts!ReadToken(t), ~Scripts!Misread(t), ~escaped
  PROVE  keywords' \cap Static = expected' \cap Static
<1>1. /\ expected' = IF classified \in Scripts!Code /\ t \in Scripts!Keyword THEN expected \cup {t} ELSE expected
      /\ keywords' = IF Scripts!Word(t) \in Scripts!Keyword /\ ~Scripts!InText /\ inComment = "none"
                     THEN keywords \cup {Scripts!Word(t)} ELSE keywords
      /\ Scripts!Plausible(t)
  BY DEF Scripts!ReadToken, Scripts!Reference
<1>2. keywords \cap Static = expected \cap Static /\ classified \in Scripts!Mode /\ within \in Scripts!Code
  BY DEF LexerHolds, LexerTyped
<1>3. CASE classified = "code"
  <2>1. ~Scripts!InText /\ inComment = "none"
    BY <1>3 DEF LexerHolds, Place, Outside, Scripts!InText
  <2>2. t # "lookalike" /\ Scripts!Word(t) = t
    BY <1>3 DEF Scripts!Misread, Scripts!Word
  <2>3. classified \in Scripts!Code
    BY <1>3 DEF Scripts!Code
  <2> QED BY <1>1, <1>2, <2>1, <2>2, <2>3
<1>4. CASE classified = "regex" /\ within = "code"
  <2>1. t \notin Scripts!Keyword /\ t # "lookalike" /\ Scripts!Word(t) = t
    BY <1>4 DEF Scripts!Misread, Scripts!Word
  <2> QED BY <1>1, <1>2, <2>1
<1>5. CASE classified = "expression"
  <2>1. templateDepth > 0 /\ Scripts!InText
    <3>1. templateDepth \in {1, 2}
      BY <1>5 DEF LexerHolds, Place, InTemplate
    <3>2. templateDepth > 0
      BY <3>1
    <3> QED BY <3>2 DEF Scripts!InText
  <2>2. t \notin Static
    BY <1>1, <1>5 DEF Scripts!Misread, Scripts!Plausible, Static
  <2> QED BY <1>1, <1>2, <2>1, <2>2
<1>6. CASE classified = "template" \/ (classified \in Inner /\ within = "expression")
  <2>1. classified \notin Scripts!Code
    BY <1>2, <1>6, ModesDiffer
  <2>2. templateDepth \in {1, 2}
    BY <1>6 DEF LexerHolds, Place, InTemplate
  <2>3. templateDepth > 0
    BY <2>2
  <2>4. Scripts!InText
    BY <2>3 DEF Scripts!InText
  <2> QED BY <1>1, <1>2, <2>1, <2>4
<1>7. CASE classified \in Scripts!Quote \cup Scripts!Comment /\ within = "code"
  <2>1. classified \notin Scripts!Code /\ classified # "none"
    BY <1>2, <1>7, ModesDiffer
  <2>2. Scripts!InText \/ inComment # "none"
    BY <1>7, <2>1 DEF LexerHolds, Place, Scripts!InText
  <2> QED BY <1>1, <1>2, <2>1, <2>2
<1>8. classified = "regex" \/ classified \in Scripts!Quote \cup Scripts!Comment \/ classified \in {"code", "template", "expression"}
  BY <1>2 DEF Scripts!Mode, Scripts!Code
<1>9. classified \in Inner => within = "code" \/ within = "expression"
  BY <1>2 DEF Scripts!Code
<1>10. classified = "regex" \/ classified \in Scripts!Quote \cup Scripts!Comment => classified \in Inner
  BY DEF Inner
<1> QED BY <1>3, <1>4, <1>5, <1>6, <1>7, <1>8, <1>9, <1>10

\* A token that is read: the detector's place is the reference's again.
LEMMA LexerReads ==
  ASSUME LexerHolds, NEW t \in Scripts!Token, Scripts!ReadToken(t), ~Scripts!Misread(t)
  PROVE  LexerHolds'
<1>1. /\ classified' = Scripts!Follows(t) /\ Scripts!Plausible(t)
      /\ within' = IF classified \in Scripts!Code THEN classified ELSE within
      /\ expected' = IF classified \in Scripts!Code /\ t \in Scripts!Keyword THEN expected \cup {t} ELSE expected
  BY DEF Scripts!ReadToken, Scripts!Reference
<1>2. /\ classified \in Scripts!Mode /\ within \in Scripts!Code /\ escaped \in BOOLEAN /\ Place
      /\ (escaped => classified \notin Scripts!Code) /\ keywords \cap Static = expected \cap Static
  BY DEF LexerHolds, LexerTyped
<1>3. within' \in Scripts!Code
  BY <1>1, <1>2
<1>4. CASE escaped
  <2>1. escaped' = FALSE /\ UNCHANGED <<inString, templateDepth, inComment, keywords>>
    BY <1>4 DEF Scripts!ReadToken
  <2>2. classified \notin Scripts!Code /\ within' = within /\ expected' = expected
    BY <1>1, <1>2, <1>4
  <2>3. CASE classified = "template"
    <3>1. classified' = classified
      BY <1>1, <1>4, <2>3, FollowsInTemplate
    <3> QED BY <1>2, <1>3, <2>1, <2>2, <3>1
            DEF LexerHolds, LexerTyped, Place, Outside, InTemplate
  <2>4. CASE classified \in Inner /\ ~Scripts!Ends(t)
    <3>1. classified' = classified
      BY <1>1, <2>4, FollowsInside
    <3> QED BY <1>2, <1>3, <2>1, <2>2, <3>1
            DEF LexerHolds, LexerTyped, Place, Outside, InTemplate
  <2>5. CASE classified \in Inner /\ Scripts!Ends(t)
    <3>1. classified \in Scripts!Comment
      BY <1>4, <2>5 DEF Scripts!Ends, Scripts!Comment
    <3>2. within = "expression"
      BY <1>2, <1>4, <2>5, <3>1 DEF Scripts!Misread, Scripts!Code
    <3>3. classified' = "expression"
      BY <1>1, <2>5, <3>2, FollowsInside
    <3>4. InTemplate'
      BY <1>2, <2>1, <2>5, <3>2 DEF Place, InTemplate, Outside
    <3>5. Place'
      BY <3>3, <3>4 DEF Place, Inner, Scripts!Quote, Scripts!Comment
    <3> QED BY <1>2, <1>3, <2>1, <2>2, <3>3, <3>5 DEF LexerHolds, LexerTyped, Scripts!Mode, Scripts!Code
  <2> QED BY <1>2, <2>2, <2>3, <2>4, <2>5, ModesDiffer
<1>5. CASE ~escaped
  <2>1. /\ escaped' = (t = "backslash")
        /\ inComment' = Scripts!CommentAfter(t) /\ templateDepth' = Scripts!DepthAfter(t)
        /\ inString' = Scripts!StringAfter(t)
    BY <1>5 DEF Scripts!ReadToken
  <2>2. keywords' \cap Static = expected' \cap Static
    BY <1>5, WordsMatch
  <2>3. SUFFICES classified' \in Scripts!Mode /\ Place' /\ (t = "backslash" => classified' \notin Scripts!Code)
    BY <1>3, <2>1, <2>2 DEF LexerHolds, LexerTyped
  <2>4. CASE classified = "code"
    <3>1. inString = "none" /\ inComment = "none" /\ templateDepth = 0 /\ within' = "code"
      BY <1>1, <1>2, <2>4 DEF Place, Outside, Scripts!Code
    <3>2. t # "backslash"
      BY <1>1, <2>4 DEF Scripts!Plausible, Scripts!Code
    <3>3. classified' = IF t \in Scripts!Quote \cup Scripts!Comment THEN t
                  ELSE IF t = "slash" THEN "regex"
                  ELSE IF t = "tick" THEN "template" ELSE "code"
      BY <1>1, <2>4, FollowsInCode
    <3>4. ~(templateDepth > 0)
      BY <3>1
    <3>5. inComment' = IF t \in Scripts!Comment THEN t ELSE "none"
      BY <2>1, <3>1, <3>4, CommentArms
    <3>6. templateDepth' = IF t = "tick" THEN 1 ELSE 0
      BY <2>1, <3>1 DEF Scripts!DepthAfter
    <3>7. inString' = IF t \in Scripts!Quote THEN t ELSE "none"
      BY <2>1, <3>1, <3>4, TokensDiffer DEF Scripts!StringAfter
    <3>8. classified' \in Scripts!Mode
      BY <3>3 DEF Scripts!Mode, Scripts!Code
    <3>9. Place'
      BY <3>1, <3>3, <3>5, <3>6, <3>7, TokensDiffer
         DEF Place, Outside, InTemplate, Inner, Scripts!Quote, Scripts!Comment
    <3> QED BY <3>2, <3>8, <3>9
  <2>5. CASE classified = "template"
    <3>1. inString = "none" /\ inComment = "none" /\ templateDepth = 1
      BY <1>2, <2>5 DEF Place, Outside
    <3>2. classified' = IF t = "tick" THEN "code" ELSE IF t = "${" THEN "expression" ELSE "template"
      BY <1>1, <1>5, <2>5, FollowsInTemplate
    <3>3. templateDepth > 0 /\ templateDepth # 0 /\ ~(templateDepth > 1)
          /\ templateDepth - 1 = 0 /\ templateDepth + 1 = 2
      BY <3>1
    <3>4. inComment' = "none" /\ inString' = "none"
      BY <2>1, <3>1, <3>3, CommentArms DEF Scripts!StringAfter
    <3>5. templateDepth' = IF t = "tick" THEN 0 ELSE IF t = "${" THEN 2 ELSE 1
      BY <2>1, <3>1, <3>3, DepthArms
    <3>6. classified' \in Scripts!Mode /\ (t = "backslash" => classified' \notin Scripts!Code)
      BY <3>2 DEF Scripts!Mode, Scripts!Code
    <3>7. Place'
      BY <3>2, <3>4, <3>5 DEF Place, Outside, InTemplate, Inner, Scripts!Quote, Scripts!Comment
    <3> QED BY <3>6, <3>7
  <2>6. CASE classified = "expression"
    <3>1. InTemplate /\ within' = "expression"
      BY <1>1, <1>2, <2>6 DEF Place, Scripts!Code
    <3>2. t # "backslash" /\ t # "tick" /\ t # "${"
      BY <1>1, <2>6 DEF Scripts!Plausible, Scripts!Misread, Scripts!Code
    <3>3. classified' = IF t \in Scripts!Quote \cup Scripts!Comment THEN t
                  ELSE IF t = "slash" THEN "regex"
                  ELSE IF t = "}" /\ braces = 0 THEN "template" ELSE "expression"
      BY <1>1, <2>6, FollowsInExpression
    <3>4. inComment' = "none" /\ inString' = "none" /\ templateDepth' \in {1, 2}
      BY <2>1, <3>1, <3>2, TemplateStays
    <3>5. InTemplate'
      BY <3>4 DEF InTemplate, Outside
    <3>6. classified' = "template" => templateDepth' = 1
      <4> SUFFICES ASSUME classified' = "template" PROVE templateDepth' = 1
        OBVIOUS
      <4>1. t = "}"
        BY <3>3, TokensDiffer DEF Scripts!Quote, Scripts!Comment
      <4>2. ~(inString # "none" \/ inComment # "none") /\ templateDepth \in {1, 2}
        BY <3>1 DEF InTemplate, Outside
      <4>3. CASE templateDepth = 2
        <5>1. templateDepth > 1 /\ templateDepth - 1 = 1
          BY <4>3
        <5> QED BY <2>1, <4>1, <4>2, <5>1, DepthArms
      <4>4. CASE templateDepth = 1
        <5>1. ~(templateDepth > 1)
          BY <4>4
        <5> QED BY <2>1, <4>1, <4>2, <4>4, <5>1, DepthArms
      <4> QED BY <4>2, <4>3, <4>4
    <3>7. classified' \in Scripts!Mode /\ classified' # "code"
      BY <3>3 DEF Scripts!Mode, Scripts!Code, Scripts!Quote, Scripts!Comment
    <3>8. Place'
      BY <3>1, <3>5, <3>6, <3>7 DEF Place, InTemplate
    <3> QED BY <3>2, <3>7, <3>8
  <2>7. CASE classified \in Inner /\ within = "expression"
    <3>1. InTemplate /\ within' = "expression" /\ classified \notin Scripts!Code
      BY <1>1, <1>2, <2>7, ModesDiffer DEF Place
    <3>2. t # "tick" /\ t # "${"
      BY <1>2, <1>5, <2>7, ModesDiffer DEF Scripts!Misread
    <3>3. classified' = IF Scripts!Ends(t) THEN "expression" ELSE classified
      BY <1>1, <2>7, FollowsInside
    <3>4. inComment' = "none" /\ inString' = "none" /\ templateDepth' \in {1, 2}
      BY <2>1, <3>1, <3>2, TemplateStays
    <3>5. InTemplate'
      BY <3>4 DEF InTemplate, Outside
    <3>6. classified' \in Scripts!Mode /\ classified' # "code" /\ classified' # "template"
      BY <1>2, <2>7, <3>3, ModesDiffer DEF Scripts!Mode, Scripts!Code
    <3>7. Place'
      BY <3>1, <3>5, <3>6 DEF Place
    <3>8. t = "backslash" => ~Scripts!Ends(t)
      BY <1>2, <2>7, ModesDiffer DEF Scripts!Ends, Scripts!Quote
    <3> QED BY <3>1, <3>3, <3>6, <3>7, <3>8
  <2>8. CASE classified \in Scripts!Quote /\ within = "code"
    <3>1. inString = classified /\ templateDepth = 0 /\ inComment = "none" /\ inString # "none"
          /\ classified \in Inner /\ classified \notin Scripts!Code
      BY <1>2, <2>8, ModesDiffer DEF Place
    <3>2. Scripts!Ends(t) <=> t = classified
      BY <1>2, <1>5, <2>8, ModesDiffer DEF Scripts!Ends
    <3>3. classified' = (IF t = classified THEN "code" ELSE classified) /\ within' = "code"
      BY <1>1, <2>8, <3>1, <3>2, FollowsInside
    <3>4. inComment' = "none" /\ templateDepth' = 0
      BY <2>1, <3>1, CommentArms DEF Scripts!DepthAfter
    <3>5. inString' = IF t = classified THEN "none" ELSE classified
      <4>1. ~(templateDepth > 0)
        BY <3>1
      <4> QED BY <2>1, <3>1, <4>1 DEF Scripts!StringAfter
    <3>6. classified' \in Scripts!Mode /\ (t = "backslash" => classified' \notin Scripts!Code)
      BY <1>2, <2>8, <3>1, <3>3 DEF Scripts!Mode, Scripts!Code, Scripts!Quote
    <3>7. CASE t = classified
      <4>1. Place'
        BY <3>3, <3>4, <3>5, <3>7 DEF Place, Outside, InTemplate, Inner, Scripts!Quote, Scripts!Comment
      <4> QED BY <3>6, <4>1
    <3>8. CASE t # classified
      <4>1. classified' = classified /\ inString' = classified
        BY <3>3, <3>5, <3>8
      <4>2. Place'
        BY <1>2, <2>8, <3>3, <3>4, <4>1, ModesDiffer DEF Place
      <4> QED BY <3>6, <4>2
    <3> QED BY <3>7, <3>8
  <2>9. CASE classified \in Scripts!Comment /\ within = "code"
    <3>1. inString = "none" /\ templateDepth = 0 /\ inComment = classified /\ inComment # "none"
          /\ classified \in Inner /\ classified \notin Scripts!Code
      BY <1>2, <2>9, ModesDiffer DEF Place
    <3>2. Scripts!Ends(t) <=> <<classified, t>> \in {<<"line", "newline">>, <<"block", "*/">>}
      <4>1. classified \notin Scripts!Quote /\ classified # "regex"
        BY <1>2, <2>9, ModesDiffer
      <4> QED BY <4>1 DEF Scripts!Ends
    <3>3. classified' = (IF Scripts!Ends(t) THEN "code" ELSE classified) /\ within' = "code"
      BY <1>1, <2>9, <3>1, FollowsInside
    <3>4. inComment' = IF Scripts!Ends(t) THEN "none" ELSE classified
      <4>1. ~Scripts!InText
        <5>1. ~(templateDepth > 0)
          BY <3>1
        <5> QED BY <3>1, <5>1 DEF Scripts!InText
      <4> QED BY <2>1, <3>1, <3>2, <4>1 DEF Scripts!CommentAfter
    <3>5. templateDepth' = 0 /\ inString' = "none"
      BY <2>1, <3>1 DEF Scripts!DepthAfter, Scripts!StringAfter
    <3>6. t = "backslash" => ~Scripts!Ends(t)
      BY <3>2
    <3>7. classified' \in Scripts!Mode /\ (t = "backslash" => classified' \notin Scripts!Code)
      BY <1>2, <3>1, <3>3, <3>6 DEF Scripts!Mode, Scripts!Code
    <3>8. CASE Scripts!Ends(t)
      <4>1. Place'
        BY <3>3, <3>4, <3>5, <3>8 DEF Place, Outside, InTemplate, Inner, Scripts!Quote, Scripts!Comment
      <4> QED BY <3>7, <4>1
    <3>9. CASE ~Scripts!Ends(t)
      <4>1. classified' = classified /\ inComment' = classified
        BY <3>3, <3>4, <3>9
      <4>2. Place'
        BY <1>2, <2>9, <3>3, <3>5, <4>1, ModesDiffer DEF Place
      <4> QED BY <3>7, <4>2
    <3> QED BY <3>8, <3>9
  <2>10. CASE classified = "regex" /\ within = "code"
    <3>1. inString = "none" /\ templateDepth = 0 /\ inComment = "none"
          /\ classified \in Inner /\ classified \notin Scripts!Code
      BY <1>2, <2>10, ModesDiffer DEF Place, Outside
    <3>2. t \notin Scripts!Quote /\ t \notin Scripts!Comment /\ t # "tick"
      BY <1>5, <2>10 DEF Scripts!Misread
    <3>3. classified' = (IF Scripts!Ends(t) THEN "code" ELSE classified) /\ within' = "code"
      BY <1>1, <2>10, <3>1, FollowsInside
    <3>4. ~(templateDepth > 0) /\ ~(templateDepth > 1)
      BY <3>1
    <3>5. inComment' = "none" /\ templateDepth' = 0
      BY <2>1, <3>1, <3>2, <3>4, CommentArms, DepthArms
    <3>6. inString' = "none"
      BY <2>1, <3>1, <3>2, <3>4, TokensDiffer DEF Scripts!StringAfter
    <3>7. t = "backslash" => ~Scripts!Ends(t)
      BY <2>10 DEF Scripts!Ends, Scripts!Quote
    <3>8. classified' \in Scripts!Mode /\ (t = "backslash" => classified' \notin Scripts!Code)
      BY <1>2, <3>1, <3>3, <3>7 DEF Scripts!Mode, Scripts!Code
    <3>9. Place'
      BY <2>10, <3>3, <3>5, <3>6 DEF Place, Outside, InTemplate, Inner, Scripts!Quote, Scripts!Comment
    <3> QED BY <3>8, <3>9
  <2>11. within = "code" \/ within = "expression"
    BY <1>2 DEF Scripts!Code
  <2>12. classified \in {"code", "template", "expression", "regex"} \/ classified \in Scripts!Quote \cup Scripts!Comment
    BY <1>2 DEF Scripts!Mode, Scripts!Code
  <2>13. classified = "regex" \/ classified \in Scripts!Quote \cup Scripts!Comment => classified \in Inner
    BY DEF Inner
  <2> QED BY <2>4, <2>5, <2>6, <2>7, <2>8, <2>9, <2>10, <2>11, <2>12, <2>13
<1> QED BY <1>4, <1>5

LEMMA LexerStep == LexerInv /\ [Scripts!Next]_(Scripts!vars) => LexerInv'
<1> SUFFICES ASSUME LexerInv, [Scripts!Next]_(Scripts!vars) PROVE LexerInv'
  OBVIOUS
<1>1. UNCHANGED Scripts!lexer \/ \E t \in Scripts!Token : Scripts!ReadToken(t)
  BY DEF Scripts!Next, Scripts!vars, Scripts!Compile, Scripts!CompileForLoader, Scripts!Import, Scripts!ImportRefused, Scripts!NativeOpens,
         Scripts!NativeCloses, Scripts!ImportReturns, Scripts!ImportThrows
<1>2. ASSUME UNCHANGED Scripts!lexer PROVE LexerInv'
  BY <1>2 DEF Scripts!lexer, LexerInv, LexerHolds, LexerTyped, Place, Outside, InTemplate
<1>3. ASSUME NEW t \in Scripts!Token, Scripts!ReadToken(t) PROVE LexerInv'
  <2>1. ~astray /\ astray' = Scripts!Misread(t)
    BY <1>3 DEF Scripts!ReadToken, Scripts!Reference
  <2> QED BY <1>3, <2>1, LexerReads DEF LexerInv
<1> QED BY <1>1, <1>2, <1>3

LEMMA ScopesRest ==
  ASSUME ScopesInv, UNCHANGED Scripts!scopes
  PROVE  ScopesInv'
  BY DEF ScopesInv, Scripts!scopes

\* The last import ends, and what native code left open is counted.
LEMMA ScopeEnds ==
  ASSUME ScopesInv, dynamic # << >>, Scripts!ImportEnds, scopeDepth' = scopeDepth - 1,
         leaked' = leaked + opened - Scripts!Base
  PROVE  ScopesInv'
<1> DEFINE n == Len(dynamic)
<1>1. n \in Nat /\ n > 0 /\ dynamic \in Seq(Nat)
  BY LenProperties, EmptySeq DEF ScopesInv
<1>0. n - 1 \in 0 .. n
  BY <1>1
<1>2. /\ dynamic' \in Seq(Nat) /\ Len(dynamic') = n - 1
      /\ \A i \in 1 .. n - 1 : dynamic'[i] = dynamic[i]
  <2> DEFINE m == n - 1
  <2>1. m \in Nat /\ m <= Len(dynamic) /\ dynamic' = SubSeq(dynamic, 1, m)
    BY <1>0, <1>1 DEF Scripts!ImportEnds
  <2> HIDE DEF m
  <2>2. /\ dynamic' \in Seq(Nat) /\ Len(dynamic') = m
        /\ \A i \in 1 .. m : dynamic'[i] = dynamic[i]
    BY <1>1, <2>1, SubSeqProperties
  <2> QED BY <2>2 DEF m
<1>3. \A i \in 1 .. n : dynamic[i] \in Nat
  BY <1>1
<1>4. /\ Scripts!Base = dynamic[n] /\ dynamic[1] = 0 /\ n \in 1 .. n /\ dynamic[n] <= opened
      /\ opened' = dynamic[n]
  BY <1>1 DEF ScopesInv, Scripts!Base, Scripts!ImportEnds
<1>5. \A i \in 1 .. n - 1 : dynamic[i] <= dynamic[i + 1] /\ i \in 1 .. n
  BY <1>1 DEF ScopesInv
<1>6. /\ scopeDepth \in Nat /\ opened \in Nat /\ leaked \in Nat
      /\ scopeDepth = 1 + leaked + n + opened
  BY DEF ScopesInv
<1> HIDE DEF n
<1>7. /\ scopeDepth' \in Nat /\ opened' \in Nat /\ leaked' \in Nat
      /\ scopeDepth' = 1 + leaked' + (n - 1) + opened'
  <2> DEFINE b == dynamic[n]
  <2>1. b \in Nat /\ b <= opened /\ opened' = b /\ leaked' = leaked + opened - b
    BY <1>3, <1>4
  <2>2. n \in Nat /\ n > 0 /\ scopeDepth' = scopeDepth - 1
    BY <1>1
  <2> HIDE DEF b
  <2>3. leaked + opened - b \in Nat
    BY <1>6, <2>1
  <2>4. scopeDepth - 1 = 1 + (leaked + opened - b) + (n - 1) + b
    BY <1>6, <2>1, <2>2
  <2>5. scopeDepth - 1 \in Nat
    BY <1>6, <2>2
  <2> QED BY <2>1, <2>2, <2>3, <2>4, <2>5
<1>8. CASE n = 1
  BY <1>1, <1>2, <1>4, <1>7, <1>8, EmptySeq DEF ScopesInv
<1>9. CASE n # 1
  <2>1. n - 1 \in 1 .. n - 1 /\ n - 1 + 1 = n /\ 1 \in 1 .. n - 1 /\ n - 1 \in 1 .. n
    BY <1>1, <1>9
  <2>2. dynamic[n - 1] <= dynamic[n]
    BY <1>5, <2>1
  <2>3. dynamic' # << >> /\ dynamic'[1] = 0 /\ dynamic'[n - 1] <= opened'
    BY <1>2, <1>4, <2>1, <2>2, EmptySeq
  <2>4. \A i \in 1 .. n - 1 - 1 : dynamic'[i] <= dynamic'[i + 1]
    <3>1. \A i \in 1 .. n - 1 - 1 : i \in 1 .. n - 1 /\ i + 1 \in 1 .. n - 1
      BY <1>1
    <3> QED BY <1>2, <1>5, <3>1
  <2> QED BY <1>2, <1>7, <2>3, <2>4 DEF ScopesInv
<1> QED BY <1>8, <1>9

LEMMA ScopeBegins ==
  ASSUME ScopesInv, Scripts!Import
  PROVE  ScopesInv'
<1> DEFINE n == Len(dynamic)
<1>1. n \in Nat /\ dynamic \in Seq(Nat) /\ scopeDepth \in Nat /\ opened \in Nat /\ leaked \in Nat
      /\ scopeDepth = 1 + leaked + n + opened
  BY LenProperties DEF ScopesInv
<1>2. dynamic' = Append(dynamic, opened) /\ scopeDepth' = scopeDepth + 1
      /\ UNCHANGED <<opened, leaked>>
  BY DEF Scripts!Import
<1>3. /\ dynamic' \in Seq(Nat) /\ Len(dynamic') = n + 1 /\ dynamic'[n + 1] = opened
      /\ \A i \in 1 .. n : dynamic'[i] = dynamic[i]
  BY <1>1, <1>2, AppendProperties
<1>4. dynamic' # << >> /\ scopeDepth' \in Nat /\ scopeDepth' = 1 + leaked' + (n + 1) + opened'
      /\ opened <= opened
  BY <1>1, <1>2, <1>3, EmptySeq
<1>5. CASE n = 0
  <2>1. opened = 0
    BY <1>1, <1>5, EmptySeq DEF ScopesInv
  <2> QED BY <1>1, <1>2, <1>3, <1>4, <1>5, <2>1 DEF ScopesInv
<1>6. CASE n # 0
  <2>1. dynamic # << >> /\ dynamic[1] = 0 /\ dynamic[n] <= opened
    BY <1>1, <1>6, EmptySeq DEF ScopesInv
  <2>2. \A i \in 1 .. n - 1 : dynamic[i] <= dynamic[i + 1]
    BY DEF ScopesInv
  <2> HIDE DEF n
  <2>3. 1 \in 1 .. n /\ n \in 1 .. n
    BY <1>1, <1>6
  <2>4. \A i \in 1 .. n + 1 - 1 : dynamic'[i] <= dynamic'[i + 1]
    <3>1. dynamic'[n] <= dynamic'[n + 1]
      BY <1>3, <2>1, <2>3
    <3>2. \A i \in 1 .. n + 1 - 1 : i = n \/ (i \in 1 .. n - 1 /\ i \in 1 .. n /\ i + 1 \in 1 .. n)
      BY <1>1
    <3> QED BY <1>3, <2>2, <3>1, <3>2
  <2> QED BY <1>1, <1>2, <1>3, <1>4, <2>1, <2>3, <2>4 DEF ScopesInv
<1> QED BY <1>5, <1>6

LEMMA ScopesStep == ScopesInv /\ [Scripts!Next]_(Scripts!vars) => ScopesInv'
<1> SUFFICES ASSUME ScopesInv, [Scripts!Next]_(Scripts!vars) PROVE ScopesInv'
  OBVIOUS
<1>b. dynamic # << >> => Scripts!Base \in Nat /\ Scripts!Base <= opened /\ dynamic[Len(dynamic)] = Scripts!Base
  BY LenProperties, EmptySeq DEF ScopesInv, Scripts!Base
<1>1. CASE Scripts!Import BY <1>1, ScopeBegins
<1>2. CASE Scripts!ImportReturns
  <2>1. opened = Scripts!Base /\ leaked' = leaked /\ dynamic # << >> /\ scopeDepth' = scopeDepth - 1 /\ Scripts!ImportEnds
    BY <1>2 DEF Scripts!ImportReturns
  <2>2. leaked' = leaked + opened - Scripts!Base
    BY <1>b, <2>1 DEF ScopesInv
  <2> QED BY <2>1, <2>2, ScopeEnds
<1>3. CASE Scripts!ImportThrows
  BY <1>3, ScopeEnds DEF Scripts!ImportThrows
<1>4. CASE Scripts!NativeOpens
  BY <1>4, <1>b DEF Scripts!NativeOpens, ScopesInv
<1>5. CASE Scripts!NativeCloses
  BY <1>5, <1>b DEF Scripts!NativeCloses, ScopesInv
<1>6. ASSUME NEW t \in Scripts!Token, Scripts!ReadToken(t) PROVE ScopesInv'
  BY <1>6, ScopesRest DEF Scripts!ReadToken
<1>7. CASE Scripts!Compile \/ (\E detect \in BOOLEAN : Scripts!CompileForLoader(detect)) \/ Scripts!ImportRefused
  BY <1>7, ScopesRest DEF Scripts!Compile, Scripts!CompileForLoader, Scripts!ImportRefused, Scripts!vars
<1>8. CASE UNCHANGED Scripts!vars
  BY <1>8, ScopesRest DEF Scripts!vars
<1> QED BY <1>1, <1>2, <1>3, <1>4, <1>5, <1>6, <1>7, <1>8 DEF Scripts!Next

(* For sources of any length, with strings, comments, regular expressions   *)
(* and templates in any order, a source is judged by the keywords in its    *)
(* code, until the lexer comes to one of the forms that Misread names.      *)
THEOREM VerdictIsRightAlways == Scripts!Spec => []Scripts!VerdictIsRight
<1>1. Scripts!Init => LexerInv
  BY DEF Scripts!Init, LexerInv, LexerHolds, LexerTyped, Place, Outside, InTemplate, Scripts!Mode, Scripts!Code, Inner,
         Scripts!Quote, Scripts!Comment
<1>2. LexerInv => Scripts!VerdictIsRight
  <2>1. keywords \cap Static = expected \cap Static =>
          (Scripts!IsESM <=> expected \cap {"import", "export"} # {})
    BY DEF Scripts!IsESM, Static
  <2> QED BY <2>1 DEF LexerInv, LexerHolds, Scripts!VerdictIsRight
<1> QED BY <1>1, <1>2, LexerStep, PTL DEF Scripts!Spec

(* However deep imports nest, each closes one scope, and what is left of the*)
(* others is what native code had open when it threw.                       *)
THEOREM ScopesComeBackAlways == Scripts!Spec => []Scripts!ScopesComeBack
<1>1. Scripts!Init => ScopesInv
  BY EmptySeq DEF Scripts!Init, ScopesInv
<1>2. ScopesInv => Scripts!ScopesComeBack
  BY EmptySeq DEF ScopesInv, Scripts!ScopesComeBack
<1> QED BY <1>1, <1>2, ScopesStep, PTL DEF Scripts!Spec

-----------------------------------------------------------------------------
CONSTANTS
  MaxLength, MaxSize

VARIABLES
  source, string, kind, length, size, buffer, written

Values == INSTANCE NapiValues

(* NapiValues: strings between JavaScript and native code.                  *)

StringsAssumed == MaxLength \in Nat /\ MaxSize \in Nat

Letter == Values!Char \cup {"?"}
Byte == Letter \X (1 .. 3)

LEMMA LeastMember ==
  ASSUME NEW T, T \subseteq Nat, T # {}
  PROVE  \E x \in T : \A y \in T : x <= y
<1> DEFINE Less == OpToRel(<, Nat)
<1>1. PICK x \in T : \A y \in T : ~(<<y, x>> \in Less)
  BY NatLessThanWellFounded, WFMin
<1>2. ASSUME NEW y \in T PROVE x <= y
  <2>1. x \in Nat /\ y \in Nat
    OBVIOUS
  <2>2. y < x => <<y, x>> \in Less
    BY <2>1 DEF OpToRel
  <2> HIDE DEF Less
  <2> QED BY <1>1, <2>1, <2>2
<1> QED BY <1>2

\* What holds of 0 and is handed on holds up to n.
LEMMA HandedOn ==
  ASSUME NEW n \in Nat, NEW T, 0 \in T, \A i \in 1 .. n : i - 1 \in T => i \in T
  PROVE  \A i \in 0 .. n : i \in T
<1> DEFINE U == {i \in 0 .. n : i \notin T}
<1>1. ASSUME U # {} PROVE FALSE
  <2>1. U \subseteq Nat
    OBVIOUS
  <2> HIDE DEF U
  <2>2. PICK m \in U : \A y \in U : m <= y
    BY <1>1, <2>1, LeastMember
  <2> USE DEF U
  <2>3. m \in 0 .. n /\ m \notin T
    BY <2>2
  <2>4. m # 0
    BY <2>3
  <2>5. m \in 1 .. n /\ m - 1 \in 0 .. n /\ ~(m <= m - 1)
    BY <2>3, <2>4
  <2>6. m - 1 \notin U
    <3> HIDE DEF U
    <3> QED BY <2>2, <2>5
  <2>7. m - 1 \in T
    BY <2>5, <2>6
  <2> QED BY <2>3, <2>5, <2>7
<1> QED BY <1>1

\* A function that is built from its first value a step at a time, the step
\* a function of the place and of what comes before.
Builds(f, t, step, m) == f = [i \in 0 .. m |-> IF i = 0 THEN t ELSE step[i][f[i - 1]]]

LEMMA BuiltExists ==
  ASSUME NEW n \in Nat, NEW t, NEW step
  PROVE  \E f : Builds(f, t, step, n)
<1> DEFINE T == {m \in 0 .. n : \E f : Builds(f, t, step, m)}
<1>1. 0 \in T
  <2> DEFINE f == [i \in 0 .. 0 |-> t]
  <2>1. \A i \in 0 .. 0 : f[i] = IF i = 0 THEN t ELSE step[i][f[i - 1]]
    OBVIOUS
  <2>2. f = [i \in 0 .. 0 |-> f[i]]
    OBVIOUS
  <2> HIDE DEF f
  <2>3. Builds(f, t, step, 0)
    BY <2>1, <2>2 DEF Builds
  <2> QED BY <2>3
<1>2. ASSUME NEW m \in 1 .. n, m - 1 \in T
      PROVE  m \in T
  <2>1. PICK g : Builds(g, t, step, m - 1)
    BY <1>2
  <2>2. \A i \in 0 .. m - 1 : g[i] = IF i = 0 THEN t ELSE step[i][g[i - 1]]
    BY <2>1 DEF Builds
  <2> DEFINE f == [i \in 0 .. m |-> IF i = m THEN step[m][g[m - 1]] ELSE g[i]]
  <2>3. ASSUME NEW k \in 0 .. m
        PROVE  f[k] = IF k = 0 THEN t ELSE step[k][f[k - 1]]
    <3>1. CASE k = m
      <4>1. f[k] = step[m][g[m - 1]] /\ k # 0 /\ k - 1 \in 0 .. m /\ k - 1 # m
        BY <3>1
      <4>2. f[k - 1] = g[m - 1]
        BY <3>1, <4>1
      <4> HIDE DEF f
      <4> QED BY <3>1, <4>1, <4>2
    <3>2. CASE k # m
      <4>1. k \in 0 .. m - 1 /\ f[k] = g[k]
        BY <3>2
      <4>2. k # 0 => f[k - 1] = g[k - 1]
        <5>1. k # 0 => k - 1 \in 0 .. m /\ k - 1 # m
          BY <4>1
        <5> QED BY <5>1
      <4> HIDE DEF f
      <4> QED BY <2>2, <4>1, <4>2
    <3> QED BY <3>1, <3>2
  <2>4. f = [i \in 0 .. m |-> f[i]]
    OBVIOUS
  <2> HIDE DEF f
  <2>5. Builds(f, t, step, m)
    BY <2>3, <2>4 DEF Builds
  <2>6. m \in 0 .. n
    OBVIOUS
  <2> QED BY <2>5, <2>6
<1>3. n \in 0 .. n
  OBVIOUS
<1> HIDE DEF T
<1>4. n \in T
  BY <1>1, <1>2, <1>3, HandedOn
<1> QED BY <1>4 DEF T

\* The bytes of one character.
CharBytes(c) == [j \in 1 .. Values!Width(c) |-> <<c, j>>]

LEMMA CharBytesAre ==
  ASSUME NEW c \in Letter
  PROVE  CharBytes(c) \in Seq(Byte) /\ Len(CharBytes(c)) = Values!Width(c) /\ Values!Width(c) \in 1 .. 3
<1>1. Values!Width(c) \in 1 .. 3
  BY DEF Values!Width
<1> HIDE DEF Values!Width
<1> DEFINE w == Values!Width(c)
<1> HIDE DEF w
<1>2. w \in 1 .. 3
  BY <1>1 DEF w
<1>3. \A j \in 1 .. w : <<c, j>> \in Byte
  BY <1>2 DEF Byte
<1>4. [j \in 1 .. w |-> <<c, j>>] \in Seq(Byte) /\ Len([j \in 1 .. w |-> <<c, j>>]) = w
  BY <1>2, <1>3
<1> QED BY <1>1, <1>4 DEF CharBytes, w

LEMMA EncodedIs ==
  ASSUME NEW s \in Seq(Letter)
  PROVE  /\ Values!Encoded(s) \in Seq(Byte)
         /\ (\A i \in 1 .. Len(s) : Values!Width(s[i]) = 1) => Len(Values!Encoded(s)) = Len(s)
<1> DEFINE n == Len(s)
           Enc(f) == f = [i \in 0 .. n |-> IF i = 0 THEN << >> ELSE f[i - 1] \o CharBytes(s[i])]
           enc == CHOOSE f : Enc(f)
           step == [i \in 1 .. n |-> [p \in Seq(Byte) |-> p \o CharBytes(s[i])]]
<1>1. n \in Nat /\ \A i \in 1 .. n : s[i] \in Letter
  BY LenProperties, ElementOfSeq
<1>2. Values!Encoded(s) = enc[n]
  BY DEF Values!Encoded, CharBytes
<1>3. \A i \in 1 .. n, p \in Seq(Byte) :
        /\ step[i][p] = p \o CharBytes(s[i]) /\ p \o CharBytes(s[i]) \in Seq(Byte)
        /\ Len(p \o CharBytes(s[i])) = Len(p) + Values!Width(s[i])
  <2>1. ASSUME NEW i \in 1 .. n, NEW p \in Seq(Byte)
        PROVE  /\ p \o CharBytes(s[i]) \in Seq(Byte)
               /\ Len(p \o CharBytes(s[i])) = Len(p) + Values!Width(s[i])
    <3>1. CharBytes(s[i]) \in Seq(Byte) /\ Len(CharBytes(s[i])) = Values!Width(s[i])
      BY <1>1, CharBytesAre
    <3> QED BY <3>1, ConcatProperties
  <2>2. \A i \in 1 .. n, p \in Seq(Byte) : step[i][p] = p \o CharBytes(s[i])
    OBVIOUS
  <2> HIDE DEF step
  <2> QED BY <2>1, <2>2
<1> HIDE DEF n, step
\* The function that Encoded takes exists, and every such function is typed.
<1>4. \E f : Enc(f)
  <2>1. PICK f : Builds(f, << >>, step, n)
    BY <1>1, BuiltExists
  <2>2. \A i \in 0 .. n : f[i] = IF i = 0 THEN << >> ELSE step[i][f[i - 1]]
    BY <2>1 DEF Builds
  <2> DEFINE T == {i \in 0 .. n : f[i] \in Seq(Byte)}
  <2>3. \A i \in 0 .. n : i \in T
    <3>0. 0 \in 0 .. n /\ << >> \in Seq(Byte)
      BY <1>1
    <3>1. 0 \in T
      BY <2>2, <3>0
    <3>2. ASSUME NEW i \in 1 .. n, i - 1 \in T PROVE i \in T
      <4>1. i \in 0 .. n /\ i # 0
        BY <1>1
      <4> QED BY <1>3, <2>2, <3>2, <4>1
    <3> HIDE DEF T
    <3> QED BY <1>1, <3>1, <3>2, HandedOn
  <2>4. \A i \in 0 .. n : f[i] = IF i = 0 THEN << >> ELSE f[i - 1] \o CharBytes(s[i])
    <3>1. ASSUME NEW i \in 0 .. n, i # 0
          PROVE  f[i] = f[i - 1] \o CharBytes(s[i])
      <4>1. i \in 1 .. n /\ i - 1 \in 0 .. n
        BY <1>1, <3>1
      <4>2. f[i - 1] \in Seq(Byte)
        BY <2>3, <4>1
      <4> QED BY <1>3, <2>2, <3>1, <4>1, <4>2
    <3> QED BY <2>2, <3>1
  <2>5. DOMAIN f = 0 .. n /\ f = [i \in 0 .. n |-> f[i]]
    BY <2>1 DEF Builds
  <2>6. Enc(f)
    BY <2>4, <2>5
  <2> HIDE DEF Enc
  <2> QED BY <2>6
<1>5. Enc(enc)
  <2> HIDE DEF Enc
  <2> QED BY <1>4
<1> HIDE DEF enc
<1>6. \A i \in 0 .. n : enc[i] = IF i = 0 THEN << >> ELSE enc[i - 1] \o CharBytes(s[i])
  BY <1>5
<1> HIDE DEF Enc
<1>7. enc[n] \in Seq(Byte)
  <2> DEFINE T == {i \in 0 .. n : enc[i] \in Seq(Byte)}
  <2>0. 0 \in 0 .. n /\ << >> \in Seq(Byte) /\ Len(<< >>) = 0
    BY <1>1
  <2>1. 0 \in T
    BY <1>6, <2>0
  <2>2. ASSUME NEW i \in 1 .. n, i - 1 \in T PROVE i \in T
    <3>1. i \in 0 .. n /\ i # 0
      BY <1>1
    <3> QED BY <1>3, <1>6, <2>2, <3>1
  <2>3. n \in 0 .. n
    BY <1>1
  <2> HIDE DEF T
  <2>4. n \in T
    BY <1>1, <2>1, <2>2, <2>3, HandedOn
  <2> QED BY <2>4 DEF T
<1>8. ASSUME \A i \in 1 .. n : Values!Width(s[i]) = 1
      PROVE  Len(enc[n]) = n
  <2> DEFINE T == {i \in 0 .. n : enc[i] \in Seq(Byte) /\ Len(enc[i]) = i}
  <2>0. 0 \in 0 .. n /\ << >> \in Seq(Byte) /\ Len(<< >>) = 0
    BY <1>1
  <2>1. 0 \in T
    BY <1>6, <2>0
  <2>2. ASSUME NEW i \in 1 .. n, i - 1 \in T PROVE i \in T
    <3>1. i \in 0 .. n /\ i # 0
      BY <1>1
    <3>2. enc[i - 1] \in Seq(Byte) /\ Len(enc[i - 1]) = i - 1
      BY <2>2
    <3>3. enc[i] = enc[i - 1] \o CharBytes(s[i])
      BY <1>6, <3>1
    <3>4. enc[i] \in Seq(Byte) /\ Len(enc[i]) = (i - 1) + 1
      BY <1>3, <1>8, <3>2, <3>3
    <3> QED BY <3>1, <3>4
  <2>3. n \in 0 .. n
    BY <1>1
  <2> HIDE DEF T
  <2>4. n \in T
    BY <1>1, <2>1, <2>2, <2>3, HandedOn
  <2> QED BY <2>4 DEF T
<1> QED BY <1>2, <1>7, <1>8 DEF n

\* The character that a byte is read as, and what it adds to what was read.
Whole(bytes, i) == bytes[i][2] = 1 /\ i + Values!Width(bytes[i][1]) - 1 <= Len(bytes)
CharAt(bytes, i) == IF Whole(bytes, i) THEN bytes[i][1] ELSE "?"
ReadOn(bytes, i, p) == IF bytes[i][2] > 1 THEN p ELSE Append(p, CharAt(bytes, i))

LEMMA DecodedIs ==
  ASSUME NEW bytes \in Seq(Byte)
  PROVE  Values!Decoded(bytes) \in Seq(Letter)
<1> DEFINE n == Len(bytes)
           Dec(f) == f = [i \in 0 .. n |-> IF i = 0 THEN << >> ELSE ReadOn(bytes, i, f[i - 1])]
           dec == CHOOSE f : Dec(f)
           step == [i \in 1 .. n |-> [p \in Seq(Letter) |-> ReadOn(bytes, i, p)]]
<1>1. n \in Nat /\ \A i \in 1 .. n : bytes[i] \in Byte
  BY LenProperties, ElementOfSeq
<1>2. Values!Decoded(bytes) = dec[n]
  BY DEF Values!Decoded, ReadOn, CharAt, Whole
<1>3. \A i \in 1 .. n, p \in Seq(Letter) :
        step[i][p] = ReadOn(bytes, i, p) /\ ReadOn(bytes, i, p) \in Seq(Letter)
  <2>1. ASSUME NEW i \in 1 .. n, NEW p \in Seq(Letter)
        PROVE  ReadOn(bytes, i, p) \in Seq(Letter)
    <3>1. CharAt(bytes, i) \in Letter
      BY <1>1 DEF CharAt, Byte, Letter
    <3>2. Append(p, CharAt(bytes, i)) \in Seq(Letter)
      BY <3>1, AppendProperties
    <3> QED BY <3>2 DEF ReadOn
  <2>2. \A i \in 1 .. n, p \in Seq(Letter) : step[i][p] = ReadOn(bytes, i, p)
    OBVIOUS
  <2> HIDE DEF step
  <2> QED BY <2>1, <2>2
<1> HIDE DEF n, step
<1>4. \E f : Dec(f)
  <2>1. PICK f : Builds(f, << >>, step, n)
    BY <1>1, BuiltExists
  <2>2. \A i \in 0 .. n : f[i] = IF i = 0 THEN << >> ELSE step[i][f[i - 1]]
    BY <2>1 DEF Builds
  <2> DEFINE T == {i \in 0 .. n : f[i] \in Seq(Letter)}
  <2>3. \A i \in 0 .. n : i \in T
    <3>0. 0 \in 0 .. n /\ << >> \in Seq(Letter)
      BY <1>1
    <3>1. 0 \in T
      BY <2>2, <3>0
    <3>2. ASSUME NEW i \in 1 .. n, i - 1 \in T PROVE i \in T
      <4>1. i \in 0 .. n /\ i # 0
        BY <1>1
      <4> QED BY <1>3, <2>2, <3>2, <4>1
    <3> HIDE DEF T
    <3> QED BY <1>1, <3>1, <3>2, HandedOn
  <2>4. \A i \in 0 .. n : f[i] = IF i = 0 THEN << >> ELSE ReadOn(bytes, i, f[i - 1])
    <3>1. ASSUME NEW i \in 0 .. n, i # 0
          PROVE  f[i] = ReadOn(bytes, i, f[i - 1])
      <4>1. i \in 1 .. n /\ i - 1 \in 0 .. n
        BY <1>1, <3>1
      <4>2. f[i - 1] \in Seq(Letter)
        BY <2>3, <4>1
      <4> QED BY <1>3, <2>2, <3>1, <4>1, <4>2
    <3> QED BY <2>2, <3>1
  <2>5. DOMAIN f = 0 .. n /\ f = [i \in 0 .. n |-> f[i]]
    BY <2>1 DEF Builds
  <2>6. Dec(f)
    BY <2>4, <2>5
  <2> HIDE DEF Dec
  <2> QED BY <2>6
<1>5. Dec(dec)
  <2> HIDE DEF Dec
  <2> QED BY <1>4
<1> HIDE DEF dec
<1>6. \A i \in 0 .. n : dec[i] = IF i = 0 THEN << >> ELSE ReadOn(bytes, i, dec[i - 1])
  BY <1>5
<1> HIDE DEF Dec
<1>7. dec[n] \in Seq(Letter)
  <2> DEFINE T == {i \in 0 .. n : dec[i] \in Seq(Letter)}
  <2>0. 0 \in 0 .. n /\ << >> \in Seq(Letter)
    BY <1>1
  <2>1. 0 \in T
    BY <1>6, <2>0
  <2>2. ASSUME NEW i \in 1 .. n, i - 1 \in T PROVE i \in T
    <3>1. i \in 0 .. n /\ i # 0
      BY <1>1
    <3> QED BY <1>3, <1>6, <2>2, <3>1
  <2>3. n \in 0 .. n
    BY <1>1
  <2> HIDE DEF T
  <2>4. n \in T
    BY <1>1, <2>1, <2>2, <2>3, HandedOn
  <2> QED BY <2>4 DEF T
<1> QED BY <1>2, <1>7

\* readCString takes a part of the bytes.
LEMMA UpToIs ==
  ASSUME NEW S, NEW s \in Seq(S), NEW m \in Nat, m <= Len(s)
  PROVE  Values!UpTo(s, m) \in Seq(S) /\ Len(Values!UpTo(s, m)) = m
BY SubSeqProperties DEF Values!UpTo

LEMMA TerminatedIs ==
  ASSUME NEW S, NEW bytes \in Seq(S)
  PROVE  \E m \in 0 .. Len(bytes) : Values!Terminated(bytes) = Values!UpTo(bytes, m)
<1> DEFINE n == Len(bytes)
           Ends(m) == /\ m = n \/ bytes[m + 1] = Values!NUL
                      /\ \A i \in 1 .. m : bytes[i] # Values!NUL
           T == {m \in 0 .. n : m = n \/ bytes[m + 1] = Values!NUL}
<1>1. n \in Nat
  BY LenProperties
<1>2. T # {} /\ T \subseteq Nat
  BY <1>1
<1>3. PICK m \in T : \A k \in T : m <= k
  <2> HIDE DEF T
  <2> QED BY <1>2, LeastMember
<1>4. m \in 0 .. n /\ (m = n \/ bytes[m + 1] = Values!NUL)
  BY <1>3
<1>5. ASSUME NEW i \in 1 .. m, bytes[i] = Values!NUL PROVE FALSE
  <2>1. i - 1 \in 0 .. n /\ (i - 1) + 1 = i /\ ~(m <= i - 1)
    BY <1>1, <1>4
  <2>2. i - 1 \in T
    BY <1>5, <2>1
  <2> HIDE DEF T
  <2> QED BY <1>3, <2>1, <2>2
<1>6. \E k \in 0 .. n : Ends(k)
  BY <1>4, <1>5
<1>7. (CHOOSE k \in 0 .. n : Ends(k)) \in 0 .. n
  <2> HIDE DEF Ends, n
  <2> QED BY <1>6
<1>8. Values!Terminated(bytes) = Values!UpTo(bytes, CHOOSE k \in 0 .. n : Ends(k))
  BY DEF Values!Terminated
<1> HIDE DEF Ends, n
<1>9. Values!Terminated(bytes) = Values!UpTo(bytes, CHOOSE k \in 0 .. n : Ends(k))
      /\ (CHOOSE k \in 0 .. n : Ends(k)) \in 0 .. n
  BY <1>7, <1>8
<1> QED BY <1>9 DEF n

-----------------------------------------------------------------------------
Measured == IF kind = "utf8" THEN Len(Values!Encoded(string)) ELSE Len(string)

ValuesInv ==
  /\ kind \in Values!Kind /\ source \in Seq(Values!Char) /\ string \in Seq(Letter)
  /\ size \in 0 .. MaxSize
  /\ length = Values!Unasked \/ length = Measured
  /\ size > 0 =>
       /\ written = Values!AtMost(Len(Values!Units), size - 1)
       /\ buffer = Append(Values!UpTo(Values!Units, written), Values!NUL)

ASCII == \A i \in 1 .. Len(string) : string[i] \in {"a", "0"}

LEMMA UnitsAre ==
  ASSUME ValuesInv
  PROVE  /\ Values!Units \in Seq(Byte)
         /\ (kind = "latin1" => ASCII) => Len(Values!Units) = Measured
<1>1. string \in Seq(Letter) /\ kind \in {"utf8", "utf16", "latin1"}
  BY DEF ValuesInv, Values!Kind
<1>2. Len(string) \in Nat /\ \A i \in 1 .. Len(string) : string[i] \in Letter
  BY <1>1, LenProperties, ElementOfSeq
<1>3. CASE kind = "utf16"
  <2> DEFINE u == [i \in 1 .. Len(string) |-> <<string[i], 1>>]
  <2>1. \A i \in 1 .. Len(string) : <<string[i], 1>> \in Byte
    BY <1>2 DEF Byte
  <2>2. u \in Seq(Byte) /\ Len(u) = Len(string)
    BY <1>2, <2>1
  <2>3. Values!Units = u /\ Measured = Len(string)
    BY <1>3 DEF Values!Units, Measured
  <2> QED BY <2>2, <2>3
<1>4. CASE kind = "utf8"
  <2>1. Values!Units = Values!Encoded(string) /\ Measured = Len(Values!Encoded(string))
    BY <1>4 DEF Values!Units, Measured
  <2> QED BY <1>1, <2>1, EncodedIs
<1>5. CASE kind = "latin1"
  <2> DEFINE low == [i \in 1 .. Len(string) |-> IF string[i] = "?" THEN "e" ELSE string[i]]
  <2>1. \A i \in 1 .. Len(string) : (IF string[i] = "?" THEN "e" ELSE string[i]) \in Letter
    BY <1>2 DEF Letter, Values!Char
  <2>2. low \in Seq(Letter) /\ Len(low) = Len(string)
    BY <1>2, <2>1
  <2>3. Values!Units = Values!Encoded(low) /\ Measured = Len(string)
    BY <1>5 DEF Values!Units, Measured
  <2>4. ASSUME ASCII PROVE \A i \in 1 .. Len(low) : Values!Width(low[i]) = 1
    BY <2>2, <2>4 DEF ASCII, Values!Width
  <2> HIDE DEF low
  <2> QED BY <1>5, <2>2, <2>3, <2>4, EncodedIs
<1> QED BY <1>1, <1>3, <1>4, <1>5

\* Every string that is made is a sequence of characters.
LEMMA SourceBytesAre == ASSUME ValuesInv PROVE Values!SourceBytes \in Seq(Byte)
<1>1. source \in Seq(Values!Char) /\ Len(source) \in Nat
      /\ \A i \in 1 .. Len(source) : source[i] \in Values!Char
  BY LenProperties, ElementOfSeq DEF ValuesInv
<1>2. source \in Seq(Letter)
  BY <1>1 DEF Letter
<1>3. \A i \in 1 .. Len(source) :
        (IF source[i] = "e" THEN <<"e", 1>> ELSE <<source[i], 1>>) \in Byte
  BY <1>1 DEF Byte, Letter, Values!Char
<1>4. [i \in 1 .. Len(source) |->
         IF source[i] = "e" THEN <<"e", 1>> ELSE <<source[i], 1>>] \in Seq(Byte)
  BY <1>1, <1>3
<1> QED BY <1>2, <1>4, EncodedIs DEF Values!SourceBytes

LEMMA ReadIs == ASSUME NEW bytes \in Seq(Byte) PROVE Values!Read(bytes) \in Seq(Letter)
<1>1. Len(bytes) \in Nat /\ \A i \in 1 .. Len(bytes) : bytes[i] \in Byte
  BY LenProperties, ElementOfSeq
<1>2. \A i \in 1 .. Len(bytes) :
        (IF bytes[i][1] = "e" THEN "?" ELSE bytes[i][1]) \in Letter
  BY <1>1 DEF Byte, Letter
<1>3. Values!Lone(bytes) \in Seq(Letter)
  BY <1>1, <1>2 DEF Values!Lone
<1> QED BY <1>3, DecodedIs DEF Values!Read

Makes(s) ==
  /\ size = 0 /\ length = Values!Unasked /\ s \in Seq(Letter) /\ string' = s
  /\ UNCHANGED <<source, kind, length, size, buffer, written>>

LEMMA CreateMakes ==
  ASSUME ValuesInv,
         (\E n \in 0 .. MaxSize : Values!CreateString(n)) \/ Values!CreateTerminated \/ Values!JavaScriptString
  PROVE  \E s : Makes(s)
<1>1. source \in Seq(Letter) /\ Len(source) \in Nat
      /\ \A i \in 1 .. Len(source) : source[i] \in Letter
  <2>1. source \in Seq(Values!Char) /\ Values!Char \subseteq Letter
    BY DEF ValuesInv, Letter
  <2> QED BY <2>1, LenProperties, ElementOfSeq
<1>2. Values!SourceBytes \in Seq(Byte) /\ Len(Values!SourceBytes) \in Nat
  BY SourceBytesAre, LenProperties
<1>3. ASSUME NEW n \in 0 .. MaxSize, Values!CreateString(n) PROVE \E s : Makes(s)
  <2>0. n \in Nat
    BY <1>3
  <2>1. CASE kind = "utf16"
    <3>1. n <= Len(source) /\ string' = Values!UpTo(source, n)
      BY <1>3, <2>1 DEF Values!CreateString
    <3>2. Values!UpTo(source, n) \in Seq(Letter)
      BY <1>1, <2>0, <3>1, UpToIs
    <3> QED BY <1>3, <3>1, <3>2 DEF Values!CreateString, Makes
  <2>2. CASE kind # "utf16"
    <3>1. n <= Len(Values!SourceBytes) /\ string' = Values!Read(Values!UpTo(Values!SourceBytes, n))
      BY <1>3, <2>2 DEF Values!CreateString
    <3>2. Values!Read(Values!UpTo(Values!SourceBytes, n)) \in Seq(Letter)
      BY <1>2, <2>0, <3>1, UpToIs, ReadIs
    <3> QED BY <1>3, <3>1, <3>2 DEF Values!CreateString, Makes
  <2> QED BY <2>1, <2>2
<1>4. CASE Values!CreateTerminated
  <2>1. CASE kind = "utf16"
    <3> DEFINE b == [i \in 1 .. Len(source) |-> <<source[i], 1>>]
    <3>1. \A i \in 1 .. Len(source) : <<source[i], 1>> \in Byte
      BY <1>1 DEF Byte
    <3>2. b \in Seq(Byte) /\ Len(b) = Len(source)
      BY <1>1, <3>1
    <3>3. string' = Values!UpTo(source, Len(Values!Terminated(b)))
      BY <1>4, <2>1 DEF Values!CreateTerminated
    <3> HIDE DEF b
    <3>4. PICK m \in 0 .. Len(source) : Values!Terminated(b) = Values!UpTo(b, m)
      BY <3>2, TerminatedIs
    <3>5. m \in Nat /\ m <= Len(source) /\ m <= Len(b)
      BY <1>1, <3>2
    <3>6. Len(Values!Terminated(b)) = m
      BY <3>2, <3>4, <3>5, UpToIs
    <3>7. Values!UpTo(source, m) \in Seq(Letter)
      BY <1>1, <3>5, UpToIs
    <3> QED BY <1>4, <3>3, <3>6, <3>7 DEF Values!CreateTerminated, Makes
  <2>2. CASE kind # "utf16"
    <3>1. string' = Values!Read(Values!Terminated(Values!SourceBytes))
      BY <1>4, <2>2 DEF Values!CreateTerminated
    <3>2. PICK m \in 0 .. Len(Values!SourceBytes) : Values!Terminated(Values!SourceBytes) = Values!UpTo(Values!SourceBytes, m)
      BY <1>2, TerminatedIs
    <3>3. m \in Nat /\ m <= Len(Values!SourceBytes)
      BY <1>2
    <3>4. Values!Read(Values!Terminated(Values!SourceBytes)) \in Seq(Letter)
      BY <1>2, <3>2, <3>3, UpToIs, ReadIs
    <3> QED BY <1>4, <3>1, <3>4 DEF Values!CreateTerminated, Makes
  <2> QED BY <2>1, <2>2
<1>5. CASE Values!JavaScriptString
  BY <1>1, <1>5 DEF Values!JavaScriptString, Makes
<1> QED BY <1>3, <1>4, <1>5

LEMMA Fills ==
  ASSUME ValuesInv, MaxSize \in Nat, NEW room \in 1 .. MaxSize, Values!GetString(room)
  PROVE  ValuesInv'
<1>1. Values!Units \in Seq(Byte) /\ Len(Values!Units) \in Nat
  BY UnitsAre, LenProperties
<1>2. /\ size' = room /\ buffer' = Append(Values!WriteString(room), Values!NUL)
      /\ written' = Len(Values!WriteString(room))
      /\ UNCHANGED <<source, string, kind, length>>
  BY DEF Values!GetString
<1>3. Values!AtMost(Len(Values!Units), room - 1) \in Nat /\ Values!AtMost(Len(Values!Units), room - 1) <= Len(Values!Units)
  BY <1>1 DEF Values!AtMost
<1>4. Len(Values!WriteString(room)) = Values!AtMost(Len(Values!Units), room - 1)
  BY <1>1, <1>3, UpToIs DEF Values!WriteString
<1>5. Values!Units' = Values!Units /\ Measured' = Measured
  BY <1>2 DEF Values!Units, Measured
<1>6. room \in 0 .. MaxSize
  OBVIOUS
<1> QED BY <1>2, <1>4, <1>5, <1>6 DEF ValuesInv, Values!WriteString, Values!Unasked

LEMMA ValuesStep ==
  ASSUME StringsAssumed, ValuesInv, [Values!Next]_(Values!vars)
  PROVE  ValuesInv'
<1>1. ASSUME (\E n \in 0 .. MaxSize : Values!CreateString(n)) \/ Values!CreateTerminated \/ Values!JavaScriptString
      PROVE  ValuesInv'
  <2>1. PICK s : Makes(s)
    BY <1>1, CreateMakes
  <2>2. ~(size' > 0) /\ length' = Values!Unasked'
    BY <2>1 DEF Makes, Values!Unasked
  <2> QED BY <2>1, <2>2 DEF Makes, ValuesInv, Values!Kind
<1>2. CASE Values!GetLength
  <2>1. length' = Measured /\ UNCHANGED <<source, string, kind, size, buffer, written>>
    BY <1>2 DEF Values!GetLength, Measured
  <2>2. Measured' = Measured /\ Values!Units' = Values!Units
    BY <2>1 DEF Measured, Values!Units
  <2> QED BY <2>1, <2>2 DEF ValuesInv
<1>3. CASE Values!TakeBuffer
  <2>1. length # Values!Unasked /\ length < MaxSize /\ Values!GetString(length + 1)
    BY <1>3 DEF Values!TakeBuffer
  <2>2. length \in Nat
    <3>1. Measured \in Nat
      BY EncodedIs, LenProperties DEF ValuesInv, Measured
    <3> QED BY <2>1, <3>1 DEF ValuesInv
  <2>3. length + 1 \in 1 .. MaxSize
    BY <2>1, <2>2 DEF StringsAssumed
  <2> QED BY <2>1, <2>3, Fills DEF StringsAssumed
<1>4. ASSUME NEW room \in 1 .. MaxSize, Values!GetString(room) PROVE ValuesInv'
  BY <1>4, Fills DEF StringsAssumed
<1>5. CASE UNCHANGED Values!vars
  <2>1. Measured' = Measured /\ Values!Units' = Values!Units
    BY <1>5 DEF Measured, Values!Units, Values!vars
  <2> QED BY <1>5, <2>1 DEF ValuesInv, Values!vars, Values!Unasked
<1> QED BY <1>1, <1>2, <1>3, <1>4, <1>5 DEF Values!Next, Values!AnyBuffer

LEMMA ValuesAreTrue == ASSUME StringsAssumed, ValuesInv PROVE Values!TwoCallsAreEnough
<1> SUFFICES ASSUME size > 0 PROVE Values!TwoCallsAreEnough
  BY DEF Values!TwoCallsAreEnough
<1>1. /\ size \in Nat /\ size <= MaxSize /\ size - 1 \in Nat
      /\ written = Values!AtMost(Len(Values!Units), size - 1)
      /\ buffer = Append(Values!UpTo(Values!Units, written), Values!NUL)
  BY DEF ValuesInv, StringsAssumed
<1>2. Values!Units \in Seq(Byte) /\ Len(Values!Units) \in Nat
  BY UnitsAre, LenProperties
<1>3. written \in Nat /\ written <= Len(Values!Units) /\ written <= size - 1
  BY <1>1, <1>2 DEF Values!AtMost
<1>4. Values!UpTo(Values!Units, written) \in Seq(Byte) /\ Len(Values!UpTo(Values!Units, written)) = written
  BY <1>2, <1>3, UpToIs
<1>5. Values!NUL \in Byte
  BY DEF Values!NUL, Byte, Letter, Values!Char
<1>6. Len(buffer) = written + 1
  BY <1>1, <1>4, <1>5, AppendProperties
<1>7. ASSUME size = length + 1,
             kind = "latin1" => ASCII
      PROVE  written = Len(Values!Units)
  <2>1. length # Values!Unasked
    BY <1>1, <1>7 DEF Values!Unasked, StringsAssumed
  <2>2. length = Len(Values!Units)
    BY <1>7, <2>1, UnitsAre DEF ValuesInv
  <2> QED BY <1>1, <1>2, <1>7, <2>2 DEF Values!AtMost
<1> QED BY <1>1, <1>3, <1>6, <1>7 DEF Values!TwoCallsAreEnough, ASCII

(* For strings and buffers of any length, no write passes the end of the    *)
(* buffer, and a buffer of the length that was answered takes it all.       *)
THEOREM TwoCallsAreEnoughAlways ==
  ASSUME StringsAssumed
  PROVE  Values!Spec => []Values!TwoCallsAreEnough
<1>1. Values!Init => ValuesInv
  <2> SUFFICES ASSUME Values!Init PROVE ValuesInv
    OBVIOUS
  <2>1. source \in Seq(Values!Char)
    <3>1. PICK n \in 0 .. MaxLength : source \in [1 .. n -> Values!Char]
      BY DEF Values!Init, Values!Sources
    <3>2. n \in Nat
      BY DEF StringsAssumed
    <3> QED BY <3>1, <3>2
  <2>2. size = 0 /\ 0 \in 0 .. MaxSize /\ ~(size > 0)
    BY DEF Values!Init, StringsAssumed
  <2>3. string \in Seq(Letter)
    BY DEF Values!Init
  <2> QED BY <2>1, <2>2, <2>3 DEF Values!Init, ValuesInv
<1>2. ValuesInv => Values!TwoCallsAreEnough
  BY ValuesAreTrue
<1> QED BY <1>1, <1>2, ValuesStep, PTL DEF Values!Spec

=============================================================================
