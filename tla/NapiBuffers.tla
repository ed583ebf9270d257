----------------------------- MODULE NapiBuffers -----------------------------
(***************************************************************************)
(* The bytes that native code and JavaScript share (index.js, NapiBridge). *)
(* They are not shared: an ArrayBuffer lives in JavaScript, the memory     *)
(* that native code is given for it in Wasm, and nothing but the creation  *)
(* of a typed array copies the one to the other. Which memory belongs to   *)
(* which buffer is kept by handle, and handles are used again. Bytes are   *)
(* abstracted to the buffer they were written for, 0 for none.             *)
(***************************************************************************)
EXTENDS Integers

CONSTANTS MaxHandle, MaxBuffer, MaxPtr   \* slots; bounds: buffers, regions

VARIABLES
  names,      \* the table: what each handle names
  meta,       \* arrayBufferMetadata: the region of a handle, 0 for a null pointer
  js,         \* the bytes of each ArrayBuffer, NoBuffer when there is none yet
  region,     \* each malloc'd or external region: its bytes and its buffer
  answer,     \* the last pointer native code was given: for which buffer
  stale,      \* history: handles whose metadata is older than their value
  tainted     \* history: buffers that were reached by way of those

vars == <<names, meta, js, region, answer, stale, tainted>>

Handle == 1 .. MaxHandle
Buffer == 1 .. MaxBuffer
NoBuffer == -1
NoMeta == -1
Nothing == [kind |-> "none", of |-> 0]
NoAnswer == [of |-> 0, ptr |-> 0]

TypeOK ==
  /\ names \in [Handle -> [kind : {"none", "array", "view"}, of : 0 .. MaxBuffer]]
  /\ meta \in [Handle -> NoMeta .. MaxPtr]
  /\ js \in [Buffer -> NoBuffer .. MaxBuffer]
  /\ region \in [1 .. MaxPtr -> [bytes : 0 .. MaxBuffer, of : 0 .. MaxBuffer]]
  /\ answer \in [of : 0 .. MaxBuffer, ptr : 0 .. MaxPtr]
  /\ stale \subseteq Handle /\ tainted \subseteq Buffer

Init ==
  /\ names = [h \in Handle |-> Nothing] /\ meta = [h \in Handle |-> NoMeta]
  /\ js = [b \in Buffer |-> NoBuffer]
  /\ region = [p \in 1 .. MaxPtr |-> [bytes |-> 0, of |-> 0]]
  /\ answer = NoAnswer /\ stale = {} /\ tainted = {}

Free(h) == names[h].kind = "none"
Fresh(b) == js[b] = NoBuffer /\ \A c \in 1 .. b - 1 : js[c] # NoBuffer
Unused(p) == region[p].of = 0 /\ \A q \in 1 .. p - 1 : region[q].of # 0

Taint(h) == tainted' = IF h \in stale THEN tainted \cup {names[h].of} ELSE tainted

-----------------------------------------------------------------------------
(* napi_create_arraybuffer, napi_create_buffer, napi_create_buffer_copy and *)
(* their external kinds. The region is malloc'd when native code asks for a *)
(* pointer, and is its own for the external kinds.                          *)

\* Mutant: metadata is set where the pointer is.
MetaIfPointed(h, ptr) == IF ptr = 0 THEN meta ELSE [meta EXCEPT ![h] = ptr]

MetaSet(h, ptr) == [meta EXCEPT ![h] = ptr]

(* A buffer's metadata is filed under the view, though it is the            *)
(* ArrayBuffer that napi_get_buffer_info looks for.                         *)
Create(h, b, kind, ptr, bytes, shown) ==
  /\ Free(h) /\ Fresh(b) /\ (ptr # 0 => Unused(ptr))
  /\ names' = [names EXCEPT ![h] = [kind |-> kind, of |-> b]]
  /\ meta' = MetaSet(h, ptr) /\ stale' = stale \ {h}
  /\ js' = [js EXCEPT ![b] = bytes]
  /\ region' = IF ptr = 0 THEN region
               ELSE [region EXCEPT ![ptr] = [bytes |-> bytes, of |-> b]]
  /\ answer' = IF shown THEN [of |-> b, ptr |-> ptr] ELSE NoAnswer
  /\ UNCHANGED tainted

CreateArrayBuffer(h, b, ptr) == Create(h, b, "array", ptr, 0, TRUE)
CreateBuffer(h, b, ptr) == Create(h, b, "view", ptr, 0, TRUE)
CreateBufferCopy(h, b, ptr) == Create(h, b, "view", ptr, b, TRUE)

CreateExternalArrayBuffer(h, b, ptr) == ptr # 0 /\ Create(h, b, "array", ptr, b, FALSE)
CreateExternalBuffer(h, b, ptr) == ptr # 0 /\ Create(h, b, "view", ptr, b, FALSE)

(* JavaScript returns a buffer of its own, or one that has a handle:        *)
(* nothing is filed, and nothing that was filed is taken out.               *)
FromJavaScript(h, b, kind) ==
  /\ Free(h) /\ (js[b] = NoBuffer => Fresh(b))
  /\ names' = [names EXCEPT ![h] = [kind |-> kind, of |-> b]]
  /\ js' = IF js[b] = NoBuffer THEN [js EXCEPT ![b] = b] ELSE js
  /\ stale' = IF meta[h] # NoMeta THEN stale \cup {h} ELSE stale
  /\ answer' = NoAnswer
  /\ UNCHANGED <<meta, region, tainted>>

(* The end of a scope, freeHandle: the metadata stays.                      *)
FreeHandle(h) ==
  /\ ~Free(h) /\ names' = [names EXCEPT ![h] = Nothing]
  /\ UNCHANGED <<meta, js, region, answer, stale, tainted>>

-----------------------------------------------------------------------------
(* napi_get_arraybuffer_info: a pointer, or a null pointer and NAPI_OK when *)
(* none was asked for at first, or a failure without metadata.              *)
GetArrayBufferInfo(h) ==
  /\ names[h].kind = "array" /\ Taint(h)
  /\ answer' = IF meta[h] > 0 THEN [of |-> names[h].of, ptr |-> meta[h]] ELSE NoAnswer
  /\ UNCHANGED <<names, meta, js, region, stale>>

(* napi_get_buffer_info: the region of any handle of the ArrayBuffer.       *)
GetBufferInfo(h, g) ==
  /\ names[h].kind = "view" /\ names[g] = [kind |-> "array", of |-> names[h].of]
  /\ meta[g] > 0 /\ Taint(g)
  /\ answer' = [of |-> names[h].of, ptr |-> meta[g]]
  /\ UNCHANGED <<names, meta, js, region, stale>>

(* napi_create_typedarray: what the region holds is copied first, over what *)
(* JavaScript may have written; the new view has a handle of its own.       *)
CreateTypedArray(h, g) ==
  /\ names[h].kind = "array" /\ Free(g) /\ Taint(h)
  /\ js' = IF meta[h] > 0 THEN [js EXCEPT ![names[h].of] = region[meta[h]].bytes] ELSE js
  /\ names' = [names EXCEPT ![g] = [kind |-> "view", of |-> names[h].of]]
  /\ stale' = IF meta[g] # NoMeta THEN stale \cup {g} ELSE stale
  /\ answer' = NoAnswer
  /\ UNCHANGED <<meta, region>>

(* napi_get_typedarray_info, napi_get_dataview_info: no pointer, but a      *)
(* handle of the view's ArrayBuffer.                                        *)
ViewInfo(h, g) == names[h].kind = "view" /\ FromJavaScript(g, names[h].of, "array")

(* Native code writes where it was last pointed; JavaScript writes.         *)
NativeWrites ==
  /\ answer.ptr # 0
  /\ region' = [region EXCEPT ![answer.ptr].bytes = answer.of]
  /\ UNCHANGED <<names, meta, js, answer, stale, tainted>>

JavaScriptWrites(b) ==
  /\ js[b] # NoBuffer /\ js' = [js EXCEPT ![b] = b]
  /\ UNCHANGED <<names, meta, region, answer, stale, tainted>>

Next ==
  \/ \E h \in Handle, b \in Buffer, ptr \in 0 .. MaxPtr :
       CreateArrayBuffer(h, b, ptr) \/ CreateBuffer(h, b, ptr) \/ CreateBufferCopy(h, b, ptr)
  \/ \E h \in Handle, b \in Buffer, ptr \in 1 .. MaxPtr :
       CreateExternalArrayBuffer(h, b, ptr) \/ CreateExternalBuffer(h, b, ptr)
  \/ \E h \in Handle, b \in Buffer, kind \in {"array", "view"} : FromJavaScript(h, b, kind)
  \/ \E h, g \in Handle : GetBufferInfo(h, g) \/ CreateTypedArray(h, g) \/ ViewInfo(h, g)
  \/ \E h \in Handle : FreeHandle(h) \/ GetArrayBufferInfo(h)
  \/ \E b \in Buffer : JavaScriptWrites(b)
  \/ NativeWrites

Spec == Init /\ [][Next]_vars

-----------------------------------------------------------------------------
(* The bytes of one buffer never turn up in another, in JavaScript or in    *)
(* Wasm, and a pointer leads to the region of the buffer it was asked for;  *)
(* unless a buffer was reached by a handle whose slot had been another's.   *)
BytesStayApart ==
  tainted = {} =>
    /\ \A b \in Buffer : js[b] \in {NoBuffer, 0, b}
    /\ \A p \in 1 .. MaxPtr : region[p].bytes \in {0, region[p].of}
    /\ answer.ptr # 0 => region[answer.ptr].of = answer.of
=============================================================================
