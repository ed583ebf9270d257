---------------------------- MODULE NapiObjects -----------------------------
(***************************************************************************)
(* Native code and the properties of an object: one object, one of its     *)
(* properties, the status each call answers with and the exception it      *)
(* leaves. JavaScript that a call runs (a function, a getter, a setter)    *)
(* may call back into native code, which may use the same property: calls  *)
(* nest.                                                                   *)
(*   A write that Reflect.set refuses, or whose setter throws, looks for   *)
(* bridge.classifySetFailure, which the bridge does not have: the function *)
(* is in the object of imports (line 1423). The TypeError of that look-up  *)
(* is what is left pending, whatever went wrong.                           *)
(***************************************************************************)
EXTENDS Naturals, Sequences

CONSTANTS
  Value,    \* what is written and thrown
  MaxCall   \* bound: calls that wait for JavaScript

VARIABLES
  prop,     \* the property: "absent", a value, "method", "accessor" (JavaScript
            \* is told of reads and writes) or "getter" (of reads only)
  frozen,   \* Object.freeze was called
  calls,    \* calls of native code that wait for JavaScript, the last one last
  inside,   \* native code runs, or JavaScript
  pending,  \* pendingExceptionHandle: "none" or what it names
  last      \* the last call that answered: what it was, its status, the value
            \* it wrote or read, and history: the property before and after
            \* the write itself, and whether JavaScript was told of it

vars == <<prop, frozen, calls, inside, pending, last>>

Accessors == {"accessor", "getter"}
Property == Value \cup Accessors \cup {"absent", "method"}
LookupError == "TypeError"

Init ==
  /\ prop = "absent" /\ frozen = FALSE /\ calls = << >> /\ inside = "native"
  /\ pending = "none"
  /\ last = [call |-> "none", status |-> "ok", value |-> "absent",
             before |-> "absent", after |-> "absent", told |-> FALSE]

TypeOK ==
  /\ prop \in Property /\ frozen \in BOOLEAN
  /\ calls \in Seq([call : {"set", "get", "call", "js"}, value : Property])
  /\ inside \in {"native", "js"}
  /\ pending \in Value \cup {"none", LookupError}
  /\ last.status \in {"ok", "pending", "object expected", "refused"}

(* A call answers. OK and every error overwrite lastErrorCode; only a call  *)
(* that throws touches the pending exception.                               *)
Answer(call, status, value, told) ==
  last' = [call |-> call, status |-> status, value |-> value,
           before |-> prop, after |-> prop, told |-> told]

(* A call writes v: what is in the property afterwards is what prop' says.  *)
AnswerWrite(status, v) ==
  last' = [call |-> "set", status |-> status, value |-> v,
           before |-> prop, after |-> prop', told |-> FALSE]

Native == inside = "native"

(* The handle names no object: the calls say so, or read undefined.         *)
NotAnObject ==
  /\ Native
  /\ \/ Answer("set", "object expected", "absent", FALSE)
     \/ Answer("get", "ok", "absent", FALSE)
  /\ UNCHANGED <<prop, frozen, calls, inside, pending>>

Wait(call, v) ==
  /\ Len(calls) < MaxCall
  /\ calls' = Append(calls, [call |-> call, value |-> v])
  /\ inside' = "js"
  /\ UNCHANGED <<prop, frozen, pending, last>>

(* napi_set_property, napi_set_named_property and napi_set_element.         *)
Writable == prop = "absent" \/ prop \in Value \cup {"method"}

\* Mutant: believes Reflect.set whatever it answers.
SetUnasked(v) ==
  /\ Native
  /\ IF prop = "accessor" THEN Wait("set", v)
     ELSE /\ prop' = IF frozen \/ prop = "getter" THEN prop ELSE v
          /\ AnswerWrite("ok", v)
          /\ UNCHANGED <<frozen, calls, inside, pending>>

Set(v) ==
  /\ Native
  /\ IF prop = "accessor" THEN Wait("set", v)
     ELSE /\ IF Writable /\ ~frozen
             THEN /\ prop' = v
                  /\ AnswerWrite("ok", v)
                  /\ UNCHANGED pending
             ELSE /\ UNCHANGED prop
                  /\ pending' = LookupError
                  /\ AnswerWrite("pending", v)
          /\ UNCHANGED <<frozen, calls, inside>>

(* napi_get_property, napi_get_named_property and napi_get_element.         *)
Get ==
  /\ Native
  /\ IF prop \in Accessors THEN Wait("get", "absent")
     ELSE /\ Answer("get", "ok", prop, FALSE)
          /\ UNCHANGED <<prop, frozen, calls, inside, pending>>

(* napi_has_property and its kin, napi_get_property_names: "method" stands  *)
(* for yes.                                                                 *)
Has ==
  /\ Native
  /\ Answer("has", "ok", IF prop = "absent" THEN "absent" ELSE "method", FALSE)
  /\ UNCHANGED <<prop, frozen, calls, inside, pending>>

(* delete and Object.defineProperty throw on a frozen object, and nothing   *)
(* catches that here: the exception passes through the native code. If      *)
(* JavaScript called it, JavaScript gets it; otherwise main is over.        *)
Unwind ==
  /\ inside' = "js"
  /\ calls # << >> /\ calls[Len(calls)].call = "js"
  /\ calls' = SubSeq(calls, 1, Len(calls) - 1)
  /\ UNCHANGED <<prop, frozen, pending, last>>

Delete ==
  /\ Native
  /\ IF frozen /\ prop # "absent" THEN Unwind
     ELSE /\ prop' = "absent"
          /\ Answer("delete", "ok", "absent", FALSE)
          /\ UNCHANGED <<frozen, calls, inside, pending>>

(* napi_define_properties: every property it makes may be changed later. A  *)
(* descriptor with a value is not asked for its getter.                     *)
Define(what) ==
  /\ Native
  /\ IF frozen THEN Unwind
     ELSE /\ prop' = what
          /\ Answer("define", "ok", what, FALSE)
          /\ UNCHANGED <<frozen, calls, inside, pending>>

Freeze ==
  /\ Native
  /\ frozen' = TRUE
  /\ Answer("freeze", "ok", "absent", FALSE)
  /\ UNCHANGED <<prop, calls, inside, pending>>

-----------------------------------------------------------------------------
(* napi_call_function, napi_new_instance, napi_run_script: a pending        *)
(* exception does not stop them.                                            *)
CallFunction == Native /\ Wait("call", "absent")
CallNothing ==
  /\ Native
  /\ Answer("call", "refused", "absent", FALSE)
  /\ UNCHANGED <<prop, frozen, calls, inside, pending>>

(* JavaScript calls a native function: a method, or any function it was     *)
(* given.                                                                   *)
CallNative ==
  /\ inside = "js" /\ Len(calls) < MaxCall
  /\ calls' = Append(calls, [call |-> "js", value |-> "absent"])
  /\ inside' = "native"
  /\ UNCHANGED <<prop, frozen, pending, last>>

(* ... which returns; the exception it may have left pending stays there.   *)
NativeReturns ==
  /\ Native /\ calls # << >> /\ calls[Len(calls)].call = "js"
  /\ calls' = SubSeq(calls, 1, Len(calls) - 1)
  /\ inside' = "js"
  /\ UNCHANGED <<prop, frozen, pending, last>>

Waiting == calls[Len(calls)]

Answered(status, value) ==
  /\ calls' = SubSeq(calls, 1, Len(calls) - 1)
  /\ inside' = "native"
  /\ UNCHANGED <<prop, frozen>>
  /\ Answer(Waiting.call, status, value, TRUE)

(* The function, getter or setter returns v to the call that waits.         *)
JsReturns(v) ==
  /\ inside = "js" /\ calls # << >> /\ Waiting.call # "js"
  /\ Answered("ok", IF Waiting.call = "set" THEN Waiting.value ELSE v)
  /\ UNCHANGED pending

(* ... or throws v.                                                         *)
\* Mutant: an exception of a getter reads as undefined.
JsThrowsUnseen(v) ==
  /\ inside = "js" /\ calls # << >> /\ Waiting.call # "js"
  /\ Answered("pending", "absent")
  /\ pending' = IF Waiting.call = "get" THEN pending ELSE v

JsThrows(v) ==
  /\ inside = "js" /\ calls # << >> /\ Waiting.call # "js"
  /\ Answered("pending", "absent")
  /\ pending' = IF Waiting.call = "set" THEN LookupError ELSE v

(* napi_throw and its kin overwrite what is pending.                        *)
Throw(v) ==
  /\ Native
  /\ pending' = v
  /\ Answer("throw", "ok", v, FALSE)
  /\ UNCHANGED <<prop, frozen, calls, inside>>

GetAndClear ==
  /\ Native /\ pending # "none"
  /\ pending' = "none"
  /\ Answer("clear", "ok", "absent", FALSE)
  /\ UNCHANGED <<prop, frozen, calls, inside>>

Next ==
  \/ \E v \in Value : Set(v) \/ JsReturns(v) \/ JsThrows(v) \/ Throw(v)
  \/ \E what \in Property \ {"absent"} : Define(what)
  \/ NotAnObject \/ Get \/ Has \/ Delete \/ Freeze
  \/ CallFunction \/ CallNothing \/ CallNative \/ NativeReturns \/ GetAndClear

Spec == Init /\ [][Next]_vars

-----------------------------------------------------------------------------
(* A write that answered OK can be read back, or JavaScript was told of it; *)
(* one that answered anything else left the property alone. An answer of    *)
(* PENDING_EXCEPTION leaves an exception to fetch (index.js, lines 1520 to  *)
(* 1545 and 1807 to 1830), however calls nest and whatever was pending.     *)
AnswersAreTrue ==
  /\ last.call = "set" =>
       IF last.status = "ok" THEN last.told \/ last.after = last.value
       ELSE last.after = last.before
  /\ last.status = "pending" => pending # "none"
=============================================================================
