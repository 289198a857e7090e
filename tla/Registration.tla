---------------------------- MODULE Registration ----------------------------
(***************************************************************************)
(* What regsvr32 makes of the registry (FileXRay/registration.c and the    *)
(* two exports of FileXRay/main.cpp that call it).  One registry call is   *)
(* one step: it may fail, the process may die after it, and the next       *)
(* registration or unregistration starts from whatever was left.           *)
(* A variant before the definition it varies is a fault no specification   *)
(* uses; README.md says which property rejects it.                         *)
(***************************************************************************)
CONSTANT Paths  \* where the DLL may be when it is registered

ASSUME PathsAssumption == "absent" \notin Paths /\ "bare" \notin Paths

VARIABLES
  clsid,      \* CLSID\{...}: "absent", "bare" (no value) or "set"
  inproc,     \* its InprocServer32: "absent", "bare" or the DLL's path
  threading,  \* its ThreadingModel value is "Apartment"
  handler,    \* PropertySheetHandlers\FileXRay: "absent", "bare" or "set"
  call,       \* the running process: its next registry call
  module_path,
  undo,       \* fx_unregister_server was called to roll back
  result      \* what the last finished call returned

regVars == <<clsid, inproc, threading, handler>>
vars == <<regVars, call, module_path, undo, result>>

NoPath == "no path"
Results == {"none", "registered", "unregistered", "rolled back", "failed"}
Points == {"idle", "clsidKey", "clsidValue", "inprocKey", "inprocValue",
           "threadingKey", "threadingValue", "handlerKey", "handlerValue",
           "deleteHandler", "deleteInproc", "deleteClsid"}

Init == /\ clsid = "absent" /\ inproc = "absent" /\ threading = FALSE
        /\ handler = "absent"
        /\ call = "idle" /\ module_path = NoPath /\ undo = FALSE /\ result = "none"

Goto(from, to) == call = from /\ call' = to

\* A key that is opened or created keeps the value it has.
Created(key) == IF key = "absent" THEN "bare" ELSE key

-----------------------------------------------------------------------------
(* DllRegisterServer and fx_register_server.                               *)

\* The module's own path is asked for first; without it nothing starts.
Register ==
  /\ Goto("idle", "clsidKey")
  /\ module_path' \in Paths /\ undo' = FALSE /\ result' = "none"
  /\ UNCHANGED regVars

\* Any failing call on the way leads to fx_unregister_server.
RollBack ==
  /\ call \in {"clsidKey", "clsidValue", "inprocKey", "inprocValue",
             "threadingKey", "threadingValue", "handlerKey", "handlerValue"}
  /\ call' = "deleteHandler" /\ undo' = TRUE
  /\ UNCHANGED <<regVars, module_path, result>>

\* fx_set_string on CLSID\{...}: create or open, then set the value.
CreateClsid ==
  /\ Goto("clsidKey", "clsidValue")
  /\ clsid' = Created(clsid)
  /\ UNCHANGED <<inproc, threading, handler, module_path, undo, result>>

\* The class gets its name.
SetClsid ==
  /\ Goto("clsidValue", "inprocKey")
  /\ clsid' = "set"
  /\ UNCHANGED <<inproc, threading, handler, module_path, undo, result>>

\* fx_set_string on InprocServer32.
CreateInproc ==
  /\ Goto("inprocKey", "inprocValue")
  /\ clsid' = Created(clsid) /\ inproc' = Created(inproc)
  /\ UNCHANGED <<threading, handler, module_path, undo, result>>

\* The class gets the DLL.
SetInproc ==
  /\ Goto("inprocValue", "threadingKey")
  /\ inproc' = module_path
  /\ UNCHANGED <<clsid, threading, handler, module_path, undo, result>>

\* fx_set_string on InprocServer32 once more, for ThreadingModel.
OpenForThreading ==
  /\ Goto("threadingKey", "threadingValue")
  /\ clsid' = Created(clsid) /\ inproc' = Created(inproc)
  /\ UNCHANGED <<threading, handler, module_path, undo, result>>

\* The class gets its threading model.
SetThreading ==
  /\ Goto("threadingValue", "handlerKey")
  /\ threading' = TRUE
  /\ UNCHANGED <<clsid, inproc, handler, module_path, undo, result>>

\* fx_set_string on the handler key, last of all.
CreateHandler ==
  /\ Goto("handlerKey", "handlerValue")
  /\ handler' = Created(handler)
  /\ UNCHANGED <<clsid, inproc, threading, module_path, undo, result>>

\* From here on Explorer finds the class.
SetHandler ==
  /\ Goto("handlerValue", "idle")
  /\ handler' = "set" /\ result' = "registered"
  /\ UNCHANGED <<clsid, inproc, threading, module_path, undo>>

-----------------------------------------------------------------------------
(* DllUnregisterServer and fx_unregister_server; a missing key is success. *)

\* fx_unregister_server begins.
Unregister ==
  /\ Goto("idle", "deleteHandler")
  /\ undo' = FALSE /\ result' = "none"
  /\ UNCHANGED <<regVars, module_path>>

HandlerKept ==
  /\ Goto("deleteHandler", "deleteInproc")
  /\ UNCHANGED <<regVars, module_path, undo, result>>

\* The way in is closed first.
DeleteHandler ==
  /\ Goto("deleteHandler", "deleteInproc")
  /\ handler' = "absent"
  /\ UNCHANGED <<clsid, inproc, threading, module_path, undo, result>>

\* RegDeleteTreeW removes the subkey before the key.
DeleteInproc ==
  /\ Goto("deleteInproc", "deleteClsid")
  /\ inproc' = "absent" /\ threading' = FALSE
  /\ UNCHANGED <<clsid, handler, module_path, undo, result>>

\* Then the key itself.
DeleteClsid ==
  /\ Goto("deleteClsid", "idle")
  /\ clsid' = "absent"
  /\ result' = IF undo THEN "rolled back" ELSE "unregistered"
  /\ UNCHANGED <<inproc, threading, handler, module_path, undo>>

FailureUnseen ==
  /\ call \in {"deleteHandler", "deleteInproc", "deleteClsid"}
  /\ call' = "idle" /\ result' = "unregistered"
  /\ UNCHANGED <<regVars, module_path, undo>>

\* A deletion fails: the rest is not tried.
DeleteFails ==
  /\ call \in {"deleteHandler", "deleteInproc", "deleteClsid"}
  /\ call' = "idle" /\ result' = "failed"
  /\ UNCHANGED <<regVars, module_path, undo>>

\* The process dies between two registry calls.
Crash ==
  /\ call # "idle"
  /\ call' = "idle" /\ result' = "none"
  /\ UNCHANGED <<regVars, module_path, undo>>

Next == \/ Register \/ RollBack
        \/ CreateClsid \/ SetClsid \/ CreateInproc \/ SetInproc
        \/ OpenForThreading \/ SetThreading \/ CreateHandler \/ SetHandler
        \/ Unregister \/ DeleteHandler \/ DeleteInproc \/ DeleteClsid
        \/ DeleteFails \/ Crash

Spec == Init /\ [][Next]_vars

-----------------------------------------------------------------------------
ServerComplete == clsid = "set" /\ inproc \in Paths /\ threading

\* Explorer, which starts from the handler key, never finds it leading to a
\* class that is not wholly there: whatever failed, and wherever the process
\* died, in however many attempts.
HandlerComplete == handler = "set" => ServerComplete

\* A result tells the truth: success registered this module_path and all of it;
\* an unregistration, or a rollback that says it is through, left nothing.
ResultTruthful ==
  /\ result = "registered" => /\ handler = "set" /\ ServerComplete
                              /\ inproc = module_path
  /\ result \in {"unregistered", "rolled back"} =>
       clsid = "absent" /\ inproc = "absent" /\ handler = "absent"

\* The strengthening: what each program point has established.
RegInv ==
  /\ HandlerComplete
  /\ ResultTruthful
  /\ call \in {"clsidKey", "clsidValue", "inprocKey", "inprocValue",
             "threadingKey", "threadingValue", "handlerKey", "handlerValue"}
       => module_path \in Paths
  /\ call \in {"inprocKey", "inprocValue", "threadingKey", "threadingValue",
             "handlerKey", "handlerValue"} => clsid = "set"
  /\ call \in {"threadingKey", "threadingValue", "handlerKey", "handlerValue"}
       => inproc = module_path
  /\ call \in {"handlerKey", "handlerValue"} => threading
  /\ call \in {"deleteInproc", "deleteClsid"} => handler = "absent"
  /\ call = "deleteClsid" => inproc = "absent" /\ ~threading
  /\ result # "none" => call = "idle"
=============================================================================
