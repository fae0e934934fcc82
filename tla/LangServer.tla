------------------------------ MODULE LangServer ------------------------------
(***************************************************************************)
(* pkg/langserver: the language server and the editor it serves.  The      *)
(* goroutine that reads the connection handles one message after another;  *)
(* every change of a document starts a goroutine that analyses the text it *)
(* finds in the cache and publishes the diagnostics.  What an analysis     *)
(* says of a text depends on the class of the text only.                   *)
(*                                                                         *)
(* The editor keeps to the order of the protocol: nothing but initialize   *)
(* before that is answered, then initialized and its configuration.        *)
(***************************************************************************)
EXTENDS Integers, Sequences

CONSTANTS
  Documents,   (* URIs                                                     *)
  KindOf,      (* by their suffix: "yolol", "opt" (.opt.yolol), "nolol"    *)
  Classes,     (* of texts: "good", "bad" (parser errors), "long" (a line  *)
               (* over the limit), "shrinks" (not so when optimised),      *)
               (* "untyped" (an error of another type, .nolol only)        *)
  Modes,       (* of length checking: "Strict", "Optimize", "Off"          *)
  Edits,       (* bound on the changes of all documents                    *)
  Asks         (* bound on configurations, formattings and other requests  *)

ASSUME LangServerAssumption ==
  /\ KindOf \in [Documents -> {"yolol", "opt", "nolol"}]
  /\ Classes \subseteq {"good", "bad", "long", "shrinks", "untyped"}
  /\ Modes \subseteq {"Strict", "Optimize", "Off"}
  /\ Edits \in Nat /\ Asks \in Nat

NoText == [version |-> 0, class |-> "good"]
NoJob  == [document |-> "none", pc |-> "gone", text |-> NoText, diags |-> "none"]
Starts == 1..Edits

Fields == <<"client", "cache", "settings">>

VARIABLES
  wired,      (* how many Fields of the LangServer Run has set             *)
  died,       (* why the process ended                                     *)
  cache,      (* the text of every document                                *)
  mode,       (* settings.Yolol.LengthChecking.Mode                        *)
  jobs,       (* the goroutines of Diagnose, by the edit that starts each *)
  inbox, outbox,         (* the connection                                 *)
  stage, text, edits, asks,  (* the editor: progress, its documents, how   *)
                         (* much it has sent                               *)
  published   (* history: the texts whose diagnostics arrived              *)

serverVars == <<wired, cache, mode>>
editorVars == <<stage, text, edits, asks, published>>
vars == <<serverVars, died, jobs, inbox, outbox, editorVars>>

Init ==
  /\ wired = 0 /\ died = "no"
  /\ cache = [d \in Documents |-> NoText]
  /\ mode = "Strict"
  /\ jobs = [k \in Starts |-> NoJob] /\ inbox = <<>> /\ outbox = <<>>
  /\ stage = "new" /\ edits = 0 /\ asks = 0
  /\ text = [d \in Documents |-> NoText]
  /\ published = [d \in Documents |-> {}]

Alive == died = "no"
Has(field) == \E k \in 1..wired : Fields[k] = field

(***************************************************************************)
(* The editor.                                                             *)
(***************************************************************************)
Sends(m) == inbox' = Append(inbox, m)

Initialize ==
  /\ Alive /\ stage = "new" /\ Sends([kind |-> "initialize"])
  /\ stage' = "asked"
  /\ UNCHANGED <<serverVars, died, jobs, outbox, text, edits, asks, published>>

(* The first configuration is sent with initialized.                       *)
Configure ==
  /\ Alive /\ stage \in {"ready", "open"} /\ (stage = "ready" \/ asks < Asks)
  /\ \E m \in Modes : Sends([kind |-> "didChangeConfiguration", mode |-> m])
  /\ stage' = "open" /\ asks' = IF stage = "open" THEN asks + 1 ELSE asks
  /\ UNCHANGED <<serverVars, died, jobs, outbox, text, edits, published>>

(* didOpen for the first text of a document, then didChange with the whole *)
(* of the next, as the server asked for.                                   *)
Edit ==
  /\ Alive /\ stage = "open" /\ edits < Edits
  /\ \E d \in Documents, c \in Classes :
       /\ c = "untyped" => KindOf[d] = "nolol"
       /\ text' = [text EXCEPT ![d] = [version |-> edits + 1, class |-> c]]
       /\ Sends([kind |-> "didChange", document |-> d, text |-> text'[d]])
  /\ edits' = edits + 1
  /\ UNCHANGED <<serverVars, died, jobs, outbox, stage, asks, published>>

AskFormatting ==
  /\ Alive /\ stage = "open" /\ asks < Asks
  /\ \E d \in Documents : Sends([kind |-> "formatting", document |-> d, text |-> text[d]])
  /\ asks' = asks + 1
  /\ UNCHANGED <<serverVars, died, jobs, outbox, stage, text, edits, published>>

(* hover, completion and the like, and didClose; exit.                     *)
AskOther ==
  /\ Alive /\ stage = "open" /\ asks < Asks
  /\ \E k \in {"unsupported", "exit"} :
       /\ Sends([kind |-> k])
       /\ stage' = IF k = "exit" THEN "left" ELSE stage
  /\ asks' = asks + 1
  /\ UNCHANGED <<serverVars, died, jobs, outbox, text, edits, published>>

(* What arrives at the editor.                                             *)
Receives ==
  /\ outbox # <<>> /\ outbox' = Tail(outbox)
  /\ LET m == Head(outbox) IN
     /\ stage' = IF m.kind = "initialized" THEN "ready" ELSE stage
     /\ IF m.kind = "diagnostics"
          THEN published' = [published EXCEPT ![m.document] = @ \union {m.version}]
          ELSE UNCHANGED published
  /\ UNCHANGED <<serverVars, died, jobs, inbox, text, edits, asks>>

Editor == Initialize \/ Configure \/ Edit \/ AskFormatting \/ AskOther

(***************************************************************************)
(* Run: the connection is being read while the fields are set.             *)
(***************************************************************************)
Wire ==
  /\ Alive /\ wired < Len(Fields)
  /\ wired' = wired + 1
  /\ mode' = IF Fields[wired'] = "settings" THEN "Strict" ELSE mode
  /\ UNCHANGED <<cache, died, jobs, inbox, outbox, editorVars>>

(***************************************************************************)
(* The handlers, called one after another by the goroutine that reads.  A  *)
(* nil field is a panic, except for a configuration: it cannot be decoded  *)
(* into nil, which is logged.                                              *)
(***************************************************************************)
Begins(kind) == Alive /\ inbox # <<>> /\ Head(inbox).kind = kind
Taken == inbox' = Tail(inbox)
Request == Head(inbox)
Replies(m) == outbox' = Append(outbox, m)

OnInitialize ==
  /\ Begins("initialize") /\ Taken /\ Replies([kind |-> "initialized"])
  /\ UNCHANGED <<serverVars, died, jobs, editorVars>>

DidChangeConfiguration ==
  /\ Begins("didChangeConfiguration") /\ Taken
  /\ mode' = IF Has("settings") THEN Request.mode ELSE mode
  /\ UNCHANGED <<wired, cache, died, jobs, outbox, editorVars>>

Diagnose(d) ==
  jobs' = [jobs EXCEPT ![Request.text.version] = [NoJob EXCEPT !.document = d, !.pc = "read"]]

(* didOpen and didChange.                                                  *)
DidChange_Debounced ==
  /\ Begins("didChange") /\ Has("cache") /\ Taken
  /\ IF \E k \in Starts : jobs[k].document = Request.document
       THEN UNCHANGED <<cache, jobs>>
       ELSE /\ cache' = [cache EXCEPT ![Request.document] = Request.text]
            /\ Diagnose(Request.document)
  /\ UNCHANGED <<wired, mode, died, outbox, editorVars>>
DidChange ==
  /\ Begins("didChange") /\ Has("cache") /\ Taken
  /\ cache' = [cache EXCEPT ![Request.document] = Request.text]
  /\ Diagnose(Request.document)
  /\ UNCHANGED <<wired, mode, died, outbox, editorVars>>

(* A document without a text in the cache is an error, one that does not   *)
(* parse is left alone.                                                    *)
Format(d) ==
  CASE cache[d].version = 0                 -> "error"
    [] cache[d].class \in {"bad", "untyped"} -> "nothing"
    [] OTHER                                -> "edits"

(* Only a .yolol text that parses is printed in the mode of the settings.  *)
NeedsSettings(d) == KindOf[d] = "yolol" /\ Format(d) = "edits"

Formatting ==
  /\ Begins("formatting") /\ Has("cache") /\ Taken
  /\ NeedsSettings(Request.document) => Has("settings")
  /\ Replies([kind |-> "formatted", document |-> Request.document, asked |-> Request.text,
              of |-> cache[Request.document], result |-> Format(Request.document)])
  /\ UNCHANGED <<serverVars, died, jobs, editorVars>>

Unsupported ==
  /\ Begins("unsupported") /\ Taken /\ Replies([kind |-> "unsupported"])
  /\ UNCHANGED <<serverVars, died, jobs, editorVars>>

NotWired ==
  /\ \/ (Begins("didChange") \/ Begins("formatting")) /\ ~Has("cache")
     \/ Begins("formatting") /\ NeedsSettings(Request.document) /\ ~Has("settings")
  /\ died' = "nil field"
  /\ UNCHANGED <<serverVars, jobs, inbox, outbox, editorVars>>

Exit ==
  /\ Begins("exit") /\ died' = "exit"
  /\ UNCHANGED <<serverVars, jobs, inbox, outbox, editorVars>>

Handler ==
  \/ OnInitialize \/ DidChangeConfiguration \/ DidChange \/ Formatting
  \/ Unsupported \/ NotWired \/ Exit

(***************************************************************************)
(* The goroutine of Diagnose: it reads the cache, analyses, reads the      *)
(* settings once or twice, and publishes.                                  *)
(***************************************************************************)
Job(k, pc) == Alive /\ jobs[k].pc = pc
Ends(k) == jobs' = [jobs EXCEPT ![k] = NoJob]
Becomes(k, j) == jobs' = [jobs EXCEPT ![k] = j]

ReadText(k) ==
  /\ Job(k, "read")
  /\ Becomes(k, [jobs[k] EXCEPT !.pc = "parse", !.text = cache[jobs[k].document]])
  /\ UNCHANGED <<serverVars, died, inbox, outbox, editorVars>>

(* p.Parse, or ConvertFileEx, which reads the main file from the cache     *)
(* again.  An error that is neither *parser.Error nor parser.Errors is     *)
(* logged, and nothing is published; for a text without errors the         *)
(* settings are read, whatever its suffix.                                 *)
Analyse(k) ==
  /\ Job(k, "parse")
  /\ LET j == jobs[k]
         t == IF KindOf[j.document] = "nolol" THEN cache[j.document] ELSE j.text
     IN CASE t.class = "untyped" -> Ends(k)
          [] t.class = "bad" ->
               Becomes(k, [j EXCEPT !.pc = "publish", !.text = t, !.diags = "errors"])
          [] OTHER -> Becomes(k, [j EXCEPT !.pc = "length", !.text = t])
  /\ UNCHANGED <<serverVars, died, inbox, outbox, editorVars>>

TooLong(j) == KindOf[j.document] # "nolol" /\ j.text.class \in {"long", "shrinks"}

CheckLength(k) ==
  /\ Job(k, "length") /\ Has("settings")
  /\ Becomes(k, [jobs[k] EXCEPT !.pc = IF mode # "Off" /\ TooLong(jobs[k]) THEN "optimize" ELSE "publish"])
  /\ UNCHANGED <<serverVars, died, inbox, outbox, editorVars>>

CheckOptimized(k) ==
  /\ Job(k, "optimize")
  /\ Becomes(k, [jobs[k] EXCEPT !.pc = "publish",
                                !.diags = IF mode = "Optimize" /\ jobs[k].text.class = "shrinks"
                                            THEN "none" ELSE "warning"])
  /\ UNCHANGED <<serverVars, died, inbox, outbox, editorVars>>

Publish(k) ==
  /\ Job(k, "publish") /\ Has("client")
  /\ Replies([kind |-> "diagnostics", document |-> jobs[k].document,
              version |-> jobs[k].text.version, diags |-> jobs[k].diags])
  /\ Ends(k)
  /\ UNCHANGED <<serverVars, died, inbox, editorVars>>

NilField(k) ==
  /\ \/ Job(k, "length") /\ ~Has("settings")
     \/ Job(k, "publish") /\ ~Has("client")
  /\ died' = "nil field"
  /\ UNCHANGED <<serverVars, jobs, inbox, outbox, editorVars>>

Goroutine(k) ==
  ReadText(k) \/ Analyse(k) \/ CheckLength(k) \/ CheckOptimized(k) \/ Publish(k) \/ NilField(k)

Next ==
  \/ Editor \/ Receives \/ Wire \/ Handler
  \/ \E k \in Starts : Goroutine(k)

Spec == Init /\ [][Next]_vars

(* Goroutines go on, messages arrive; nothing obliges the user.            *)
FairSpec ==
  /\ Spec
  /\ WF_vars(Wire) /\ WF_vars(Handler) /\ WF_vars(Receives)
  /\ \A k \in Starts : WF_vars(Goroutine(k))

(***************************************************************************)
(* Properties.                                                             *)
(***************************************************************************)

(* Formatting answers with edits of the very text the editor had when it   *)
(* asked, however many changes and analyses are under way.                 *)
EditsFitText ==
  \A k \in DOMAIN outbox : outbox[k].kind = "formatted" => outbox[k].of = outbox[k].asked

(* Every text that stays is diagnosed: its diagnostics arrive, unless the  *)
(* converter fails with an error of another type.                          *)
TextIsDiagnosed ==
  \A d \in Documents : \A v \in Starts :
    (text[d].version = v /\ text[d].class # "untyped") ~>
      (v \in published[d] \/ text[d].version > v \/ ~Alive)
==============================================================================
