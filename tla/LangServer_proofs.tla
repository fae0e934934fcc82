--------------------------- MODULE LangServer_proofs ---------------------------
(***************************************************************************)
(* Theorems about LangServer for all documents, texts and numbers of       *)
(* requests.                                                               *)
(***************************************************************************)
EXTENDS LangServer, SequenceTheorems, TLAPS

Texts == [version : Nat, class : Classes \union {"good"}]

(* What the editor sends, and what the server does.                        *)
Incoming ==
  [kind : {"initialize", "unsupported", "exit"}]
    \union [kind : {"didChangeConfiguration"}, mode : Modes]
    \union [kind : {"didChange", "formatting"}, document : Documents, text : Texts]

Diagnoses == {"none", "errors", "warning"}
Outgoing ==
  [kind : {"initialized", "unsupported"}]
    \union [kind : {"formatted"}, document : Documents, asked : Texts, of : Texts,
            result : {"error", "nothing", "edits"}]
    \union [kind : {"diagnostics"}, document : Documents, version : Nat, diags : Diagnoses]

Running == [document : Documents, pc : {"read", "parse", "length", "optimize", "publish"},
            text : Texts, diags : Diagnoses]

TypeOK ==
  /\ cache \in [Documents -> Texts] /\ text \in [Documents -> Texts]
  /\ edits \in Nat
  /\ jobs \in [Starts -> Running \union {NoJob}]
  /\ inbox \in Seq(Incoming) /\ outbox \in Seq(Outgoing)

(***************************************************************************)
(* When the first k messages of the inbox have been handled, t will be the *)
(* text the cache has for d: the last of them that changes d brings it, or *)
(* it is there already.                                                    *)
(***************************************************************************)
Changes(m, d) == m.kind = "didChange" /\ m.document = d
WillHave(d, k, t) ==
  \/ \E j \in 1..k : /\ Changes(inbox[j], d) /\ inbox[j].text = t
                     /\ \A n \in j + 1..k : ~Changes(inbox[n], d)
  \/ (\A n \in 1..k : ~Changes(inbox[n], d)) /\ cache[d] = t

(* A request finds the text it was made for, and what the editor has now   *)
(* is what the cache will have in the end.                                 *)
InStep ==
  /\ \A d \in Documents : WillHave(d, Len(inbox), text[d])
  /\ \A k \in 1..Len(inbox) :
       inbox[k].kind = "formatting" => WillHave(inbox[k].document, k - 1, inbox[k].text)

Inv == TypeOK /\ InStep /\ EditsFitText

(* Handling the first message is one step towards that state.              *)
LEMMA HandlingKeepsPace ==
  ASSUME TypeOK, inbox # <<>>, inbox' = Tail(inbox),
         \/ Head(inbox).kind # "didChange" /\ cache' = cache
         \/ /\ Head(inbox).kind = "didChange"
            /\ cache' = [cache EXCEPT ![Head(inbox).document] = Head(inbox).text],
         NEW d \in Documents, NEW k \in 1..Len(inbox), NEW t, WillHave(d, k, t)
  PROVE  WillHave(d, k - 1, t)'
<1>1. /\ Len(inbox) \in Nat /\ Len(inbox') = Len(inbox) - 1 /\ Head(inbox) = inbox[1]
      /\ \A n \in 1..(Len(inbox) - 1) : inbox'[n] = inbox[n + 1]
  BY HeadTailProperties, LenProperties DEF TypeOK
<1>2. \A n \in 2..k : n - 1 \in 1..(k - 1) /\ inbox'[n - 1] = inbox[n]
  BY <1>1
<1>3. \A n \in 1..(k - 1) : n + 1 \in 2..k /\ inbox'[n] = inbox[n + 1]
  BY <1>1
<1>4. CASE \A n \in 1..k : ~Changes(inbox[n], d)
  <2>1. cache'[d] = t
    BY <1>1, <1>4 DEF WillHave, Changes, TypeOK
  <2>2. \A n \in 1..(k - 1) : ~Changes(inbox'[n], d)
    BY <1>3, <1>4
  <2> QED
    BY <2>1, <2>2 DEF WillHave, Changes
<1>5. ASSUME NEW j \in 1..k, Changes(inbox[j], d), inbox[j].text = t,
             \A n \in j + 1..k : ~Changes(inbox[n], d)
      PROVE  WillHave(d, k - 1, t)'
  <2>1. CASE j = 1
    <3>1. cache'[d] = t
      BY <1>1, <1>5, <2>1 DEF Changes, TypeOK
    <3>2. \A n \in 1..(k - 1) : ~Changes(inbox'[n], d)
      BY <1>3, <1>5, <2>1
    <3> QED
      BY <3>1, <3>2 DEF WillHave, Changes
  <2>2. CASE j # 1
    <3>1. j - 1 \in 1..(k - 1) /\ Changes(inbox'[j - 1], d) /\ inbox'[j - 1].text = t
      BY <1>2, <1>5, <2>2
    <3>2. \A n \in (j - 1) + 1..(k - 1) : ~Changes(inbox'[n], d)
      BY <1>3, <1>5
    <3> QED
      BY <3>1, <3>2 DEF WillHave, Changes
  <2> QED
    BY <2>1, <2>2
<1> QED
  BY <1>4, <1>5 DEF WillHave

(* What is sent arrives after everything that was sent before.             *)
LEMMA SendingAppends ==
  ASSUME TypeOK, NEW m \in Incoming, Sends(m)
  PROVE  /\ inbox' \in Seq(Incoming) /\ Len(inbox) \in Nat /\ Len(inbox') = Len(inbox) + 1
         /\ inbox'[Len(inbox) + 1] = m
         /\ \A n \in 1..Len(inbox) : inbox'[n] = inbox[n]
<1>1. inbox' = Append(inbox, m) /\ inbox \in Seq(Incoming)
  BY DEF Sends, TypeOK
<1> QED
  BY <1>1, AppendProperties, LenProperties

(* Each step keeps the types.                                              *)
LEMMA StepType == TypeOK /\ [Next]_vars => TypeOK'
<1> SUFFICES ASSUME TypeOK, [Next]_vars PROVE TypeOK'
  OBVIOUS
<1> USE DEF serverVars, editorVars
<1>1. ASSUME NEW m \in Incoming, Sends(m), UNCHANGED <<cache, jobs, outbox>>,
             text' \in [Documents -> Texts], edits' \in Nat
      PROVE  TypeOK'
  BY <1>1, SendingAppends DEF TypeOK
<1>2. CASE Initialize
  <2>1. [kind |-> "initialize"] \in Incoming
    BY DEF Incoming
  <2> QED
    BY <1>1, <1>2, <2>1 DEF Initialize, TypeOK
<1>3. CASE Configure
  <2>1. \A m \in Modes : [kind |-> "didChangeConfiguration", mode |-> m] \in Incoming
    BY DEF Incoming
  <2> QED
    BY <1>1, <1>3, <2>1 DEF Configure, TypeOK
<1>4. CASE Edit
  <2>1. PICK d \in Documents, c \in Classes :
          /\ text' = [text EXCEPT ![d] = [version |-> edits + 1, class |-> c]]
          /\ Sends([kind |-> "didChange", document |-> d, text |-> text'[d]])
    BY <1>4 DEF Edit
  <2>2. edits + 1 \in Nat
    BY DEF TypeOK
  <2>3. PICK t \in Texts : t = [version |-> edits + 1, class |-> c]
    BY <2>2 DEF Texts
  <2>4. text' \in [Documents -> Texts] /\ text'[d] = t
    BY <2>1, <2>3 DEF TypeOK
  <2>5. PICK m \in Incoming : m = [kind |-> "didChange", document |-> d, text |-> t]
    BY DEF Incoming
  <2>6. edits' \in Nat
    BY <1>4, <2>2 DEF Edit
  <2>7. Sends(m) /\ UNCHANGED <<cache, jobs, outbox>>
    BY <1>4, <2>1, <2>4, <2>5 DEF Edit
  <2> QED
    BY <1>1, <2>4, <2>6, <2>7
<1>5. CASE AskFormatting
  <2>1. PICK d \in Documents : Sends([kind |-> "formatting", document |-> d, text |-> text[d]])
    BY <1>5 DEF AskFormatting
  <2>2. [kind |-> "formatting", document |-> d, text |-> text[d]] \in Incoming
    BY DEF Incoming, TypeOK
  <2> QED
    BY <1>1, <1>5, <2>1, <2>2 DEF AskFormatting, TypeOK
<1>6. CASE AskOther
  <2>1. \A kd \in {"unsupported", "exit"} : [kind |-> kd] \in Incoming
    BY DEF Incoming
  <2> QED
    BY <1>1, <1>6, <2>1 DEF AskOther, TypeOK
<1>7. CASE Receives
  <2>1. outbox' \in Seq(Outgoing)
    BY <1>7, HeadTailProperties DEF Receives, TypeOK
  <2> QED
    BY <1>7, <2>1 DEF Receives, TypeOK
<1>8. CASE Wire
  BY <1>8 DEF Wire, TypeOK
<1>9. inbox # <<>> => Tail(inbox) \in Seq(Incoming) /\ Head(inbox) \in Incoming
  BY HeadTailProperties DEF TypeOK
<1>10. ASSUME NEW m \in Outgoing, Replies(m) PROVE outbox' \in Seq(Outgoing)
  BY <1>10, AppendProperties DEF Replies, TypeOK
<1>11. CASE OnInitialize \/ Unsupported
  <2>1. \A kd \in {"initialized", "unsupported"} : [kind |-> kd] \in Outgoing
    BY DEF Outgoing
  <2> QED
    BY <1>9, <1>10, <1>11, <2>1 DEF OnInitialize, Unsupported, Begins, Taken, TypeOK
<1>12. CASE DidChangeConfiguration
  BY <1>9, <1>12 DEF DidChangeConfiguration, Begins, Taken, TypeOK
<1>13. CASE DidChange
  <2>1. Head(inbox).document \in Documents /\ Head(inbox).text \in Texts
    BY <1>9, <1>13 DEF DidChange, Begins, Incoming
  <2>2. cache' \in [Documents -> Texts]
    BY <1>13, <2>1 DEF DidChange, Request, TypeOK
  <2>3. [NoJob EXCEPT !.document = Head(inbox).document, !.pc = "read"] \in Running
    BY <2>1 DEF NoJob, Running, NoText, Texts, Diagnoses
  <2>4. jobs' \in [Starts -> Running \union {NoJob}]
    BY <1>13, <2>3 DEF DidChange, Diagnose, Request, TypeOK
  <2> QED
    BY <1>9, <1>13, <2>2, <2>4 DEF DidChange, Begins, Taken, TypeOK
<1>14. CASE Formatting
  <2>1. Head(inbox).document \in Documents /\ Head(inbox).text \in Texts
    BY <1>9, <1>14 DEF Formatting, Begins, Incoming
  <2>2. [kind |-> "formatted", document |-> Request.document, asked |-> Request.text,
         of |-> cache[Request.document], result |-> Format(Request.document)] \in Outgoing
    BY <2>1 DEF Request, Format, Outgoing, TypeOK
  <2> QED
    BY <1>9, <1>10, <1>14, <2>2 DEF Formatting, Begins, Taken, TypeOK
<1>15. CASE NotWired \/ Exit
  BY <1>15 DEF NotWired, Exit, TypeOK
<1>16. ASSUME NEW k \in Starts, Goroutine(k) PROVE TypeOK'
  <2>1. jobs[k].pc # "gone" => jobs[k] \in Running
    BY DEF NoJob, TypeOK
  <2>2. ASSUME NEW j \in Running, Becomes(k, j), UNCHANGED <<cache, text, edits, inbox, outbox>> PROVE TypeOK'
    BY <2>2 DEF Becomes, TypeOK
  <2>3. Ends(k) => jobs' \in [Starts -> Running \union {NoJob}]
    BY DEF Ends, TypeOK
  <2>4. CASE ReadText(k)
    <3>1. jobs[k] \in Running /\ cache[jobs[k].document] \in Texts
      BY <2>1, <2>4 DEF ReadText, Job, Running, TypeOK
    <3>2. [jobs[k] EXCEPT !.pc = "parse", !.text = cache[jobs[k].document]] \in Running
      BY <3>1 DEF Running
    <3> QED
      BY <2>2, <2>4, <3>2 DEF ReadText
  <2>5. CASE Analyse(k)
    <3> DEFINE t == IF KindOf[jobs[k].document] = "nolol" THEN cache[jobs[k].document] ELSE jobs[k].text
    <3>1. jobs[k] \in Running /\ t \in Texts
      BY <2>1, <2>5 DEF Analyse, Job, Running, TypeOK
    <3> HIDE DEF t
    <3>2. /\ [jobs[k] EXCEPT !.pc = "publish", !.text = t, !.diags = "errors"] \in Running
          /\ [jobs[k] EXCEPT !.pc = "publish", !.text = t] \in Running
          /\ [jobs[k] EXCEPT !.pc = "length", !.text = t] \in Running
      BY <3>1 DEF Running, Diagnoses
    <3>3. /\ \/ Ends(k) \/ \E j \in Running : Becomes(k, j)
          /\ UNCHANGED <<cache, text, edits, inbox, outbox>>
      BY <2>5, <3>2 DEF Analyse, t
    <3> QED
      BY <2>2, <2>3, <3>3 DEF TypeOK
  <2>6. CASE CheckLength(k)
    <3>1. \A p \in {"optimize", "publish"} : [jobs[k] EXCEPT !.pc = p] \in Running
      BY <2>1, <2>6 DEF CheckLength, Job, Running
    <3> QED
      BY <2>2, <2>6, <3>1 DEF CheckLength
  <2>7. CASE CheckOptimized(k)
    <3>1. \A g \in Diagnoses : [jobs[k] EXCEPT !.pc = "publish", !.diags = g] \in Running
      BY <2>1, <2>7 DEF CheckOptimized, Job, Running
    <3> QED
      BY <2>2, <2>7, <3>1 DEF CheckOptimized, Diagnoses
  <2>8. CASE Publish(k)
    <3>1. [kind |-> "diagnostics", document |-> jobs[k].document, version |-> jobs[k].text.version,
           diags |-> jobs[k].diags] \in Outgoing
      BY <2>1, <2>8 DEF Publish, Job, Running, Texts, Outgoing
    <3> QED
      BY <1>10, <2>3, <2>8, <3>1 DEF Publish, TypeOK
  <2>9. CASE NilField(k)
    BY <2>9 DEF NilField, TypeOK
  <2> QED
    BY <1>16, <2>4, <2>5, <2>6, <2>7, <2>8, <2>9 DEF Goroutine
<1>17. CASE UNCHANGED vars
  BY <1>17 DEF vars, TypeOK
<1> QED
  BY <1>2, <1>3, <1>4, <1>5, <1>6, <1>7, <1>8, <1>11, <1>12, <1>13, <1>14, <1>15, <1>16, <1>17
     DEF Next, Editor, Handler

(* Each step keeps the cache in step with the editor.                      *)
LEMMA StepInStep == Inv /\ [Next]_vars => InStep'
<1> SUFFICES ASSUME Inv, [Next]_vars PROVE InStep'
  OBVIOUS
<1> USE DEF serverVars, editorVars
<1>1. TypeOK /\ InStep /\ Len(inbox) \in Nat
  BY LenProperties DEF Inv, TypeOK
<1>2. ASSUME UNCHANGED <<cache, inbox, text>> PROVE InStep'
  BY <1>1, <1>2 DEF InStep, WillHave, Changes
<1>3. ASSUME NEW m \in Incoming, Sends(m), UNCHANGED cache
      PROVE  /\ \A k \in 0..Len(inbox) : \A d, t : WillHave(d, k, t) => WillHave(d, k, t)'
             /\ \A d, t : WillHave(d, Len(inbox), t) /\ ~Changes(m, d) => WillHave(d, Len(inbox), t)'
             /\ Len(inbox') = Len(inbox) + 1 /\ inbox'[Len(inbox) + 1] = m
             /\ \A n \in 1..Len(inbox) : inbox'[n] = inbox[n]
  <2>1. /\ Len(inbox') = Len(inbox) + 1 /\ inbox'[Len(inbox) + 1] = m
        /\ \A n \in 1..Len(inbox) : inbox'[n] = inbox[n]
    BY <1>1, <1>3, SendingAppends
  <2>2. ASSUME NEW k \in 0..Len(inbox), NEW d, NEW t, WillHave(d, k, t) PROVE WillHave(d, k, t)'
    <3>1. \A n \in 1..k : inbox'[n] = inbox[n]
      BY <1>1, <2>1
    <3>2. cache' = cache
      BY <1>3
    <3> QED
      BY <2>2, <3>1, <3>2 DEF WillHave, Changes
  <2>3. ASSUME NEW d, NEW t, WillHave(d, Len(inbox), t), ~Changes(m, d)
        PROVE  WillHave(d, Len(inbox), t)'
    <3> DEFINE l == Len(inbox)
    <3>1. /\ \A n \in 1..l : inbox'[n] = inbox[n] /\ n \in 1..(l + 1)
          /\ \A n \in 1..(l + 1) : n \in 1..l \/ n = l + 1
          /\ \A j \in 1..l : \A n \in j + 1..(l + 1) : n \in j + 1..l \/ n = l + 1
          /\ ~Changes(inbox'[l + 1], d) /\ cache' = cache /\ Len(inbox') = l + 1
      BY <1>1, <1>3, <2>1, <2>3
    <3>2. CASE /\ \A n \in 1..l : ~Changes(inbox[n], d)
               /\ cache[d] = t
      BY <3>1, <3>2 DEF WillHave, Changes
    <3>3. ASSUME NEW j \in 1..l, Changes(inbox[j], d), inbox[j].text = t,
                 \A n \in j + 1..l : ~Changes(inbox[n], d)
          PROVE  WillHave(d, Len(inbox), t)'
      <4>1. \A n \in j + 1..(l + 1) : ~Changes(inbox'[n], d)
        <5> TAKE n \in j + 1..(l + 1)
        <5>1. (n \in 1..l /\ n \in j + 1..l) \/ n = l + 1
          BY <1>1, <3>1
        <5> QED
          BY <3>1, <3>3, <5>1
      <4>2. j \in 1..(l + 1) /\ Changes(inbox'[j], d) /\ inbox'[j].text = t
        BY <3>1, <3>3
      <4> QED
        BY <3>1, <4>1, <4>2 DEF WillHave, Changes
    <3> QED
      BY <2>3, <3>2, <3>3 DEF WillHave
  <2> QED
    BY <2>1, <2>2, <2>3
<1>4. ASSUME NEW m \in Incoming, Sends(m), UNCHANGED <<cache, text>>, m.kind # "didChange",
             m.kind = "formatting" => m.document \in Documents /\ m.text = text[m.document]
      PROVE  InStep'
  <2>1. \A d : ~Changes(m, d)
    BY <1>4 DEF Changes
  <2>2. /\ \A k \in 0..Len(inbox) : \A d, t : WillHave(d, k, t) => WillHave(d, k, t)'
        /\ \A d, t : WillHave(d, Len(inbox), t) => WillHave(d, Len(inbox), t)'
        /\ Len(inbox') = Len(inbox) + 1 /\ inbox'[Len(inbox) + 1] = m
        /\ \A n \in 1..Len(inbox) : inbox'[n] = inbox[n]
    BY <1>3, <1>4, <2>1
  <2>3. ASSUME NEW d \in Documents PROVE WillHave(d, Len(inbox), text[d])'
    <3>1. PICK t : t = text[d]
      OBVIOUS
    <3>2. WillHave(d, Len(inbox), t)'
      BY <1>1, <2>2, <3>1 DEF InStep
    <3> QED
      BY <1>4, <2>2, <3>1, <3>2 DEF WillHave
  <2>4. ASSUME NEW k \in 1..Len(inbox'), inbox'[k].kind = "formatting",
               NEW d, NEW t, d = inbox'[k].document, t = inbox'[k].text
        PROVE  WillHave(d, k - 1, t)'
    <3>1. k \in 1..(Len(inbox) + 1) /\ k - 1 \in 0..Len(inbox)
      BY <1>1, <2>2
    <3>2. CASE k \in 1..Len(inbox)
      BY <1>1, <2>2, <2>4, <3>1, <3>2 DEF InStep
    <3>3. CASE k = Len(inbox) + 1
      <4>1. d \in Documents /\ t = text[d] /\ k - 1 = Len(inbox)
        BY <1>1, <1>4, <2>2, <2>4, <3>3
      <4>2. WillHave(d, k - 1, t)
        BY <1>1, <4>1 DEF InStep
      <4> QED
        BY <2>2, <3>1, <4>2
    <3> QED
      BY <1>1, <3>1, <3>2, <3>3
  <2> QED
    BY <2>3, <2>4 DEF InStep, WillHave, Changes
<1>5. CASE Initialize
  <2>1. [kind |-> "initialize"] \in Incoming
    BY DEF Incoming
  <2> QED
    BY <1>4, <1>5, <2>1 DEF Initialize
<1>6. CASE Configure
  <2>1. \A m \in Modes : [kind |-> "didChangeConfiguration", mode |-> m] \in Incoming
    BY DEF Incoming
  <2> QED
    BY <1>4, <1>6, <2>1 DEF Configure
<1>7. CASE AskFormatting
  <2>1. PICK d \in Documents : Sends([kind |-> "formatting", document |-> d, text |-> text[d]])
    BY <1>7 DEF AskFormatting
  <2>2. [kind |-> "formatting", document |-> d, text |-> text[d]] \in Incoming
    BY <1>1 DEF Incoming, TypeOK
  <2> QED
    BY <1>4, <1>7, <2>1, <2>2 DEF AskFormatting
<1>8. CASE AskOther
  <2>1. \A kd \in {"unsupported", "exit"} : [kind |-> kd] \in Incoming
    BY DEF Incoming
  <2> QED
    BY <1>4, <1>8, <2>1 DEF AskOther
<1>9. CASE Edit
  <2>1. PICK d \in Documents, c \in Classes :
          /\ text' = [text EXCEPT ![d] = [version |-> edits + 1, class |-> c]]
          /\ Sends([kind |-> "didChange", document |-> d, text |-> text'[d]])
    BY <1>9 DEF Edit
  <2>2. edits + 1 \in Nat
    BY <1>1 DEF TypeOK
  <2>3. PICK t \in Texts : t = [version |-> edits + 1, class |-> c]
    BY <2>2 DEF Texts
  <2>4. text'[d] = t /\ \A o \in Documents : o # d => text'[o] = text[o]
    BY <1>1, <2>1, <2>3 DEF TypeOK
  <2>5. PICK m \in Incoming : m = [kind |-> "didChange", document |-> d, text |-> t]
    BY DEF Incoming
  <2>6. Sends(m) /\ UNCHANGED cache
    BY <1>9, <2>1, <2>4, <2>5 DEF Edit
  <2>7. Changes(m, d) /\ m.text = t /\ m.kind = "didChange" /\ \A o : o # d => ~Changes(m, o)
    BY <2>5 DEF Changes
  <2>8. /\ \A k \in 0..Len(inbox) : \A o, x : WillHave(o, k, x) => WillHave(o, k, x)'
        /\ \A o, x : WillHave(o, Len(inbox), x) /\ ~Changes(m, o) => WillHave(o, Len(inbox), x)'
        /\ Len(inbox') = Len(inbox) + 1 /\ inbox'[Len(inbox) + 1] = m
        /\ \A n \in 1..Len(inbox) : inbox'[n] = inbox[n]
    BY <1>3, <2>6
  <2>9. WillHave(d, Len(inbox), t)'
    <3> DEFINE l == Len(inbox)
    <3>1. l + 1 \in 1..(l + 1) /\ \A n \in (l + 1) + 1..(l + 1) : FALSE
      BY <1>1
    <3>2. Changes(inbox'[l + 1], d) /\ inbox'[l + 1].text = t /\ Len(inbox') = l + 1
      BY <2>7, <2>8
    <3> QED
      BY <3>1, <3>2 DEF WillHave, Changes
  <2>10. ASSUME NEW o \in Documents PROVE WillHave(o, Len(inbox), text[o])'
    <3>1. PICK x : x = text'[o]
      OBVIOUS
    <3>2. WillHave(o, Len(inbox), x)'
      <4>1. CASE o = d
        BY <2>4, <2>9, <3>1, <4>1
      <4>2. CASE o # d
        BY <1>1, <2>4, <2>7, <2>8, <3>1, <4>2 DEF InStep
      <4> QED
        BY <4>1, <4>2
    <3> QED
      BY <2>8, <3>1, <3>2 DEF WillHave
  <2>11. ASSUME NEW k \in 1..Len(inbox'), inbox'[k].kind = "formatting",
                NEW o, NEW x, o = inbox'[k].document, x = inbox'[k].text
         PROVE  WillHave(o, k - 1, x)'
    <3>1. k \in 1..Len(inbox) /\ k - 1 \in 0..Len(inbox)
      BY <1>1, <2>7, <2>8, <2>11
    <3> QED
      BY <1>1, <2>8, <2>11, <3>1 DEF InStep
  <2> QED
    BY <2>10, <2>11 DEF InStep, WillHave, Changes
<1>10. ASSUME inbox # <<>>, Taken, UNCHANGED text,
              \/ Head(inbox).kind # "didChange" /\ cache' = cache
              \/ /\ Head(inbox).kind = "didChange"
                 /\ cache' = [cache EXCEPT ![Head(inbox).document] = Head(inbox).text]
       PROVE  InStep'
  <2>1. /\ inbox' = Tail(inbox) /\ Len(inbox') = Len(inbox) - 1 /\ Len(inbox) \in 1..Len(inbox)
        /\ inbox' \in Seq(Incoming)
        /\ \A n \in 1..Len(inbox') : inbox'[n] = inbox[n + 1] /\ n + 1 \in 1..Len(inbox) /\ inbox'[n] \in Incoming
    BY <1>1, <1>10, HeadTailProperties, ElementOfSeq DEF Taken, TypeOK
  <2>2. ASSUME NEW d \in Documents PROVE WillHave(d, Len(inbox), text[d])'
    <3>1. PICK t : t = text[d]
      OBVIOUS
    <3>2. PICK k \in 1..Len(inbox) : k = Len(inbox)
      BY <2>1
    <3>3. WillHave(d, k, t)
      BY <1>1, <3>1, <3>2 DEF InStep
    <3>4. WillHave(d, k - 1, t)'
      BY <1>1, <1>10, <2>1, <3>3, HandlingKeepsPace
    <3> QED
      BY <1>10, <2>1, <3>1, <3>2, <3>4 DEF WillHave
  <2>3. ASSUME NEW n \in 1..Len(inbox'), inbox'[n].kind = "formatting",
               NEW o, NEW t, o = inbox'[n].document, t = inbox'[n].text
        PROVE  WillHave(o, n - 1, t)'
    <3>1. PICK k \in 1..Len(inbox) : k = n + 1 /\ inbox[k] = inbox'[n]
      BY <2>1
    <3>2. PICK d \in Documents : d = o
      BY <2>1, <2>3 DEF Incoming
    <3>3. WillHave(d, k - 1, t) /\ k - 1 = n /\ n \in 1..Len(inbox)
      BY <1>1, <2>1, <2>3, <3>1, <3>2 DEF InStep
    <3>4. WillHave(d, n - 1, t)'
      BY <1>1, <1>10, <2>1, <3>3, HandlingKeepsPace
    <3> QED
      BY <3>2, <3>4
  <2> QED
    BY <2>2, <2>3 DEF InStep, WillHave, Changes
<1>11. CASE OnInitialize \/ DidChangeConfiguration \/ DidChange \/ Formatting \/ Unsupported
  BY <1>10, <1>11
     DEF OnInitialize, DidChangeConfiguration, DidChange, Formatting, Unsupported, Begins, Request
<1>12. CASE Receives \/ Wire \/ NotWired \/ Exit \/ (\E k \in Starts : Goroutine(k)) \/ UNCHANGED vars
  BY <1>2, <1>12
     DEF Receives, Wire, NotWired, Exit, Goroutine, ReadText, Analyse, CheckLength, CheckOptimized,
         Publish, NilField, vars
<1> QED
  BY <1>5, <1>6, <1>7, <1>8, <1>9, <1>11, <1>12 DEF Next, Editor, Handler

(* A reply that is sent fits, those that were sent before still do.        *)
LEMMA StepFits == Inv /\ [Next]_vars => EditsFitText'
<1> SUFFICES ASSUME Inv, [Next]_vars PROVE EditsFitText'
  OBVIOUS
<1> USE DEF serverVars, editorVars
<1>1. TypeOK /\ InStep /\ EditsFitText
  BY DEF Inv
<1>2. ASSUME UNCHANGED outbox PROVE EditsFitText'
  BY <1>1, <1>2 DEF EditsFitText
<1>3. ASSUME NEW m, Replies(m), m.kind = "formatted" => m.of = m.asked PROVE EditsFitText'
  <2>1. outbox' = Append(outbox, m) /\ outbox \in Seq(Outgoing) /\ Len(outbox) \in Nat
    BY <1>1, <1>3, LenProperties DEF Replies, TypeOK
  <2>2. /\ DOMAIN outbox' = 1..(Len(outbox) + 1) /\ DOMAIN outbox = 1..Len(outbox)
        /\ outbox'[Len(outbox) + 1] = m
        /\ \A k \in 1..Len(outbox) : outbox'[k] = outbox[k]
    BY <2>1
  <2> QED
    BY <1>1, <1>3, <2>1, <2>2 DEF EditsFitText
<1>4. CASE OnInitialize \/ Unsupported
  BY <1>3, <1>4 DEF OnInitialize, Unsupported
<1>5. CASE Formatting
  <2>1. Head(inbox) = inbox[1] /\ 1 \in 1..Len(inbox) /\ Head(inbox).kind = "formatting"
    BY <1>1, <1>5, LenProperties, EmptySeq DEF Formatting, Begins, TypeOK
  <2>2. cache[Head(inbox).document] = Head(inbox).text
    BY <1>1, <2>1 DEF InStep, WillHave
  <2> QED
    BY <1>3, <1>5, <2>2 DEF Formatting, Request
<1>6. CASE \E k \in Starts : Publish(k)
  BY <1>3, <1>6 DEF Publish
<1>7. CASE Receives
  <2>1. /\ outbox' = Tail(outbox) /\ outbox # <<>> /\ outbox \in Seq(Outgoing)
    BY <1>1, <1>7 DEF Receives, TypeOK
  <2>2. \A k \in DOMAIN outbox' : k + 1 \in DOMAIN outbox /\ outbox'[k] = outbox[k + 1]
    BY <2>1, HeadTailProperties, LenProperties
  <2> QED
    BY <1>1, <2>2 DEF EditsFitText
<1> QED
  BY <1>2, <1>4, <1>5, <1>6, <1>7
     DEF Next, Editor, Initialize, Configure, Edit, AskFormatting, AskOther, Wire, Handler,
         DidChangeConfiguration, DidChange, NotWired, Exit, Goroutine, ReadText, Analyse, CheckLength,
         CheckOptimized, NilField, vars

(* Formatting edits fit the text they were asked for, for any number of    *)
(* documents, changes and requests under way.                              *)
THEOREM FormattingFits == Spec => []EditsFitText
<1>1. Init => Inv
  <2> SUFFICES ASSUME Init PROVE Inv
    OBVIOUS
  <2>1. TypeOK
    BY DEF Init, TypeOK, NoText, Texts
  <2>2. inbox = <<>> /\ outbox = <<>> /\ Len(inbox) = 0 /\ \A d \in Documents : cache[d] = text[d]
    BY DEF Init
  <2>3. InStep /\ EditsFitText
    BY <2>2 DEF InStep, WillHave, EditsFitText
  <2> QED
    BY <2>1, <2>3 DEF Inv
<1>2. Inv /\ [Next]_vars => Inv'
  BY StepType, StepInStep, StepFits DEF Inv
<1>3. Inv => EditsFitText
  BY DEF Inv
<1> QED
  BY <1>1, <1>2, <1>3, PTL DEF Spec
==============================================================================
