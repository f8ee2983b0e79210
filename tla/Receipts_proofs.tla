---------------------------- MODULE Receipts_proofs ----------------------------
(***************************************************************************)
(* What ReceiptTemplates and Receipts promise for any number of managers,  *)
(* templates, scopes, clients, documents and payments.  The receipts use   *)
(* documents and templates through their own steps only: the specification *)
(* of each is implemented, and its theorems carry over.                    *)
(***************************************************************************)
EXTENDS Receipts, DocumentStorage_proofs, TLAPS

\* An upload works on an id of its own, which has its object and no row yet.
UploadSound ==
    \A c \in Managers :
        act[c].step = "uploaded" =>
            /\ act[c].id \in Templates /\ ~HasRow(act[c].id) /\ act[c].id \in html
            /\ \A d \in Managers \ {c} : act[d].id # act[c].id

\* What an activation read is still so, unless another one in the scope came between.
LoadSound ==
    \A c \in Managers :
        act[c].step \in {"loaded", "activating"} =>
            /\ act[c].id \in Templates /\ HasRow(act[c].id)
            /\ template[act[c].id].scope = act[c].scope
            /\ act[c].seen = "active" /\ ~act[c].raced => template[act[c].id].status = "active"

FindSound ==
    \A c \in Managers :
        act[c].step = "activating" =>
            /\ act[c].current # NoTemplate =>
                   HasRow(act[c].current) /\ template[act[c].current].scope = act[c].scope
            /\ act[c].seen = "active" /\ ~act[c].raced => act[c].current = act[c].id

RowsReadable == \A t \in Templates : HasRow(t) /\ t \notin orphaned => t \in html

\* The partial unique index.
OneActivePerScope == \A scope \in Scopes : \A t, u \in ActiveIn(scope) : t = u

TemplatesSound ==
    TemplateTypeOK /\ OneActivePerScope /\ UploadSound /\ LoadSound /\ FindSound /\ RowsReadable

-----------------------------------------------------------------------------

\* get_active answers the active template of the scope if there is one.
LEMMA GetActive ==
    ASSUME NEW scope
    PROVE  /\ get_active(scope) \in Templates \cup {NoTemplate}
           /\ get_active(scope) # NoTemplate => get_active(scope) \in ActiveIn(scope)
           /\ ActiveIn(scope) # {} => get_active(scope) \in ActiveIn(scope)
<1>1. CASE ActiveIn(scope) = {}
    BY <1>1, Zenon DEF get_active
<1>2. CASE ActiveIn(scope) # {}
    <2>1. (CHOOSE t \in ActiveIn(scope) : TRUE) \in ActiveIn(scope)
        BY <1>2, Zenon
    <2>2. get_active(scope) \in ActiveIn(scope)
        BY <1>2, <2>1, Zenon DEF get_active
    <2>. QED
        BY <2>2, Zenon DEF ActiveIn
<1>. QED
    BY <1>1, <1>2

LEMMA NoRequestTyped == NoRequest \in TemplateSession
BY ScopeAssumption DEF NoRequest, TemplateSession

\* The type of the tables and requests is kept by every step.
LEMMA TemplateTypeNext == TemplatesSound /\ [TemplateNext]_templateVars => TemplateTypeOK'
<1>. SUFFICES ASSUME TemplateTypeOK, UploadSound, [TemplateNext]_templateVars PROVE TemplateTypeOK'
    BY DEF TemplatesSound
<1>. USE DEF TemplateTypeOK, TemplateRow
<1>1. CASE UNCHANGED templateVars
    BY <1>1 DEF templateVars
<1>2. ASSUME NEW c \in Managers, NEW t \in Templates, NEW scope \in Scopes, UploadTemplate(c, t, scope)
      PROVE  TemplateTypeOK'
    BY <1>2 DEF UploadTemplate, TemplateSession
<1>3. ASSUME NEW c \in Managers, NEW t \in Templates, LoadTemplate(c, t)
      PROVE  TemplateTypeOK'
    <2>. DEFINE s == [act[c] EXCEPT !.step = "loaded", !.id = t, !.seen = template[t].status,
                                    !.scope = template[t].scope]
    <2>1. template[t].status \in {"none", "inactive", "active"} /\ template[t].scope \in Scopes
        OBVIOUS
    <2>2. s \in TemplateSession
        BY <2>1 DEF TemplateSession
    <2>3. act' = [act EXCEPT ![c] = s]
        BY <1>3, Zenon DEF LoadTemplate
    <2>. QED
        BY <1>3, <2>2, <2>3 DEF LoadTemplate
<1>4. ASSUME NEW c \in Managers, act[c].step = "uploaded"
      PROVE  act[c].id \in Templates /\ act[c].scope \in Scopes
    BY <1>4 DEF UploadSound, TemplateSession
<1>5. ASSUME NEW c \in Managers, CommitTemplate(c) \/ TemplateLost(c)
      PROVE  TemplateTypeOK'
    BY <1>4, <1>5, NoRequestTyped DEF CommitTemplate, TemplateLost, EndRequest
<1>6. ASSUME NEW c \in Managers, TemplateFails(c)
      PROVE  TemplateTypeOK'
    BY <1>4, <1>6, NoRequestTyped DEF TemplateFails, EndRequest
<1>7. ASSUME NEW c \in Managers, FindActive(c)
      PROVE  TemplateTypeOK'
    BY <1>7, GetActive DEF FindActive, TemplateSession
<1>8. ASSUME NEW c \in Managers, CommitActivation(c)
      PROVE  TemplateTypeOK'
    <2>1. template' \in [Templates -> TemplateRow]
        BY <1>8 DEF CommitActivation, Switched
    <2>2. act' \in [Managers -> TemplateSession]
        BY <1>8, NoRequestTyped DEF CommitActivation, TemplateSession
    <2>. QED
        BY <1>8, <2>1, <2>2 DEF CommitActivation
<1>9. ASSUME NEW c \in Managers, ActivationFails(c)
      PROVE  TemplateTypeOK'
    BY <1>9, NoRequestTyped DEF ActivationFails, EndRequest
<1>10. ASSUME NEW c \in Managers, TemplateCrash(c)
       PROVE  TemplateTypeOK'
    BY <1>4, <1>10, NoRequestTyped DEF TemplateCrash, EndRequest
<1>. QED
    BY <1>1, <1>2, <1>3, <1>5, <1>6, <1>7, <1>8, <1>9, <1>10 DEF TemplateNext, TemplateStep

-----------------------------------------------------------------------------

\* The parts of the invariant beside the type and the index.
Sound == UploadSound /\ LoadSound /\ FindSound /\ RowsReadable

\* A request that ends and leaves the tables alone.
LEMMA TemplateEndKeeps ==
    ASSUME TemplatesSound, NEW c \in Managers, EndRequest(c), UNCHANGED <<template, html>>,
           orphaned \subseteq orphaned'
    PROVE  OneActivePerScope' /\ Sound'
<1>1. \A d \in Managers : act'[d] = IF d = c THEN NoRequest ELSE act[d]
    BY DEF TemplatesSound, TemplateTypeOK, EndRequest
<1>2. NoRequest.step = "idle" /\ NoRequest.id \notin Templates
    BY NoTemplateAssumption DEF NoRequest
<1>3. \A t : HasRow(t)' <=> HasRow(t)
    BY DEF HasRow
<1>4. OneActivePerScope'
    BY DEF TemplatesSound, OneActivePerScope, ActiveIn, IsActive
<1>5. UploadSound'
    BY <1>1, <1>2, <1>3 DEF TemplatesSound, UploadSound
<1>6. LoadSound'
    BY <1>1, <1>2, <1>3 DEF TemplatesSound, LoadSound
<1>7. FindSound'
    BY <1>1, <1>2, <1>3 DEF TemplatesSound, FindSound
<1>8. RowsReadable'
    BY <1>3 DEF TemplatesSound, RowsReadable
<1>. QED
    BY <1>4, <1>5, <1>6, <1>7, <1>8 DEF Sound

LEMMA UploadKeeps ==
    ASSUME TemplatesSound, NEW c \in Managers, NEW t \in Templates, NEW scope \in Scopes,
           UploadTemplate(c, t, scope)
    PROVE  OneActivePerScope' /\ Sound'
<1>. USE DEF UploadTemplate
<1>1. \A d \in Managers :
          act'[d] = IF d = c THEN [act[c] EXCEPT !.step = "uploaded", !.id = t, !.scope = scope]
                    ELSE act[d]
    BY DEF TemplatesSound, TemplateTypeOK
<1>2. act'[c].step = "uploaded" /\ act'[c].id = t
    BY <1>1 DEF TemplatesSound, TemplateTypeOK, TemplateSession
<1>3. \A x : HasRow(x)' <=> HasRow(x)
    BY DEF HasRow
<1>4. OneActivePerScope'
    BY DEF TemplatesSound, OneActivePerScope, ActiveIn, IsActive
<1>5. UploadSound'
    BY <1>1, <1>2, <1>3 DEF TemplatesSound, UploadSound
<1>6. LoadSound'
    BY <1>1, <1>2, <1>3 DEF TemplatesSound, LoadSound
<1>7. FindSound'
    BY <1>1, <1>2, <1>3 DEF TemplatesSound, FindSound
<1>8. RowsReadable'
    BY <1>3 DEF TemplatesSound, RowsReadable
<1>. QED
    BY <1>4, <1>5, <1>6, <1>7, <1>8 DEF Sound

\* The row of an upload appears, inactive; lost says that its object goes.
LEMMA InsertKeeps ==
    ASSUME TemplatesSound, NEW c \in Managers, CommitTemplate(c) \/ TemplateLost(c)
    PROVE  OneActivePerScope' /\ Sound'
<1>. DEFINE t == act[c].id
<1>. USE DEF CommitTemplate, TemplateLost
<1>1. /\ act[c].step = "uploaded" /\ t \in Templates /\ ~HasRow(t) /\ t \in html
      /\ \A d \in Managers \ {c} : act[d].id # t
    BY DEF TemplatesSound, UploadSound
<1>2. \A d \in Managers : act'[d] = IF d = c THEN NoRequest ELSE act[d]
    BY DEF TemplatesSound, TemplateTypeOK, EndRequest
<1>3. NoRequest.step = "idle" /\ NoRequest.id \notin Templates
    BY NoTemplateAssumption DEF NoRequest
<1>4. template' = [template EXCEPT ![t] = [status |-> "inactive", scope |-> act[c].scope]]
    OBVIOUS
<1>5. /\ template'[t].status = "inactive"
      /\ \A x \in Templates \ {t} : template'[x] = template[x]
    BY <1>1, <1>4 DEF TemplatesSound, TemplateTypeOK
<1>6. \A x \in Templates : HasRow(x)' <=> HasRow(x) \/ x = t
    BY <1>1, <1>5 DEF HasRow
<1>7. \A scope \in Scopes : ActiveIn(scope)' = ActiveIn(scope)
    BY <1>1, <1>5 DEF ActiveIn, IsActive, HasRow
<1>8. OneActivePerScope'
    BY <1>7 DEF TemplatesSound, OneActivePerScope
<1>9. html' = html \/ (html' = html \ {t} /\ t \in orphaned')
    OBVIOUS
<1>10. orphaned \subseteq orphaned'
    OBVIOUS
<1>11. UploadSound'
    BY <1>1, <1>2, <1>3, <1>6, <1>9 DEF TemplatesSound, UploadSound
<1>12. LoadSound'
    BY <1>1, <1>2, <1>3, <1>5, <1>6 DEF TemplatesSound, LoadSound
<1>13. FindSound'
    <2>1. ASSUME NEW d \in Managers, act'[d].step = "activating" PROVE d # c /\ act'[d] = act[d]
        BY <1>2, <1>3, <2>1
    <2>2. ASSUME NEW d \in Managers, act[d].step = "activating", act[d].current # NoTemplate
          PROVE  act[d].current \in Templates \ {t}
        BY <1>1, <2>2 DEF TemplatesSound, FindSound, TemplateTypeOK, TemplateSession
    <2>. QED
        BY <1>5, <1>6, <2>1, <2>2 DEF TemplatesSound, FindSound
<1>14. RowsReadable'
    BY <1>1, <1>6, <1>9, <1>10 DEF TemplatesSound, RowsReadable
<1>. QED
    BY <1>8, <1>11, <1>12, <1>13, <1>14 DEF Sound

LEMMA FailKeeps ==
    ASSUME TemplatesSound, NEW c \in Managers, TemplateFails(c)
    PROVE  OneActivePerScope' /\ Sound'
<1>. DEFINE t == act[c].id
<1>. USE DEF TemplateFails
<1>1. /\ act[c].step = "uploaded" /\ t \in Templates /\ ~HasRow(t)
      /\ \A d \in Managers \ {c} : act[d].id # t
    BY DEF TemplatesSound, UploadSound
<1>2. \A d \in Managers : act'[d] = IF d = c THEN NoRequest ELSE act[d]
    BY DEF TemplatesSound, TemplateTypeOK, EndRequest
<1>3. NoRequest.step = "idle" /\ NoRequest.id \notin Templates
    BY NoTemplateAssumption DEF NoRequest
<1>4. \A x : HasRow(x)' <=> HasRow(x)
    BY DEF HasRow
<1>5. html \ {t} \subseteq html' /\ orphaned \subseteq orphaned'
    OBVIOUS
<1>6. OneActivePerScope'
    BY DEF TemplatesSound, OneActivePerScope, ActiveIn, IsActive
<1>7. UploadSound'
    BY <1>1, <1>2, <1>3, <1>4, <1>5 DEF TemplatesSound, UploadSound
<1>8. LoadSound'
    BY <1>2, <1>3, <1>4 DEF TemplatesSound, LoadSound
<1>9. FindSound'
    BY <1>2, <1>3, <1>4 DEF TemplatesSound, FindSound
<1>10. RowsReadable'
    BY <1>1, <1>4, <1>5 DEF TemplatesSound, RowsReadable
<1>. QED
    BY <1>6, <1>7, <1>8, <1>9, <1>10 DEF Sound

LEMMA LoadKeeps ==
    ASSUME TemplatesSound, NEW c \in Managers, NEW t \in Templates, LoadTemplate(c, t)
    PROVE  OneActivePerScope' /\ Sound'
<1>. USE DEF LoadTemplate
<1>1. \A d \in Managers \ {c} : act'[d] = act[d]
    BY DEF TemplatesSound, TemplateTypeOK
<1>2. /\ act'[c].step = "loaded" /\ act'[c].id = t
      /\ act'[c].seen = template[t].status /\ act'[c].scope = template[t].scope
    BY DEF TemplatesSound, TemplateTypeOK, TemplateSession
<1>3. \A x : HasRow(x)' <=> HasRow(x)
    BY DEF HasRow
<1>4. OneActivePerScope'
    BY DEF TemplatesSound, OneActivePerScope, ActiveIn, IsActive
<1>5. UploadSound'
    BY <1>1, <1>2, <1>3 DEF TemplatesSound, UploadSound
<1>6. LoadSound'
    BY <1>1, <1>2, <1>3 DEF TemplatesSound, LoadSound
<1>7. FindSound'
    BY <1>1, <1>2, <1>3 DEF TemplatesSound, FindSound
<1>8. RowsReadable'
    BY <1>3 DEF TemplatesSound, RowsReadable
<1>. QED
    BY <1>4, <1>5, <1>6, <1>7, <1>8 DEF Sound

LEMMA FindKeeps ==
    ASSUME TemplatesSound, NEW c \in Managers, FindActive(c)
    PROVE  OneActivePerScope' /\ Sound'
<1>. DEFINE found == get_active(act[c].scope)
<1>. USE DEF FindActive
<1>1. \A d \in Managers \ {c} : act'[d] = act[d]
    BY DEF TemplatesSound, TemplateTypeOK
<1>2. /\ act'[c].step = "activating" /\ act'[c].current = found
      /\ act'[c].id = act[c].id /\ act'[c].seen = act[c].seen
      /\ act'[c].scope = act[c].scope /\ act'[c].raced = act[c].raced
    BY DEF TemplatesSound, TemplateTypeOK, TemplateSession
<1>3. \A x : HasRow(x)' <=> HasRow(x)
    BY DEF HasRow
<1>4. OneActivePerScope'
    BY DEF TemplatesSound, OneActivePerScope, ActiveIn, IsActive
<1>5. UploadSound'
    BY <1>1, <1>2, <1>3 DEF TemplatesSound, UploadSound
<1>6. LoadSound'
    BY <1>1, <1>2, <1>3 DEF TemplatesSound, LoadSound
<1>7. found # NoTemplate => HasRow(found) /\ template[found].scope = act[c].scope
    BY GetActive DEF ActiveIn, IsActive, HasRow
<1>8. ASSUME act[c].seen = "active", ~act[c].raced PROVE found = act[c].id
    <2>1. act[c].id \in ActiveIn(act[c].scope) /\ act[c].scope \in Scopes
        BY <1>8 DEF TemplatesSound, LoadSound, ActiveIn, IsActive, TemplateTypeOK, TemplateSession
    <2>2. found \in ActiveIn(act[c].scope)
        BY <2>1, GetActive
    <2>. QED
        BY <2>1, <2>2 DEF TemplatesSound, OneActivePerScope
<1>9. FindSound'
    BY <1>1, <1>2, <1>3, <1>7, <1>8 DEF TemplatesSound, FindSound
<1>10. RowsReadable'
    BY <1>3 DEF TemplatesSound, RowsReadable
<1>. QED
    BY <1>4, <1>5, <1>6, <1>9, <1>10 DEF Sound

\* What an activation writes: the row it loaded and the one it found, in their scope.
LEMMA SwitchedRows ==
    ASSUME TemplatesSound, NEW c \in Managers, CommitActivation(c)
    PROVE  \A t \in Templates :
             /\ template[t].status # "none" <=> template'[t].status # "none"
             /\ template'[t].scope = template[t].scope
             /\ template[t].scope # act[c].scope => template'[t] = template[t]
<1>. DEFINE s == act[c]
<1>. SUFFICES ASSUME NEW t \in Templates
              PROVE  /\ template[t].status # "none" <=> template'[t].status # "none"
                     /\ template'[t].scope = template[t].scope
                     /\ template[t].scope # s.scope => template'[t] = template[t]
    OBVIOUS
<1>1. s.step = "activating" /\ s \in TemplateSession
    BY DEF TemplatesSound, TemplateTypeOK, CommitActivation
<1>2. s.id \in Templates /\ HasRow(s.id) /\ template[s.id].scope = s.scope
    BY <1>1 DEF TemplatesSound, LoadSound
<1>3. s.current # NoTemplate => HasRow(s.current) /\ template[s.current].scope = s.scope
    BY <1>1 DEF TemplatesSound, FindSound
<1>4. template'[t] =
          [template[t] EXCEPT !.status = IF t = s.id /\ s.seen # "active" THEN "active"
                                         ELSE IF t = s.current /\ t # s.id THEN "inactive"
                                         ELSE template[t].status]
    BY DEF CommitActivation, Switched
<1>5. template[t] \in TemplateRow
    BY DEF TemplatesSound, TemplateTypeOK
<1>6. CASE t # s.id /\ t # s.current
    BY <1>4, <1>5, <1>6 DEF HasRow, TemplateRow
<1>7. CASE t = s.id
    BY <1>2, <1>4, <1>5, <1>7 DEF HasRow, TemplateRow
<1>8. CASE t = s.current /\ t # s.id
    BY <1>3, <1>4, <1>5, <1>8, NoTemplateAssumption DEF HasRow, TemplateRow
<1>. QED
    BY <1>6, <1>7, <1>8

LEMMA ActivationKeeps ==
    ASSUME TemplatesSound, NEW c \in Managers, CommitActivation(c)
    PROVE  OneActivePerScope' /\ Sound'
<1>1. OneActivePerScope'
    BY DEF CommitActivation, ScopeIndexAdmits, OneActivePerScope, ActiveIn
<1>2. act'[c] = NoRequest
    BY DEF CommitActivation
<1>3. ASSUME NEW d \in Managers \ {c}
      PROVE  /\ act'[d].step = act[d].step /\ act'[d].id = act[d].id /\ act'[d].scope = act[d].scope
             /\ act'[d].seen = act[d].seen /\ act'[d].current = act[d].current
             /\ (act'[d].raced = FALSE) => (act[d].raced = FALSE)
             /\ act[d].step \in {"loaded", "activating"} /\ act[d].scope = act[c].scope
                  => act'[d].raced = TRUE
    <2>1. act'[d] = IF act[d].step \in {"loaded", "activating"} /\ act[d].scope = act[c].scope
                    THEN [act[d] EXCEPT !.raced = TRUE] ELSE act[d]
        BY <1>3 DEF CommitActivation
    <2>2. act[d] \in TemplateSession
        BY <1>3 DEF TemplatesSound, TemplateTypeOK
    <2>3. CASE act[d].step \in {"loaded", "activating"} /\ act[d].scope = act[c].scope
        BY <2>1, <2>2, <2>3 DEF TemplateSession
    <2>4. CASE ~(act[d].step \in {"loaded", "activating"} /\ act[d].scope = act[c].scope)
        BY <2>1, <2>4
    <2>. QED
        BY <2>3, <2>4
<1>4. html' = html /\ orphaned' = orphaned
    BY DEF CommitActivation
<1>5. UploadSound'
    <2>. SUFFICES ASSUME NEW d \in Managers, act'[d].step = "uploaded"
                  PROVE  /\ act'[d].id \in Templates /\ ~(template'[act'[d].id].status # "none")
                         /\ act'[d].id \in html'
                         /\ \A e \in Managers \ {d} : act'[e].id # act'[d].id
        BY DEF UploadSound, HasRow
    <2>1. d # c
        BY <1>2 DEF NoRequest
    <2>2. /\ act'[d].id = act[d].id /\ act[d].id \in Templates /\ act[d].id \in html
          /\ ~(template[act[d].id].status # "none")
          /\ \A e \in Managers \ {d} : act[e].id # act[d].id
        BY <1>3, <2>1 DEF TemplatesSound, UploadSound, HasRow
    <2>3. ~(template'[act[d].id].status # "none")
        BY <2>2, SwitchedRows
    <2>4. \A e \in Managers \ {d} : act'[e].id = act[e].id \/ act'[e].id = NoTemplate
        <3>1. act'[c].id = NoTemplate
            BY <1>2 DEF NoRequest
        <3>2. \A e \in Managers \ {c} : act'[e].id = act[e].id
            BY <1>3
        <3>. QED
            BY <3>1, <3>2
    <2>. QED
        BY <1>4, <2>2, <2>3, <2>4, NoTemplateAssumption
<1>6. LoadSound'
    <2>. SUFFICES ASSUME NEW d \in Managers, act'[d].step \in {"loaded", "activating"}
                  PROVE  /\ act'[d].id \in Templates /\ template'[act'[d].id].status # "none"
                         /\ template'[act'[d].id].scope = act'[d].scope
                         /\ act'[d].seen = "active" /\ ~act'[d].raced
                              => template'[act'[d].id].status = "active"
        BY DEF LoadSound, HasRow
    <2>1. d # c
        BY <1>2 DEF NoRequest
    <2>2. /\ act'[d].id = act[d].id /\ act'[d].scope = act[d].scope /\ act'[d].seen = act[d].seen
          /\ act[d].step \in {"loaded", "activating"}
        BY <1>3, <2>1
    <2>3. /\ act[d].id \in Templates /\ template[act[d].id].status # "none"
          /\ template[act[d].id].scope = act[d].scope
          /\ act[d].seen = "active" /\ ~act[d].raced => template[act[d].id].status = "active"
        BY <2>2, Zenon DEF TemplatesSound, LoadSound, HasRow
    <2>4. template'[act[d].id].status # "none" /\ template'[act[d].id].scope = act[d].scope
        BY <2>3, SwitchedRows
    <2>5. ASSUME act'[d].seen = "active", ~act'[d].raced
          PROVE  template'[act'[d].id].status = "active"
        <3>1. act'[d].raced = FALSE /\ act[d].raced = FALSE
            <4>1. act'[d].raced \in BOOLEAN
                BY TemplateTypeNext DEF TemplateTypeOK, TemplateSession, TemplateNext, TemplateStep
            <4>. QED
                BY <1>3, <2>1, <2>5, <4>1
        <3>2. act[d].scope # act[c].scope
            BY <1>3, <2>1, <2>2, <3>1
        <3>3. template'[act[d].id] = template[act[d].id]
            BY <2>3, <3>2, SwitchedRows
        <3>. QED
            BY <2>2, <2>3, <2>5, <3>1, <3>3
    <2>. QED
        BY <2>2, <2>3, <2>4, <2>5
<1>7. FindSound'
    <2>. SUFFICES ASSUME NEW d \in Managers, act'[d].step = "activating"
                  PROVE  /\ act'[d].current # NoTemplate =>
                              /\ template'[act'[d].current].status # "none"
                              /\ template'[act'[d].current].scope = act'[d].scope
                         /\ act'[d].seen = "active" /\ ~act'[d].raced => act'[d].current = act'[d].id
        BY DEF FindSound, HasRow
    <2>1. d # c
        BY <1>2 DEF NoRequest
    <2>2. /\ act[d].step = "activating" /\ act'[d].current = act[d].current
          /\ act'[d].id = act[d].id /\ act'[d].scope = act[d].scope /\ act'[d].seen = act[d].seen
        BY <1>3, <2>1
    <2>3. act[d].current \in Templates \cup {NoTemplate}
        BY DEF TemplatesSound, TemplateTypeOK, TemplateSession
    <2>4. /\ act[d].current # NoTemplate =>
               template[act[d].current].status # "none" /\ template[act[d].current].scope = act[d].scope
          /\ act[d].seen = "active" /\ ~act[d].raced => act[d].current = act[d].id
        BY <2>2, Zenon DEF TemplatesSound, FindSound, HasRow
    <2>5. act[d].current # NoTemplate =>
               template'[act[d].current].status # "none" /\ template'[act[d].current].scope = act[d].scope
        BY <2>3, <2>4, SwitchedRows
    <2>6. ASSUME act'[d].seen = "active", ~act'[d].raced
          PROVE  act'[d].current = act'[d].id
        <3>1. act'[d].raced \in BOOLEAN
            BY TemplateTypeNext DEF TemplateTypeOK, TemplateSession, TemplateNext, TemplateStep
        <3>2. act[d].raced = FALSE
            BY <1>3, <2>1, <2>6, <3>1
        <3>. QED
            BY <2>2, <2>4, <2>6, <3>2
    <2>. QED
        BY <2>2, <2>5, <2>6
<1>8. RowsReadable'
    BY <1>4, SwitchedRows DEF TemplatesSound, RowsReadable, HasRow
<1>. QED
    BY <1>1, <1>5, <1>6, <1>7, <1>8 DEF Sound

-----------------------------------------------------------------------------

LEMMA TemplatesInit == TemplateInit => TemplatesSound
<1>. SUFFICES ASSUME TemplateInit PROVE TemplatesSound
    OBVIOUS
<1>1. TemplateTypeOK
    BY NoRequestTyped, ScopeAssumption DEF TemplateInit, TemplateTypeOK, TemplateRow, NoTemplateRow
<1>2. \A t \in Templates : template[t].status = "none"
    BY DEF TemplateInit, NoTemplateRow
<1>3. \A c \in Managers : act[c].step = "idle"
    BY DEF TemplateInit, NoRequest
<1>. QED
    BY <1>1, <1>2, <1>3
    DEF TemplatesSound, OneActivePerScope, ActiveIn, IsActive, UploadSound, LoadSound, FindSound,
        RowsReadable, HasRow

\* The invariant is inductive.
LEMMA TemplatesNext == TemplatesSound /\ [TemplateNext]_templateVars => TemplatesSound'
<1>. SUFFICES ASSUME TemplatesSound, [TemplateNext]_templateVars PROVE TemplatesSound'
    OBVIOUS
<1>1. TemplateTypeOK'
    BY TemplateTypeNext
<1>2. OneActivePerScope' /\ Sound'
    <2>1. CASE UNCHANGED templateVars
        BY <2>1 DEF templateVars, TemplatesSound, Sound, OneActivePerScope, ActiveIn, IsActive, UploadSound,
                    LoadSound, FindSound, RowsReadable, HasRow
    <2>2. ASSUME NEW c \in Managers, ActivationFails(c) \/ TemplateCrash(c)
          PROVE  OneActivePerScope' /\ Sound'
        <3>1. EndRequest(c) /\ UNCHANGED <<template, html>> /\ orphaned \subseteq orphaned'
            BY <2>2 DEF ActivationFails, TemplateCrash
        <3>. QED
            BY <3>1, TemplateEndKeeps
    <2>. QED
        BY <2>1, <2>2, UploadKeeps, InsertKeeps, FailKeeps, LoadKeeps, FindKeeps, ActivationKeeps
        DEF TemplateNext, TemplateStep
<1>. QED
    BY <1>1, <1>2 DEF TemplatesSound, Sound

LEMMA TemplatesAlwaysSound == TemplateSpec => []TemplatesSound
BY TemplatesInit, TemplatesNext, PTL DEF TemplateSpec

\* The template tables and the requests of ReceiptTemplateService keep their types.
THEOREM TemplatesTyped == TemplateSpec => []TemplateTypeOK
<1>1. TemplatesSound => TemplateTypeOK
    BY DEF TemplatesSound
<1>. QED
    BY <1>1, TemplatesAlwaysSound, PTL

\* What resolve_active_template_html asks the object store for is there, unless the
\* upload of the template was cut off or its commit lost.
THEOREM ActiveTemplatesReadable == TemplateSpec => []ActiveTemplateReadable
<1>1. TemplatesSound => ActiveTemplateReadable
    BY DEF TemplatesSound, RowsReadable, ActiveTemplateReadable, HasRow
<1>. QED
    BY <1>1, TemplatesAlwaysSound, PTL

\* A step that is not a commit of an activation takes no template out of force.
LEMMA OthersKeepActive ==
    ASSUME TemplatesSound, [TemplateNext]_templateVars, ~(\E c \in Managers : CommitActivation(c))
    PROVE  \A scope \in Scopes : ActiveIn(scope) \subseteq ActiveIn(scope)'
<1>1. CASE UNCHANGED template
    BY <1>1 DEF ActiveIn, IsActive
<1>2. ASSUME NEW c \in Managers, CommitTemplate(c) \/ TemplateLost(c)
      PROVE  \A scope \in Scopes : ActiveIn(scope) \subseteq ActiveIn(scope)'
    <2>1. act[c].id \in Templates /\ ~HasRow(act[c].id)
        BY <1>2 DEF TemplatesSound, UploadSound, CommitTemplate, TemplateLost
    <2>2. \A t \in Templates \ {act[c].id} : template'[t] = template[t]
        BY <1>2, <2>1 DEF CommitTemplate, TemplateLost, TemplatesSound, TemplateTypeOK
    <2>. QED
        BY <2>1, <2>2 DEF ActiveIn, IsActive, HasRow
<1>. QED
    BY <1>1, <1>2 DEF TemplateNext, TemplateStep, templateVars, UploadTemplate, TemplateFails,
                      LoadTemplate, FindActive, ActivationFails, TemplateCrash

\* activate_template replaces the template of a scope and never just removes it, unless
\* another activation in the scope came between its reads and its commit.
THEOREM ScopesKeepTemplates == TemplateSpec => ScopeKeepsTemplate
<1>1. ASSUME TemplatesSound, [TemplateNext]_templateVars
      PROVE  [\A scope \in Scopes :
                ActiveIn(scope) # {} /\ ActiveIn(scope)' = {}
                  => \E c \in Managers : act[c].raced /\ act[c].scope = scope]_templateVars
    <2>. SUFFICES ASSUME NEW scope \in Scopes, ActiveIn(scope) # {}, ActiveIn(scope)' = {}
                  PROVE  \E c \in Managers : act[c].raced /\ act[c].scope = scope
        OBVIOUS
    <2>1. PICK c \in Managers : CommitActivation(c)
        BY <1>1, OthersKeepActive
    <2>2. PICK t \in Templates : t \in ActiveIn(scope)
        BY DEF ActiveIn
    <2>3. template[t].status = "active" /\ template[t].scope = scope
        BY <2>2 DEF ActiveIn, IsActive
    <2>4. act[c].step = "activating" /\ act[c] \in TemplateSession
        BY <1>1, <2>1 DEF CommitActivation, TemplatesSound, TemplateTypeOK
    <2>5. template'[t].scope = scope /\ template'[t].status # "active"
        <3>1. template'[t].scope = scope
            BY <1>1, <2>1, <2>3, SwitchedRows
        <3>. QED
            BY <3>1 DEF ActiveIn, IsActive
    <2>6. \A x \in Templates :
            template'[x] =
              [template[x] EXCEPT !.status = IF x = act[c].id /\ act[c].seen # "active" THEN "active"
                                             ELSE IF x = act[c].current /\ x # act[c].id THEN "inactive"
                                             ELSE template[x].status]
        BY <2>1 DEF CommitActivation, Switched
    <2>7. \A x \in Templates : template[x] \in TemplateRow
        BY <1>1 DEF TemplatesSound, TemplateTypeOK
    <2>8. t = act[c].current /\ t # act[c].id
        BY <2>3, <2>5, <2>6, <2>7 DEF TemplateRow
    <2>9. act[c].scope = scope
        BY <1>1, <2>3, <2>4, <2>8, NoTemplateAssumption DEF TemplatesSound, FindSound
    <2>10. act[c].seen = "active"
        <3>1. act[c].id \in Templates /\ template[act[c].id].scope = scope
            BY <1>1, <2>4, <2>9 DEF TemplatesSound, LoadSound
        <3>2. act[c].seen # "active" => template'[act[c].id].status = "active"
            BY <2>6, <2>7, <3>1 DEF TemplateRow
        <3>3. template'[act[c].id].scope = scope
            BY <1>1, <2>1, <3>1, SwitchedRows
        <3>. QED
            BY <3>1, <3>2, <3>3 DEF ActiveIn, IsActive
    <2>11. act[c].raced
        BY <1>1, <2>4, <2>8, <2>10 DEF TemplatesSound, FindSound
    <2>. QED
        BY <2>9, <2>11
<1>. QED
    BY <1>1, TemplatesAlwaysSound, PTL DEF TemplateSpec, ScopeKeepsTemplate

-----------------------------------------------------------------------------
(* Receipts: the parts they are built on *)

\* Receipts change templates only by the requests of ReceiptTemplateService.
THEOREM ReceiptsImplementTemplates == ReceiptSpec => TemplateSpec
<1>1. ReceiptInit => TemplateInit
    BY DEF ReceiptInit
<1>2. [ReceiptNext]_allVars => [TemplateNext]_templateVars
    <2>. SUFFICES ASSUME [ReceiptNext]_allVars PROVE TemplateNext \/ UNCHANGED templateVars
        OBVIOUS
    <2>1. CASE UNCHANGED allVars
        BY <2>1 DEF allVars
    <2>2. ASSUME NEW p \in Payments, DeletePayment(p) PROVE UNCHANGED templateVars
        BY <2>2 DEF DeletePayment
    <2>3. ASSUME NEW c \in Clients, IssueStep(c) PROVE UNCHANGED templateVars
        BY <2>3 DEF IssueStep, RecordPayment, TakeNumber, RenderAndUpload, RenderStranded, PaymentGone, RenderFails,
                    FileDocument, FilingFails, InsertReceipt, InsertFails, InsertLost, IssueCrash
    <2>4. ASSUME NEW c \in Clients, DocumentRequest(c) PROVE UNCHANGED templateVars
        BY <2>4 DEF DocumentRequest
    <2>5. ASSUME NEW m \in Managers, TemplateStep(m) PROVE TemplateNext
        BY <2>5 DEF TemplateNext
    <2>. QED
        BY <2>1, <2>2, <2>3, <2>4, <2>5 DEF ReceiptNext, ReceiptWork
<1>. QED
    BY <1>1, <1>2, PTL DEF ReceiptSpec, TemplateSpec

\* A deletion that a foreign key may refuse is a deletion.
LEMMA RestrictedDelete ==
    ASSUME NEW c \in Clients, NEW restricted, DeleteStep(c, restricted)
    PROVE  DeleteStep(c, {})
BY DEF DeleteStep, CommitDeletion, DeletionLost

\* What one step of the receipts does to documents.
LEMMA DocumentSteps ==
    ASSUME [ReceiptNext]_allVars
    PROVE  [Next]_vars
<1>1. CASE UNCHANGED allVars
    BY <1>1 DEF allVars
<1>2. ASSUME NEW p \in Payments, DeletePayment(p) PROVE UNCHANGED vars
    BY <1>2 DEF DeletePayment
<1>3. ASSUME NEW c \in Clients, IssueStep(c) PROVE [Next]_vars
    <2>1. CASE \E d \in Docs, name \in Names, u \in Uploads :
                  RenderAndUpload(c, d, name, u) \/ RenderStranded(c, d, name, u)
        BY <2>1 DEF RenderAndUpload, RenderStranded, Next, CreateStep
    <2>2. CASE FileDocument(c) \/ FilingFails(c)
        BY <2>2 DEF FileDocument, FilingFails, Next, CreateStep
    <2>3. CASE IssueCrash(c)
        BY <2>3 DEF IssueCrash, Next
    <2>4. CASE (\E p \in Payments : RecordPayment(c, p) \/ TakeNumber(c, p)) \/ PaymentGone(c) \/ RenderFails(c)
               \/ InsertReceipt(c) \/ InsertFails(c) \/ InsertLost(c)
        <3>1. UNCHANGED vars
            BY <2>4 DEF RecordPayment, TakeNumber, PaymentGone, RenderFails, InsertReceipt, InsertFails, InsertLost
        <3>. QED
            BY <3>1
    <2>. QED
        BY <1>3, <2>1, <2>2, <2>3, <2>4 DEF IssueStep
<1>4. ASSUME NEW c \in Clients, DocumentRequest(c) PROVE Next
    <2>1. ReplaceStep(c) \/ DeleteStep(c, {}) \/ Crash(c)
        BY <1>4, RestrictedDelete DEF DocumentRequest
    <2>. QED
        BY <2>1 DEF Next
<1>. QED
    BY <1>1, <1>2, <1>3, <1>4 DEF ReceiptNext, ReceiptWork

\* Receipts change documents and objects only by the requests of DocumentService.
THEOREM ReceiptsImplementDocuments == ReceiptSpec => Spec
<1>1. ReceiptInit => Init
    BY DEF ReceiptInit
<1>. QED
    BY <1>1, DocumentSteps, PTL DEF ReceiptSpec, Spec

-----------------------------------------------------------------------------
(* Receipts: the invariant *)

ReceiptsTyped ==
    /\ payment \in [Payments -> {"none", "live", "deleted"}]
    /\ receipts \subseteq Receipt
    /\ sequence \in 0..MaxNumber
    /\ issue \in [Clients -> Issuance]
    /\ printed \in [Docs -> 0..sequence]
    /\ answer \in [Payments -> {"none", "201", "500"}]

\* The steps at which an issuance has a number, and those at which the number is on a PDF.
Numbered == {"numbered", "uploading", "filed"}
Printing == {"uploading", "filed"}

\* The number of an issuance is its own.  Its document is the one that carries the
\* number, has no receipt yet and is open in create_document or has its row.
IssueSound(c) ==
    /\ issue[c].step \in Numbered =>
        /\ issue[c].payment \in Payments /\ issue[c].number \in 1..sequence
        /\ \A e \in Clients \ {c} : issue[e].step \in Numbered => issue[e].number # issue[c].number
    /\ issue[c].step = "numbered" => \A d \in Docs : printed[d] # issue[c].number
    /\ issue[c].step \in Printing =>
        /\ issue[c].doc \in Docs /\ printed[issue[c].doc] = issue[c].number
        /\ \A r \in receipts : r.doc # issue[c].doc
    /\ issue[c].step = "uploading" => tx[c].step = "uploaded" /\ tx[c].doc = issue[c].doc
    /\ issue[c].step = "filed" => document[issue[c].doc].status # "NONE"

NumbersOnce == \A d, e \in Docs : printed[d] = printed[e] /\ printed[d] # 0 => d = e

RowsSound ==
    /\ \A r \in receipts : payment[r.payment] = "live" /\ document[r.doc].status = "LIVE" /\ printed[r.doc] = r.number
    /\ \A r, s \in receipts : r.doc = s.doc => r = s

\* No document of a receipt was ever a row without a file.
RowsFiled == \A d \in Docs : document[d].status # "NONE" => document[d].file # NoFile

ReceiptsSound ==
    /\ ReceiptsTyped
    /\ \A c \in Clients : IssueSound(c)
    /\ NumbersOnce /\ RowsSound /\ RowsFiled

LEMMA NoIssuanceTyped == NoIssuance \in Issuance /\ NoIssuance.step = "idle"
BY NumberAssumption DEF NoIssuance, Issuance

\* A step prints nothing, or the number of client c on a document that nobody has.
Prints(c) ==
    \/ printed' = printed
    \/ \E d \in Docs :
         /\ issue[c].step = "numbered" /\ printed'[d] = issue[c].number
         /\ document[d].status = "NONE" /\ \A k \in Clients : tx[k].doc # d
         /\ \A e \in Docs \ {d} : printed'[e] = printed[e]

\* A step adds no receipt, or the one that client c has filed.
Adds(c) ==
    \/ receipts' = receipts
    \/ \E r \in Receipt :
         /\ issue[c].step = "filed" /\ receipts' = receipts \cup {r}
         /\ r.doc = issue[c].doc /\ r.number = issue[c].number
         /\ payment'[r.payment] = "live" /\ document'[r.doc].status = "LIVE"

\* One step of the issuance of client c, or of a request on a document.
LEMMA IssueKeeps ==
    ASSUME ReceiptsSound, ReceiptsTyped', NEW c \in Clients,
           \A k \in Clients \ {c} : issue'[k] = issue[k] /\ tx'[k] = tx[k],
           sequence <= sequence', issue'[c].step \in Numbered =>
             (issue[c].step \in Numbered /\ issue'[c].number = issue[c].number) \/ issue'[c].number > sequence,
           \A d \in Docs : document[d].status # "NONE" => document'[d].status # "NONE",
           Prints(c), Adds(c), IssueSound(c)', RowsFiled',
           \A r \in receipts : payment'[r.payment] = "live" /\ document'[r.doc].status = "LIVE"
    PROVE  ReceiptsSound'
<1>1. /\ ReceiptsTyped /\ NumbersOnce /\ RowsSound /\ \A k \in Clients : IssueSound(k)
    BY DEF ReceiptsSound
<1>2. /\ \A d \in Docs : printed[d] \in Nat /\ printed'[d] \in Nat /\ printed[d] <= sequence
      /\ sequence \in Nat /\ sequence' \in Nat
      /\ \A r \in receipts : r.doc \in Docs
    BY <1>1, NumberAssumption DEF ReceiptsTyped, Receipt
<1>3. ASSUME NEW k \in Clients, k # c PROVE IssueSound(k)'
    <2>1. issue'[k] = issue[k] /\ tx'[k] = tx[k] /\ IssueSound(k)
        BY <1>1, <1>3
    <2>2. issue[k].step \in Numbered =>
            /\ issue[k].payment \in Payments /\ issue[k].number \in 1..sequence'
            /\ \A e \in Clients \ {k} : issue'[e].step \in Numbered => issue'[e].number # issue[k].number
        <3>. SUFFICES ASSUME issue[k].step \in Numbered
                      PROVE  /\ issue[k].payment \in Payments /\ issue[k].number \in 1..sequence'
                             /\ \A e \in Clients \ {k} : issue'[e].step \in Numbered => issue'[e].number # issue[k].number
            OBVIOUS
        <3>1. issue[k].payment \in Payments /\ issue[k].number \in 1..sequence
            BY <2>1 DEF IssueSound
        <3>2. \A e \in Clients \ {k} : issue[e].step \in Numbered => issue[e].number # issue[k].number
            BY <2>1 DEF IssueSound
        <3>3. \A e \in Clients \ {k, c} : issue'[e] = issue[e]
            OBVIOUS
        <3>4. issue'[c].step \in Numbered => issue'[c].number # issue[k].number
            <4>1. CASE issue[c].step \in Numbered /\ issue'[c].number = issue[c].number
                BY <1>3, <3>2, <4>1
            <4>2. CASE issue'[c].number > sequence
                BY <1>2, <3>1, <4>2
            <4>. QED
                BY <4>1, <4>2
        <3>5. issue[k].number \in 1..sequence'
            BY <1>2, <3>1
        <3>. QED
            BY <3>1, <3>2, <3>3, <3>4, <3>5
    <2>3. issue[k].step = "numbered" => \A d \in Docs : printed'[d] # issue[k].number
        <3>. SUFFICES ASSUME issue[k].step = "numbered", NEW d \in Docs PROVE printed'[d] # issue[k].number
            OBVIOUS
        <3>1. printed[d] # issue[k].number
            BY <2>1 DEF IssueSound
        <3>2. issue[c].step = "numbered" => issue[c].number # issue[k].number
            BY <1>3, <2>1 DEF IssueSound, Numbered
        <3>. QED
            BY <3>1, <3>2 DEF Prints
    <2>4. issue[k].step \in Printing =>
            /\ issue[k].doc \in Docs /\ printed'[issue[k].doc] = issue[k].number
            /\ \A r \in receipts' : r.doc # issue[k].doc
        <3>. SUFFICES ASSUME issue[k].step \in Printing
                      PROVE  /\ issue[k].doc \in Docs /\ printed'[issue[k].doc] = issue[k].number
                             /\ \A r \in receipts' : r.doc # issue[k].doc
            OBVIOUS
        <3>1. /\ issue[k].doc \in Docs /\ printed[issue[k].doc] = issue[k].number
              /\ \A r \in receipts : r.doc # issue[k].doc
              /\ tx[k].doc = issue[k].doc \/ document[issue[k].doc].status # "NONE"
            BY <2>1 DEF IssueSound, Printing
        <3>2. printed'[issue[k].doc] = printed[issue[k].doc]
            BY <3>1 DEF Prints
        <3>3. issue[c].step = "filed" => issue[c].doc # issue[k].doc
            <4>. SUFFICES ASSUME issue[c].step = "filed" PROVE issue[c].doc # issue[k].doc
                OBVIOUS
            <4>1. printed[issue[c].doc] = issue[c].number
                BY <1>1 DEF IssueSound, Printing
            <4>2. issue[c].number # issue[k].number
                BY <1>3, <2>1 DEF IssueSound, Numbered, Printing
            <4>. QED
                BY <3>1, <4>1, <4>2
        <3>4. \A r \in receipts' : r.doc # issue[k].doc
            BY <3>1, <3>3 DEF Adds
        <3>. QED
            BY <3>1, <3>2, <3>4
    <2>5. /\ issue[k].step = "uploading" => tx'[k].step = "uploaded" /\ tx'[k].doc = issue[k].doc
          /\ issue[k].step = "filed" => document'[issue[k].doc].status # "NONE"
        BY <2>1 DEF IssueSound, Printing
    <2>. QED
        BY <2>1, <2>2, <2>3, <2>4, <2>5 DEF IssueSound
<1>4. NumbersOnce'
    <2>1. CASE printed' = printed
        BY <1>1, <2>1 DEF NumbersOnce
    <2>2. ASSUME NEW d \in Docs, issue[c].step = "numbered", printed'[d] = issue[c].number,
                 \A e \in Docs \ {d} : printed'[e] = printed[e]
          PROVE  NumbersOnce'
        <3>1. \A e \in Docs : printed[e] # issue[c].number
            BY <1>1, <2>2 DEF IssueSound
        <3>. QED
            BY <1>1, <2>2, <3>1 DEF NumbersOnce
    <2>. QED
        BY <2>1, <2>2 DEF Prints
<1>5. RowsSound'
    <2>1. ASSUME NEW r \in receipts PROVE printed'[r.doc] = r.number /\ document[r.doc].status = "LIVE" /\ r.doc \in Docs
        BY <1>1, <1>2, <2>1 DEF RowsSound, Prints
    <2>2. CASE receipts' = receipts
        BY <1>1, <2>1, <2>2 DEF RowsSound
    <2>3. ASSUME NEW r \in Receipt, issue[c].step = "filed", receipts' = receipts \cup {r},
                 r.doc = issue[c].doc, r.number = issue[c].number,
                 payment'[r.payment] = "live", document'[r.doc].status = "LIVE"
          PROVE  RowsSound'
        <3>1. printed[r.doc] = r.number /\ (\A s \in receipts : s.doc # r.doc) /\ printed' = printed
            BY <1>1, <2>3 DEF IssueSound, Printing, Prints
        <3>. QED
            BY <1>1, <2>1, <2>3, <3>1 DEF RowsSound
    <2>. QED
        BY <2>2, <2>3 DEF Adds
<1>. QED
    BY <1>3, <1>4, <1>5 DEF ReceiptsSound

-----------------------------------------------------------------------------
(* Requests on documents *)

\* What a request on documents leaves: rows stay rows and keep their files, and what is
\* restricted stays.
Framed(c, restricted) ==
    /\ \A k \in Clients \ {c} : tx'[k] = tx[k]
    /\ \A d \in Docs : document[d].status # "NONE" /\ document[d].file # NoFile =>
         document'[d].status # "NONE" /\ document'[d].file # NoFile
    /\ \A d \in Docs : document[d].status = "NONE" => document'[d] = document[d]
    /\ \A d \in Docs : d \in restricted /\ document[d].status = "LIVE" => document'[d].status = "LIVE"

LEMMA ReplaceFrames ==
    ASSUME DocumentsSound, NEW c \in Clients, NEW restricted, ReplaceStep(c)
    PROVE  Framed(c, restricted)
<1>1. TypeOK
    BY DEF DocumentsSound
<1>2. \A k \in Clients \ {c} : tx'[k] = tx[k]
    BY <1>1 DEF ReplaceStep, Stage, StageStranded, Strand, Begins, CommitReplacement, ReplacementFails, ReplacementLost, Promote,
                PromotionFails, RemoveStaged, RemoveOld, Goto, End, TypeOK
<1>3. CASE document' = document
    BY <1>2, <1>3 DEF Framed
<1>4. CASE CommitReplacement(c) \/ ReplacementLost(c)
    <2>1. tx[c].step = "staged" /\ document' = Replaced(tx[c])
        BY <1>4 DEF CommitReplacement, ReplacementLost
    <2>2. tx[c].upload \in Uploads /\ tx[c].upload # NoFile
        BY <2>1, ReplacementFacts
    <2>3. tx[c] \in Session /\ tx[c].doc \in Docs
        BY <2>1, OpenFacts
    <2>4. /\ \A e \in Docs \ {tx[c].doc} : document'[e] = document[e]
          /\ document[tx[c].doc].status # "LIVE" => document'[tx[c].doc] = document[tx[c].doc]
          /\ document[tx[c].doc].status = "LIVE" =>
               document'[tx[c].doc].status = "LIVE" /\ document'[tx[c].doc].file = tx[c].upload
        BY <1>1, <2>1, <2>2, <2>3, ReplacedRow
    <2>. QED
        BY <1>2, <2>2, <2>4 DEF Framed
<1>. QED
    BY <1>3, <1>4 DEF ReplaceStep, Stage, StageStranded, Strand, ReplacementFails, Promote, PromotionFails, RemoveStaged, RemoveOld

LEMMA DeleteFrames ==
    ASSUME DocumentsSound, NEW c \in Clients, NEW restricted, DeleteStep(c, restricted)
    PROVE  Framed(c, restricted)
<1>1. TypeOK
    BY DEF DocumentsSound
<1>2. \A k \in Clients \ {c} : tx'[k] = tx[k]
    BY <1>1 DEF DeleteStep, LoadForDelete, Begins, CommitDeletion, DeletionFails, DeletionLost, RemoveDeleted,
                Goto, End, TypeOK
<1>3. CASE document' = document
    BY <1>2, <1>3 DEF Framed
<1>4. CASE document' = Dropped(tx[c].doc) /\ Live(tx[c].doc) /\ tx[c].doc \notin restricted /\ tx[c].step = "deleting"
    <2>1. tx[c].doc \in Docs
        BY <1>4, OpenFacts
    <2>2. /\ document'[tx[c].doc].status = "DELETED" /\ document'[tx[c].doc].file = document[tx[c].doc].file
          /\ \A e \in Docs \ {tx[c].doc} : document'[e] = document[e]
        BY <1>1, <1>4, <2>1, DroppedRow
    <2>. QED
        BY <1>2, <1>4, <2>2 DEF Framed, Live
<1>. QED
    BY <1>3, <1>4 DEF DeleteStep, LoadForDelete, CommitDeletion, DeletionFails, DeletionLost, RemoveDeleted

LEMMA CrashFrames ==
    ASSUME DocumentsSound, NEW c \in Clients, NEW restricted, Crash(c)
    PROVE  Framed(c, restricted)
BY DEF DocumentsSound, TypeOK, Crash, End, Framed

LEMMA UnchangedFrames ==
    ASSUME UNCHANGED vars, NEW c \in Clients, NEW restricted
    PROVE  Framed(c, restricted)
BY DEF vars, Framed

\* The issuance of c ends, or c has none, while documents change as above.
LEMMA SettledKeeps ==
    ASSUME ReceiptsSound, ReceiptsTyped', NEW c \in Clients, issue'[c].step \notin Numbered,
           \A k \in Clients \ {c} : issue'[k] = issue[k], Framed(c, Receipted),
           receipts' = receipts, sequence' = sequence, printed' = printed,
           \A p \in Payments : payment[p] = "live" => payment'[p] = "live"
    PROVE  ReceiptsSound'
<1>1. ReceiptsTyped /\ RowsSound /\ RowsFiled
    BY DEF ReceiptsSound
<1>2. \A k \in Clients \ {c} : issue'[k] = issue[k] /\ tx'[k] = tx[k]
    BY DEF Framed
<1>3. IssueSound(c)'
    BY DEF IssueSound, Numbered, Printing
<1>4. \A d \in Docs : document[d].status # "NONE" => document'[d].status # "NONE"
    BY <1>1 DEF Framed, RowsFiled
<1>5. RowsFiled'
    BY <1>1 DEF Framed, RowsFiled
<1>6. \A r \in receipts : payment'[r.payment] = "live" /\ document'[r.doc].status = "LIVE"
    BY <1>1 DEF RowsSound, Framed, Receipted, ReceiptsTyped, Receipt
<1>7. sequence <= sequence'
    BY <1>1, NumberAssumption DEF ReceiptsTyped
<1>8. Prints(c) /\ Adds(c)
    BY DEF Prints, Adds
<1>. QED
    BY <1>2, <1>3, <1>4, <1>5, <1>6, <1>7, <1>8, IssueKeeps

LEMMA EndIssueEffect ==
    ASSUME ReceiptsTyped, NEW c \in Clients, NEW expired \in BOOLEAN, EndIssue(c, expired)
    PROVE  /\ issue' \in [Clients -> Issuance] /\ issue'[c].step = "idle"
           /\ \A k \in Clients \ {c} : issue'[k] = issue[k]
           /\ answer' \in [Payments -> {"none", "201", "500"}]
<1>1. issue' = [issue EXCEPT ![c] = NoIssuance] /\ issue \in [Clients -> Issuance]
    BY DEF EndIssue, ReceiptsTyped
<1>2. answer' = answer \/ answer' = [answer EXCEPT ![issue[c].payment] = "500"]
        \/ answer' = [answer EXCEPT ![issue[c].payment] = "201"]
    BY Zenon DEF EndIssue
<1>3. answer' \in [Payments -> {"none", "201", "500"}]
    BY <1>2 DEF ReceiptsTyped
<1>. QED
    BY <1>1, <1>3, NoIssuanceTyped

LEMMA SettlingKeeps ==
    ASSUME DocumentsSound, ReceiptsSound, NEW c \in Clients,
           PaymentGone(c) \/ RenderFails(c) \/ InsertFails(c)
    PROVE  ReceiptsSound'
<1>1. /\ EndIssue(c, TRUE) \/ EndIssue(c, FALSE)
      /\ UNCHANGED <<payment, receipts, sequence, printed, vars>>
    BY DEF PaymentGone, RenderFails, InsertFails
<1>2. ReceiptsTyped
    BY DEF ReceiptsSound
<1>3. /\ issue' \in [Clients -> Issuance] /\ issue'[c].step = "idle"
      /\ \A k \in Clients \ {c} : issue'[k] = issue[k]
      /\ answer' \in [Payments -> {"none", "201", "500"}]
    BY <1>1, <1>2, EndIssueEffect
<1>4. ReceiptsTyped'
    BY <1>1, <1>2, <1>3 DEF ReceiptsTyped
<1>5. Framed(c, Receipted) /\ issue'[c].step \notin Numbered
    BY <1>1, <1>3, UnchangedFrames DEF Numbered
<1>. QED
    BY <1>1, <1>3, <1>4, <1>5, SettledKeeps

LEMMA CrashingKeeps ==
    ASSUME DocumentsSound, ReceiptsSound, NEW c \in Clients, IssueCrash(c)
    PROVE  ReceiptsSound'
<1>1. /\ issue' = [issue EXCEPT ![c] = NoIssuance] /\ UNCHANGED <<payment, receipts, sequence, printed, answer>>
      /\ UNCHANGED vars \/ Crash(c)
    BY DEF IssueCrash
<1>2. ReceiptsTyped
    BY DEF ReceiptsSound
<1>3. /\ issue' \in [Clients -> Issuance] /\ issue'[c].step = "idle"
      /\ \A k \in Clients \ {c} : issue'[k] = issue[k]
    BY <1>1, <1>2, NoIssuanceTyped DEF ReceiptsTyped
<1>4. ReceiptsTyped'
    BY <1>1, <1>2, <1>3 DEF ReceiptsTyped
<1>5. Framed(c, Receipted) /\ issue'[c].step \notin Numbered
    BY <1>1, <1>3, UnchangedFrames, CrashFrames DEF Numbered
<1>. QED
    BY <1>1, <1>3, <1>4, <1>5, SettledKeeps

LEMMA DocumentRequestKeeps ==
    ASSUME DocumentsSound, ReceiptsSound, NEW c \in Clients, DocumentRequest(c)
    PROVE  ReceiptsSound'
<1>1. /\ issue[c].step = "idle" /\ UNCHANGED receiptVars
      /\ ReplaceStep(c) \/ DeleteStep(c, Receipted) \/ Crash(c)
    BY DEF DocumentRequest
<1>2. UNCHANGED <<payment, receipts, sequence, issue, printed, answer>>
    BY <1>1 DEF receiptVars
<1>3. ReceiptsTyped'
    BY <1>2 DEF ReceiptsSound, ReceiptsTyped
<1>4. Framed(c, Receipted)
    BY <1>1, ReplaceFrames, DeleteFrames, CrashFrames
<1>5. issue'[c].step \notin Numbered
    BY <1>1, <1>2 DEF Numbered
<1>. QED
    BY <1>2, <1>3, <1>4, <1>5, SettledKeeps

LEMMA PostedTyped ==
    \A p \in Payments : \A posted \in BOOLEAN :
        /\ [NoIssuance EXCEPT !.step = "posted", !.payment = p, !.posted = posted] \in Issuance
        /\ [NoIssuance EXCEPT !.step = "posted", !.payment = p, !.posted = posted].step = "posted"
<1>. SUFFICES ASSUME NEW p \in Payments, NEW posted \in BOOLEAN
              PROVE  /\ [NoIssuance EXCEPT !.step = "posted", !.payment = p, !.posted = posted] \in Issuance
                     /\ [NoIssuance EXCEPT !.step = "posted", !.payment = p, !.posted = posted].step = "posted"
    OBVIOUS
<1>. QED
    BY NoIssuanceTyped DEF Issuance

LEMMA RecordPaymentKeeps ==
    ASSUME ReceiptsSound, NEW c \in Clients, NEW p \in Payments, RecordPayment(c, p)
    PROVE  ReceiptsSound'
<1>. DEFINE s == [NoIssuance EXCEPT !.step = "posted", !.payment = p, !.posted = TRUE]
<1>1. /\ payment[p] = "none" /\ payment' = [payment EXCEPT ![p] = "live"]
      /\ issue' = [issue EXCEPT ![c] = s]
      /\ UNCHANGED <<receipts, sequence, printed, answer, vars>>
    BY DEF RecordPayment
<1>2. s \in Issuance /\ s.step = "posted"
    BY PostedTyped, Zenon
<1>. HIDE DEF s
<1>3. ReceiptsTyped
    BY DEF ReceiptsSound
<1>4. /\ issue' \in [Clients -> Issuance] /\ issue'[c].step = "posted"
      /\ \A k \in Clients \ {c} : issue'[k] = issue[k]
    BY <1>1, <1>2, <1>3 DEF ReceiptsTyped
<1>5. ReceiptsTyped' /\ \A q \in Payments : payment[q] = "live" => payment'[q] = "live"
    BY <1>1, <1>3, <1>4 DEF ReceiptsTyped
<1>6. Framed(c, Receipted) /\ issue'[c].step \notin Numbered
    BY <1>1, <1>4, UnchangedFrames DEF Numbered
<1>. QED
    BY <1>1, <1>4, <1>5, <1>6, SettledKeeps

LEMMA DeletePaymentKeeps ==
    ASSUME ReceiptsSound, NEW p \in Payments, DeletePayment(p)
    PROVE  ReceiptsSound'
<1>1. /\ payment' = [payment EXCEPT ![p] = "deleted"] /\ (\A r \in receipts : r.payment # p)
      /\ UNCHANGED <<receipts, sequence, issue, printed, answer>> /\ UNCHANGED <<document, tx>>
    BY DEF DeletePayment, vars
<1>2. ReceiptsTyped /\ RowsSound /\ NumbersOnce /\ RowsFiled /\ \A c \in Clients : IssueSound(c)
    BY DEF ReceiptsSound
<1>3. ReceiptsTyped'
    BY <1>1, <1>2 DEF ReceiptsTyped
<1>4. RowsSound'
    BY <1>1, <1>2 DEF RowsSound, ReceiptsTyped, Receipt
<1>5. \A c \in Clients : IssueSound(c)'
    BY <1>1, <1>2 DEF IssueSound
<1>6. NumbersOnce' /\ RowsFiled'
    BY <1>1, <1>2 DEF NumbersOnce, RowsFiled
<1>. QED
    BY <1>3, <1>4, <1>5, <1>6 DEF ReceiptsSound

LEMMA TakeNumberKeeps ==
    ASSUME ReceiptsSound, NEW c \in Clients, NEW p \in Payments, TakeNumber(c, p)
    PROVE  ReceiptsSound'
<1>. DEFINE n == sequence + 1  s == [issue[c] EXCEPT !.step = "numbered", !.payment = p, !.number = n]
<1>1. ReceiptsTyped /\ RowsSound /\ RowsFiled
    BY DEF ReceiptsSound
<1>2. /\ n <= MaxNumber /\ sequence' = n
      /\ UNCHANGED <<payment, receipts, printed, answer, vars>>
    BY DEF TakeNumber, next_receipt_number
<1>3. issue' = [issue EXCEPT ![c] = s]
    BY <1>1 DEF TakeNumber, next_receipt_number, ReceiptsTyped
<1>4. issue[c] \in Issuance /\ sequence \in Nat /\ n \in 0..MaxNumber
    BY <1>1, <1>2, NumberAssumption DEF ReceiptsTyped
<1>5. s \in Issuance /\ s.step = "numbered" /\ s.payment = p /\ s.number = n
    <2>. HIDE DEF s
    <2>1. s = [issue[c] EXCEPT !.step = "numbered", !.payment = p, !.number = n]
        BY DEF s
    <2>. QED
        BY <1>4, <2>1 DEF Issuance
<1>. HIDE DEF s
<1>6. issue' \in [Clients -> Issuance] /\ issue'[c] = s /\ \A k \in Clients \ {c} : issue'[k] = issue[k]
    BY <1>1, <1>3, <1>5 DEF ReceiptsTyped
<1>7. \A d \in Docs : printed[d] \in 0..sequence /\ printed'[d] \in 0..n
    BY <1>1, <1>2, <1>4 DEF ReceiptsTyped
<1>8. ReceiptsTyped'
    BY <1>1, <1>2, <1>4, <1>6, <1>7 DEF ReceiptsTyped
<1>9. \A e \in Clients \ {c} : issue'[e].step \in Numbered => issue'[e].number # n
    <2>. SUFFICES ASSUME NEW e \in Clients \ {c}, issue[e].step \in Numbered PROVE issue[e].number # n
        BY <1>6
    <2>1. issue[e].number \in 1..sequence
        BY DEF ReceiptsSound, IssueSound
    <2>. QED
        BY <1>4, <2>1
<1>10. IssueSound(c)'
    <2>1. \A d \in Docs : printed'[d] # n
        BY <1>2, <1>4, <1>7
    <2>2. n \in 1..sequence'
        BY <1>2, <1>4
    <2>. QED
        BY <1>5, <1>6, <1>9, <2>1, <2>2 DEF IssueSound, Printing
<1>11. /\ \A k \in Clients \ {c} : issue'[k] = issue[k] /\ tx'[k] = tx[k]
       /\ document' = document
    BY <1>2, <1>6 DEF vars
<1>12. sequence <= sequence' /\ issue'[c].number > sequence
    BY <1>2, <1>4, <1>5, <1>6
<1>13. Prints(c) /\ Adds(c)
    BY <1>2 DEF Prints, Adds
<1>14. /\ \A r \in receipts : payment'[r.payment] = "live" /\ document'[r.doc].status = "LIVE"
       /\ RowsFiled'
       /\ \A d \in Docs : document[d].status # "NONE" => document'[d].status # "NONE"
    BY <1>1, <1>2, <1>11 DEF RowsSound, RowsFiled
<1>. QED
    BY <1>8, <1>10, <1>11, <1>12, <1>13, <1>14, IssueKeeps

LEMMA RenderKeeps ==
    ASSUME DocumentsSound, ReceiptsSound, NEW c \in Clients, NEW d \in Docs, NEW name \in Names, NEW u \in Uploads,
           RenderAndUpload(c, d, name, u)
    PROVE  ReceiptsSound'
<1>. DEFINE n == issue[c].number  s == [issue[c] EXCEPT !.step = "uploading", !.doc = d]
<1>1. ReceiptsTyped /\ RowsSound /\ RowsFiled /\ IssueSound(c) /\ TypeOK
    BY DEF ReceiptsSound, DocumentsSound
<1>2. /\ issue[c].step = "numbered" /\ UNCHANGED <<payment, receipts, sequence, answer>>
      /\ printed' = [printed EXCEPT ![d] = n]
    BY DEF RenderAndUpload
<1>3. /\ document[d].status = "NONE" /\ document' = document /\ (\A k \in Clients : tx[k].doc # d)
      /\ tx'[c].step = "uploaded" /\ tx'[c].doc = d /\ \A k \in Clients \ {c} : tx'[k] = tx[k]
    <2>1. UploadNew(c, d, name, u)
        BY DEF RenderAndUpload
    <2>2. document[d] = UnusedRow /\ document' = document /\ OpenOn(d) = {}
        BY <2>1 DEF UploadNew
    <2>3. tx' = [tx EXCEPT ![c] = Request("uploaded", d, name, u, UnusedRow)]
        BY <2>1 DEF UploadNew, Begins
    <2>. QED
        BY <1>1, <2>2, <2>3, RowTyped DEF TypeOK, Request, OpenOn
<1>4. issue' = [issue EXCEPT ![c] = s]
    BY <1>1 DEF RenderAndUpload, ReceiptsTyped
<1>5. issue[c] \in Issuance
    BY <1>1 DEF ReceiptsTyped
<1>6. s \in Issuance /\ s.step = "uploading" /\ s.payment = issue[c].payment /\ s.number = n /\ s.doc = d
    <2>. HIDE DEF s
    <2>1. s = [issue[c] EXCEPT !.step = "uploading", !.doc = d]
        BY DEF s
    <2>. QED
        BY <1>5, <2>1 DEF Issuance
<1>. HIDE DEF s
<1>7. issue' \in [Clients -> Issuance] /\ issue'[c] = s /\ \A k \in Clients \ {c} : issue'[k] = issue[k]
    BY <1>1, <1>4, <1>6 DEF ReceiptsTyped
<1>8. /\ issue[c].payment \in Payments /\ n \in 1..sequence
      /\ \A e \in Clients \ {c} : issue[e].step \in Numbered => issue[e].number # n
    BY <1>1, <1>2 DEF IssueSound, Numbered
<1>9. /\ printed'[d] = n /\ (\A e \in Docs \ {d} : printed'[e] = printed[e])
      /\ printed' \in [Docs -> 0..sequence]
    <2>1. n \in 0..sequence
        BY <1>1, <1>8, NumberAssumption DEF ReceiptsTyped
    <2>. QED
        BY <1>1, <1>2, <2>1 DEF ReceiptsTyped
<1>10. ReceiptsTyped'
    BY <1>1, <1>2, <1>7, <1>9 DEF ReceiptsTyped
<1>11. \A r \in receipts : r.doc # d
    BY <1>1, <1>3 DEF RowsSound
<1>12. IssueSound(c)'
    BY <1>2, <1>3, <1>6, <1>7, <1>8, <1>9, <1>11 DEF IssueSound
<1>13. Prints(c) /\ Adds(c)
    BY <1>2, <1>3, <1>9 DEF Prints, Adds
<1>14. /\ \A r \in receipts : payment'[r.payment] = "live" /\ document'[r.doc].status = "LIVE"
       /\ RowsFiled'
       /\ \A e \in Docs : document[e].status # "NONE" => document'[e].status # "NONE"
    BY <1>1, <1>2, <1>3 DEF RowsSound, RowsFiled
<1>15. \A k \in Clients \ {c} : issue'[k] = issue[k] /\ tx'[k] = tx[k]
    BY <1>3, <1>7
<1>16. sequence <= sequence' /\ issue[c].step \in Numbered /\ issue'[c].number = issue[c].number
    BY <1>1, <1>2, <1>6, <1>7, NumberAssumption DEF Numbered, ReceiptsTyped
<1>. QED
    BY <1>10, <1>12, <1>13, <1>14, <1>15, <1>16, IssueKeeps

\* The issuance ends over an upload that raised after storing the PDF.
LEMMA RenderStrandedKeeps ==
    ASSUME DocumentsSound, ReceiptsSound, NEW c \in Clients, NEW d \in Docs, NEW name \in Names, NEW u \in Uploads,
           RenderStranded(c, d, name, u)
    PROVE  ReceiptsSound'
<1>. DEFINE n == issue[c].number
<1>1. ReceiptsTyped /\ RowsSound /\ RowsFiled /\ IssueSound(c)
    BY DEF ReceiptsSound
<1>2. /\ issue[c].step = "numbered" /\ UNCHANGED <<payment, receipts, sequence>> /\ EndIssue(c, FALSE)
      /\ printed' = [printed EXCEPT ![d] = n]
    BY DEF RenderStranded
<1>3. /\ document[d].status = "NONE" /\ document' = document /\ tx' = tx /\ \A k \in Clients : tx[k].doc # d
    BY RowTyped DEF RenderStranded, UploadStranded, Strand, OpenOn
<1>4. /\ issue' \in [Clients -> Issuance] /\ issue'[c].step = "idle"
      /\ \A k \in Clients \ {c} : issue'[k] = issue[k]
      /\ answer' \in [Payments -> {"none", "201", "500"}]
    BY <1>1, <1>2, EndIssueEffect
<1>5. /\ printed'[d] = n /\ (\A e \in Docs \ {d} : printed'[e] = printed[e])
      /\ printed' \in [Docs -> 0..sequence]
    <2>1. n \in 0..sequence
        BY <1>1, <1>2, NumberAssumption DEF ReceiptsTyped, IssueSound, Numbered
    <2>. QED
        BY <1>1, <1>2, <2>1 DEF ReceiptsTyped
<1>6. ReceiptsTyped'
    BY <1>1, <1>2, <1>4, <1>5 DEF ReceiptsTyped
<1>7. IssueSound(c)' /\ issue'[c].step \notin Numbered
    BY <1>4 DEF IssueSound, Numbered, Printing
<1>8. Prints(c) /\ Adds(c)
    BY <1>2, <1>3, <1>5 DEF Prints, Adds
<1>9. /\ \A r \in receipts : payment'[r.payment] = "live" /\ document'[r.doc].status = "LIVE"
      /\ RowsFiled' /\ \A e \in Docs : document[e].status # "NONE" => document'[e].status # "NONE"
    BY <1>1, <1>2, <1>3 DEF RowsSound, RowsFiled
<1>10. sequence <= sequence' /\ \A k \in Clients \ {c} : issue'[k] = issue[k] /\ tx'[k] = tx[k]
    BY <1>1, <1>2, <1>3, <1>4, NumberAssumption DEF ReceiptsTyped
<1>. QED
    BY <1>6, <1>7, <1>8, <1>9, <1>10, IssueKeeps

\* What create_document does to the row, whether its commit is answered or lost.
LEMMA FiledRow ==
    ASSUME DocumentsSound, NEW c \in Clients, CommitNew(c) \/ NewLost(c), NEW d, d = tx[c].doc
    PROVE  /\ d \in Docs /\ document'[d].status = "LIVE" /\ document'[d].file # NoFile
           /\ \A e \in Docs \ {d} : document'[e] = document[e]
           /\ document[d].status = "NONE" /\ \A k \in Clients \ {c} : tx'[k] = tx[k]
<1>. DEFINE row == NewRow(tx[c].name, tx[c].upload)
<1>1. /\ tx[c].step = "uploaded" /\ document' = [document EXCEPT ![d] = row] /\ End(c)
    BY DEF CommitNew, NewLost
<1>2. TypeOK /\ tx[c] \in Session /\ d \in Docs /\ SessionSound(c)
    BY <1>1, OpenFacts
<1>3. tx[c].upload \in Uploads /\ tx[c].name \in Names /\ document[d].status = "NONE"
    BY <1>1, <1>2, RowTyped DEF SessionSound, TypeOK, Session
<1>4. row \in DocumentRow /\ row.status = "LIVE" /\ row.file = tx[c].upload
    BY <1>3, NewRowTyped
<1>. HIDE DEF row
<1>5. document'[d] = row /\ \A e \in Docs \ {d} : document'[e] = document[e]
    BY <1>1, <1>2, <1>4, RowWritten
<1>6. \A k \in Clients \ {c} : tx'[k] = tx[k]
    BY <1>1, <1>2 DEF End, TypeOK
<1>. QED
    BY <1>2, <1>3, <1>4, <1>5, <1>6, AbsentAssumption

LEMMA FileDocumentKeeps ==
    ASSUME DocumentsSound, ReceiptsSound, NEW c \in Clients, FileDocument(c)
    PROVE  ReceiptsSound'
<1>. DEFINE d == tx[c].doc  s == [issue[c] EXCEPT !.step = "filed"]
<1>1. ReceiptsTyped /\ RowsSound /\ RowsFiled /\ IssueSound(c)
    BY DEF ReceiptsSound
<1>2. /\ issue[c].step = "uploading" /\ CommitNew(c) /\ UNCHANGED <<payment, receipts, sequence, printed, answer>>
    BY DEF FileDocument
<1>3. /\ d \in Docs /\ document'[d].status = "LIVE" /\ document'[d].file # NoFile
      /\ \A e \in Docs \ {d} : document'[e] = document[e]
      /\ document[d].status = "NONE" /\ \A k \in Clients \ {c} : tx'[k] = tx[k]
    BY <1>2, FiledRow
<1>4. issue' = [issue EXCEPT ![c] = s] /\ issue[c] \in Issuance
    BY <1>1 DEF FileDocument, ReceiptsTyped
<1>5. /\ s \in Issuance /\ s.step = "filed" /\ s.payment = issue[c].payment /\ s.number = issue[c].number
      /\ s.doc = issue[c].doc
    BY <1>4 DEF Issuance
<1>. HIDE DEF s
<1>6. issue' \in [Clients -> Issuance] /\ issue'[c] = s /\ \A k \in Clients \ {c} : issue'[k] = issue[k]
    BY <1>1, <1>4, <1>5 DEF ReceiptsTyped
<1>7. ReceiptsTyped'
    BY <1>1, <1>2, <1>6 DEF ReceiptsTyped
<1>8. IssueSound(c)'
    <2>1. /\ issue[c].payment \in Payments /\ issue[c].number \in 1..sequence
          /\ \A e \in Clients \ {c} : issue[e].step \in Numbered => issue[e].number # issue[c].number
          /\ issue[c].doc \in Docs /\ printed[issue[c].doc] = issue[c].number
          /\ \A r \in receipts : r.doc # issue[c].doc
          /\ issue[c].doc = d
        BY <1>1, <1>2 DEF IssueSound, Numbered, Printing
    <2>. QED
        BY <1>2, <1>3, <1>5, <1>6, <2>1 DEF IssueSound
<1>9. RowsFiled' /\ \A e \in Docs : document[e].status # "NONE" => document'[e].status # "NONE"
    BY <1>1, <1>3 DEF RowsFiled
<1>10. \A r \in receipts : payment'[r.payment] = "live" /\ document'[r.doc].status = "LIVE"
    <2>1. \A r \in receipts : r.doc \in Docs \ {d}
        BY <1>1, <1>3 DEF RowsSound, ReceiptsTyped, Receipt
    <2>. QED
        BY <1>1, <1>2, <1>3, <2>1 DEF RowsSound
<1>11. Prints(c) /\ Adds(c)
    BY <1>2 DEF Prints, Adds
<1>12. sequence <= sequence' /\ issue[c].step \in Numbered /\ issue'[c].number = issue[c].number
    BY <1>1, <1>2, <1>5, <1>6, NumberAssumption DEF Numbered, ReceiptsTyped
<1>13. \A k \in Clients \ {c} : issue'[k] = issue[k] /\ tx'[k] = tx[k]
    BY <1>3, <1>6
<1>. QED
    BY <1>7, <1>8, <1>9, <1>10, <1>11, <1>12, <1>13, IssueKeeps

LEMMA FilingFailsKeeps ==
    ASSUME DocumentsSound, ReceiptsSound, NEW c \in Clients, FilingFails(c)
    PROVE  ReceiptsSound'
<1>. DEFINE d == tx[c].doc
<1>1. ReceiptsTyped /\ RowsSound /\ RowsFiled /\ TypeOK
    BY DEF ReceiptsSound, DocumentsSound
<1>2. /\ NewFails(c) \/ NewLost(c)
      /\ EndIssue(c, TRUE) /\ UNCHANGED <<payment, receipts, sequence, printed>>
    BY DEF FilingFails
<1>3. /\ issue' \in [Clients -> Issuance] /\ issue'[c].step = "idle"
      /\ \A k \in Clients \ {c} : issue'[k] = issue[k]
      /\ answer' \in [Payments -> {"none", "201", "500"}]
    BY <1>1, <1>2, EndIssueEffect
<1>4. ReceiptsTyped'
    BY <1>1, <1>2, <1>3 DEF ReceiptsTyped
<1>5. /\ \A k \in Clients \ {c} : tx'[k] = tx[k]
      /\ RowsFiled' /\ \A e \in Docs : document[e].status # "NONE" => document'[e].status # "NONE"
      /\ \A e \in Docs : document[e].status = "LIVE" => document'[e].status = "LIVE"
    <2>1. CASE NewFails(c)
        BY <1>1, <2>1 DEF NewFails, End, TypeOK, RowsFiled
    <2>2. CASE NewLost(c)
        <3>1. /\ d \in Docs /\ document'[d].status = "LIVE" /\ document'[d].file # NoFile
              /\ \A e \in Docs \ {d} : document'[e] = document[e]
              /\ \A k \in Clients \ {c} : tx'[k] = tx[k]
            BY <2>2, FiledRow
        <3>. QED
            BY <1>1, <3>1 DEF RowsFiled
    <2>. QED
        BY <1>2, <2>1, <2>2
<1>6. \A r \in receipts : payment'[r.payment] = "live" /\ document'[r.doc].status = "LIVE"
    BY <1>1, <1>2, <1>5 DEF RowsSound, ReceiptsTyped, Receipt
<1>7. IssueSound(c)' /\ issue'[c].step \notin Numbered
    BY <1>3 DEF IssueSound, Numbered, Printing
<1>8. Prints(c) /\ Adds(c)
    BY <1>2 DEF Prints, Adds
<1>9. sequence <= sequence'
    BY <1>1, <1>2, NumberAssumption DEF ReceiptsTyped
<1>10. \A k \in Clients \ {c} : issue'[k] = issue[k] /\ tx'[k] = tx[k]
    BY <1>3, <1>5
<1>. QED
    BY <1>4, <1>5, <1>6, <1>7, <1>8, <1>9, <1>10, IssueKeeps

LEMMA InsertReceiptKeeps ==
    ASSUME ReceiptsSound, NEW c \in Clients, InsertReceipt(c) \/ InsertLost(c)
    PROVE  ReceiptsSound'
<1>. DEFINE r == [number |-> issue[c].number, payment |-> issue[c].payment, doc |-> issue[c].doc]
<1>1. ReceiptsTyped /\ RowsSound /\ RowsFiled /\ IssueSound(c)
    BY DEF ReceiptsSound
<1>2. /\ issue[c].step = "filed" /\ receipts' = receipts \cup {r}
      /\ payment[issue[c].payment] = "live" /\ document[issue[c].doc].status = "LIVE"
      /\ EndIssue(c, TRUE) \/ EndIssue(c, FALSE)
      /\ UNCHANGED <<payment, sequence, printed>> /\ UNCHANGED <<document, tx>>
    BY DEF InsertReceipt, InsertLost, ForeignKeysAdmit, Live, vars
<1>3. /\ issue' \in [Clients -> Issuance] /\ issue'[c].step = "idle"
      /\ \A k \in Clients \ {c} : issue'[k] = issue[k]
      /\ answer' \in [Payments -> {"none", "201", "500"}]
    BY <1>1, <1>2, EndIssueEffect
<1>4. issue[c].payment \in Payments /\ issue[c].number \in 1..sequence /\ issue[c].doc \in Docs
    BY <1>1, <1>2 DEF IssueSound, Numbered, Printing
<1>5. r \in Receipt /\ r.doc = issue[c].doc /\ r.number = issue[c].number /\ r.payment = issue[c].payment
    BY <1>1, <1>4, NumberAssumption DEF Receipt, ReceiptsTyped
<1>. HIDE DEF r
<1>6. ReceiptsTyped'
    BY <1>1, <1>2, <1>3, <1>5 DEF ReceiptsTyped
<1>7. IssueSound(c)' /\ issue'[c].step \notin Numbered
    BY <1>3 DEF IssueSound, Numbered, Printing
<1>8. Prints(c) /\ Adds(c)
    BY <1>2, <1>5 DEF Prints, Adds
<1>9. sequence <= sequence'
    BY <1>1, <1>2, NumberAssumption DEF ReceiptsTyped
<1>10. \A k \in Clients \ {c} : issue'[k] = issue[k] /\ tx'[k] = tx[k]
    BY <1>2, <1>3
<1>11. /\ \A q \in receipts : payment'[q.payment] = "live" /\ document'[q.doc].status = "LIVE"
       /\ RowsFiled' /\ \A e \in Docs : document[e].status # "NONE" => document'[e].status # "NONE"
    BY <1>1, <1>2 DEF RowsSound, RowsFiled
<1>. QED
    BY <1>6, <1>7, <1>8, <1>9, <1>10, <1>11, IssueKeeps

-----------------------------------------------------------------------------
(* Receipts: the theorems *)

LEMMA ReceiptsInit == ReceiptInit => ReceiptsSound
<1>. SUFFICES ASSUME ReceiptInit PROVE ReceiptsSound
    OBVIOUS
<1>1. ReceiptsTyped
    BY NoIssuanceTyped, NumberAssumption DEF ReceiptInit, ReceiptsTyped
<1>2. \A c \in Clients : IssueSound(c)
    BY NoIssuanceTyped DEF ReceiptInit, IssueSound, Numbered, Printing
<1>3. NumbersOnce /\ RowsSound
    BY DEF ReceiptInit, NumbersOnce, RowsSound
<1>4. RowsFiled
    BY RowTyped DEF ReceiptInit, Init, RowsFiled
<1>. QED
    BY <1>1, <1>2, <1>3, <1>4 DEF ReceiptsSound

LEMMA ReceiptsNext == DocumentsSound /\ ReceiptsSound /\ [ReceiptNext]_allVars => ReceiptsSound'
<1>. SUFFICES ASSUME DocumentsSound, ReceiptsSound, [ReceiptNext]_allVars PROVE ReceiptsSound'
    OBVIOUS
<1>1. CASE UNCHANGED <<vars, receiptVars>>
    BY <1>1 DEF vars, receiptVars, ReceiptsSound, ReceiptsTyped, IssueSound, NumbersOnce, RowsSound, RowsFiled
<1>2. ASSUME NEW c \in Clients, IssueStep(c) PROVE ReceiptsSound'
    BY <1>2, RecordPaymentKeeps, TakeNumberKeeps, RenderKeeps, RenderStrandedKeeps, SettlingKeeps, FileDocumentKeeps,
       FilingFailsKeeps, InsertReceiptKeeps, CrashingKeeps DEF IssueStep
<1>. QED
    BY <1>1, <1>2, DeletePaymentKeeps, DocumentRequestKeeps DEF ReceiptNext, ReceiptWork, allVars

\* The invariant: the numbers, issuances, documents and rows of receipts fit together,
\* after any failure of an issuance and whatever is deleted or replaced meanwhile.
THEOREM ReceiptsStaySound == ReceiptSpec => []ReceiptsSound
<1>1. ReceiptSpec => []DocumentsSound
    BY ReceiptsImplementDocuments, DocumentsStaySound, PTL
<1>. QED
    BY <1>1, ReceiptsInit, ReceiptsNext, PTL DEF ReceiptSpec

\* ReceiptKeepsParents: a receipt's payment and document are there, and no other receipt
\* has its document (issue_receipt, delete_payment, delete_document).
THEOREM ReceiptsKeepParents == ReceiptSpec => []ReceiptKeepsParents
<1>1. ReceiptSpec => []DocumentsSound
    BY ReceiptsImplementDocuments, DocumentsStaySound, PTL
<1>2. ReceiptSpec => []TemplatesSound
    BY ReceiptsImplementTemplates, TemplatesAlwaysSound, PTL
<1>3. DocumentsSound /\ TemplatesSound /\ ReceiptsSound => ReceiptKeepsParents
    <2>. SUFFICES ASSUME DocumentsSound, TemplatesSound, ReceiptsSound PROVE ReceiptKeepsParents
        OBVIOUS
    <2>1. ReceiptsTyped /\ RowsSound /\ TypeOK /\ TemplateTypeOK
        BY DEF DocumentsSound, TemplatesSound, ReceiptsSound
    <2>2. printed \in [Docs -> 0..MaxNumber]
        BY <2>1, NumberAssumption DEF ReceiptsTyped
    <2>3. ReceiptTypeOK
        BY <2>1, <2>2 DEF ReceiptsTyped, ReceiptTypeOK
    <2>. QED
        BY <2>1, <2>3 DEF RowsSound, ReceiptKeepsParents, Live
<1>. QED
    BY <1>1, <1>2, <1>3, ReceiptsStaySound, PTL

\* PrintedOnce: next_receipt_number puts no number on two PDFs, and the row of a receipt
\* has the number of its PDF.
THEOREM NumbersPrintedOnce == ReceiptSpec => []PrintedOnce
<1>1. ReceiptsSound => PrintedOnce
    BY DEF ReceiptsSound, NumbersOnce, RowsSound, PrintedOnce
<1>. QED
    BY <1>1, ReceiptsStaySound, PTL

\* ReceiptReadable: while nothing went wrong on the document of a receipt and nobody is
\* at work on it, the object its row names is in the bucket.
THEOREM ReceiptsStayReadable == ReceiptSpec => []ReceiptReadable
<1>1. ReceiptSpec => []DocumentsSound
    BY ReceiptsImplementDocuments, DocumentsStaySound, PTL
<1>2. DocumentsSound /\ ReceiptsSound => ReceiptReadable
    <2>. SUFFICES ASSUME DocumentsSound, ReceiptsSound, NEW r \in receipts, OpenOn(r.doc) = {}, mishap[r.doc] = {}
                  PROVE  storage[RowKey(r.doc)] = document[r.doc].file /\ document[r.doc].file # NoFile
        BY DEF ReceiptReadable
    <2>1. ReceiptsTyped /\ RowsSound /\ RowsFiled
        BY DEF ReceiptsSound
    <2>2. r.doc \in Docs /\ document[r.doc].status = "LIVE" /\ document[r.doc].file # NoFile
        BY <2>1 DEF ReceiptsTyped, Receipt, RowsSound, RowsFiled
    <2>3. \A x \in Parts : storage[<<r.doc, x>>] = RowAt(document[r.doc], x)
        BY <2>2 DEF DocumentsSound, Layout
    <2>4. document[r.doc].file_name \in Names
        BY <2>2 DEF DocumentsSound, TypeOK, DocumentRow
    <2>5. /\ BaseName[document[r.doc].file_name] \in Parts
          /\ RowKey(r.doc) = <<r.doc, BaseName[document[r.doc].file_name]>>
        BY <2>2, <2>4, KeyTyped DEF RowKey, Parts
    <2>. QED
        BY <2>2, <2>3, <2>5 DEF RowAt
<1>. QED
    BY <1>1, <1>2, ReceiptsStaySound, PTL
=================================================================================
