-------------------------- MODULE ReceiptTemplates --------------------------
(***************************************************************************)
(* Receipt templates (ReceiptTemplateService): HTML objects in the object  *)
(* store with a row each, at most one active row per scope.  A scope is a  *)
(* property or the global default.                                         *)
(*                                                                         *)
(* An upload puts the object and inserts an inactive row after it.  An     *)
(* activation loads the template, looks up the active one of its scope,    *)
(* deactivates that and activates the other in one transaction.  Only the  *)
(* partial unique index orders two activations that overlap.               *)
(***************************************************************************)
EXTENDS FiniteSets

CONSTANTS
    Managers,           \* template requests that can be open at the same time
    Templates,          \* template ids (a bound on the templates ever uploaded)
    NoTemplate,         \* no template: none active, or the built-in default
    Scopes,             \* the properties, and Global
    Global,             \* property_id is NULL
    TemplateFaults      \* which of "storage", "database", "lost", "crash" can happen

ASSUME ScopeAssumption == Global \in Scopes
ASSUME NoTemplateAssumption == NoTemplate \notin Templates

VARIABLES
    template,   \* the receipt_templates table
    html,       \* the templates whose object is in the bucket
    act,        \* the template request of each manager
    orphaned    \* history: templates whose upload lost its commit or crashed, or was logged

templateVars == <<template, html, act, orphaned>>

-----------------------------------------------------------------------------

TemplateRow == [status: {"none", "inactive", "active"}, scope: Scopes]
NoTemplateRow == [status |-> "none", scope |-> Global]

\* seen, current: the row's status and the scope's active template as the activation read
\* them.  raced is history: another activation in the scope committed since.
TemplateSession ==
    [step: {"idle", "uploaded", "loaded", "activating"}, id: Templates \cup {NoTemplate},
     scope: Scopes, seen: {"none", "inactive", "active"},
     current: Templates \cup {NoTemplate}, raced: BOOLEAN]

NoRequest ==
    [step |-> "idle", id |-> NoTemplate, scope |-> Global, seen |-> "none",
     current |-> NoTemplate, raced |-> FALSE]

HasRow(t) == template[t].status # "none"
IsActive(row, scope) == row.status = "active" /\ row.scope = scope
ActiveIn(scope) == {t \in Templates : IsActive(template[t], scope)}

\* Bug: the lookup forgets the scope.
get_active_any(scope) ==
    LET found == {t \in Templates : template[t].status = "active"}
    IN  IF found = {} THEN NoTemplate ELSE CHOOSE t \in found : TRUE

\* get_active_for_property and get_active_global.
get_active(scope) ==
    IF ActiveIn(scope) = {} THEN NoTemplate ELSE CHOOSE t \in ActiveIn(scope) : TRUE

EndRequest(c) == act' = [act EXCEPT ![c] = NoRequest]

-----------------------------------------------------------------------------
(* upload_template *)

\* Bug: the row is written without the object.
UploadTemplateRowOnly(c, t, scope) ==
    /\ act[c].step = "idle"
    /\ ~HasRow(t) /\ t \notin orphaned
    /\ \A other \in Managers : act[other].id # t
    /\ act' = [act EXCEPT ![c] = [@ EXCEPT !.step = "uploaded", !.id = t, !.scope = scope]]
    /\ UNCHANGED <<template, html, orphaned>>

UploadTemplate(c, t, scope) ==
    /\ act[c].step = "idle"
    /\ ~HasRow(t) /\ t \notin orphaned
    /\ \A other \in Managers : act[other].id # t
    /\ html' = html \cup {t}
    /\ act' = [act EXCEPT ![c] = [@ EXCEPT !.step = "uploaded", !.id = t, !.scope = scope]]
    /\ UNCHANGED <<template, orphaned>>

CommitTemplate(c) ==
    /\ act[c].step = "uploaded"
    /\ template' = [template EXCEPT ![act[c].id] = [status |-> "inactive", scope |-> act[c].scope]]
    /\ EndRequest(c)
    /\ UNCHANGED <<html, orphaned>>

\* The insert or the commit fails: the object is removed, or its key is logged.
TemplateFails(c) ==
    /\ act[c].step = "uploaded"
    /\ "database" \in TemplateFaults
    /\ \/ html' = html \ {act[c].id} /\ orphaned' = orphaned
       \/ /\ "storage" \in TemplateFaults
          /\ html' = html
          /\ orphaned' = orphaned \cup {act[c].id}
    /\ EndRequest(c)
    /\ UNCHANGED template

\* The commit took effect and the session saw an error: the row loses its object.
TemplateLost(c) ==
    /\ act[c].step = "uploaded"
    /\ "lost" \in TemplateFaults
    /\ template' = [template EXCEPT ![act[c].id] = [status |-> "inactive", scope |-> act[c].scope]]
    /\ html' = html \ {act[c].id}
    /\ orphaned' = orphaned \cup {act[c].id}
    /\ EndRequest(c)

-----------------------------------------------------------------------------
(* activate_template *)

LoadTemplate(c, t) ==
    /\ act[c].step = "idle"
    /\ HasRow(t)
    /\ act' = [act EXCEPT ![c] = [@ EXCEPT !.step = "loaded", !.id = t, !.seen = template[t].status,
                                           !.scope = template[t].scope]]
    /\ UNCHANGED <<template, html, orphaned>>

FindActive(c) ==
    /\ act[c].step = "loaded"
    /\ act' = [act EXCEPT ![c] = [@ EXCEPT !.step = "activating", !.current = get_active(act[c].scope)]]
    /\ UNCHANGED <<template, html, orphaned>>

\* The two updates.  A template the session loaded as active already is not written: to
\* the session its column does not change.
Switched(s) ==
    [t \in Templates |->
        [template[t] EXCEPT !.status = IF t = s.id /\ s.seen # "active" THEN "active"
                                       ELSE IF t = s.current /\ t # s.id THEN "inactive"
                                       ELSE @]]

\* uq_active_receipt_template_scope
ScopeIndexAdmits(rows) ==
    \A scope \in Scopes, t, u \in Templates :
        IsActive(rows[t], scope) /\ IsActive(rows[u], scope) => t = u

CommitActivation(c) ==
    LET s == act[c] IN
    /\ s.step = "activating"
    /\ ScopeIndexAdmits(Switched(s))
    /\ template' = Switched(s)
    /\ act' = [other \in Managers |->
                 IF other = c THEN NoRequest
                 ELSE IF act[other].step \in {"loaded", "activating"}
                         /\ act[other].scope = s.scope
                 THEN [act[other] EXCEPT !.raced = TRUE]
                 ELSE act[other]]
    /\ UNCHANGED <<html, orphaned>>

\* The index refuses, or the database fails: get_db rolls back.
ActivationFails(c) ==
    /\ act[c].step = "activating"
    /\ "database" \in TemplateFaults \/ ~ScopeIndexAdmits(Switched(act[c]))
    /\ EndRequest(c)
    /\ UNCHANGED <<template, html, orphaned>>

TemplateCrash(c) ==
    /\ act[c].step # "idle"
    /\ "crash" \in TemplateFaults
    /\ orphaned' = IF act[c].step = "uploaded" THEN orphaned \cup {act[c].id} ELSE orphaned
    /\ EndRequest(c)
    /\ UNCHANGED <<template, html>>

-----------------------------------------------------------------------------

TemplateInit ==
    /\ template = [t \in Templates |-> NoTemplateRow]
    /\ html = {}
    /\ act = [c \in Managers |-> NoRequest]
    /\ orphaned = {}

TemplateStep(c) ==
    \/ \E t \in Templates, scope \in Scopes : UploadTemplate(c, t, scope)
    \/ \E t \in Templates : LoadTemplate(c, t)
    \/ CommitTemplate(c) \/ TemplateFails(c) \/ TemplateLost(c)
    \/ FindActive(c) \/ CommitActivation(c) \/ ActivationFails(c) \/ TemplateCrash(c)

TemplateNext == \E c \in Managers : TemplateStep(c)

TemplateSpec == TemplateInit /\ [][TemplateNext]_templateVars

-----------------------------------------------------------------------------
(* Properties *)

\* Rows, objects and requests hold values of their types.
TemplateTypeOK ==
    /\ template \in [Templates -> TemplateRow]
    /\ html \subseteq Templates
    /\ act \in [Managers -> TemplateSession]
    /\ orphaned \subseteq Templates

\* activate_template never leaves a scope without a template that had one, unless
\* another activation in the scope committed after it loaded its template.
ScopeKeepsTemplate ==
    [][\A scope \in Scopes :
          ActiveIn(scope) # {} /\ ActiveIn(scope)' = {}
              => \E c \in Managers : act[c].raced /\ act[c].scope = scope]_templateVars

\* What receipts are rendered with can be read back: an active template has its object,
\* unless the commit of its upload was lost.
ActiveTemplateReadable ==
    \A t \in Templates : template[t].status = "active" /\ t \notin orphaned => t \in html
=============================================================================
