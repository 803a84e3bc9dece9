---------------------------- MODULE FormValidation ----------------------------
(***************************************************************************)
(* The validation of the playground's forms in the browser: the script     *)
(* jquery.validate.unobtrusive.js turns the data-val attributes that the   *)
(* server renders into rules of jQuery Validate, which adds rules for the  *)
(* HTML attributes of an input, and shows what it finds.  One page with    *)
(* one form, from its load over edits, submits and resets to the server's  *)
(* answer, which is a page with that form again.                           *)
(*                                                                         *)
(* Event handlers run one at a time and to their end: each is one action.  *)
(*                                                                         *)
(* Abstractions.  A text is its length, and a number is counted in halves, *)
(* so that odd ones stand for decimal texts, as "1.5".  The order of rules *)
(* after "required" does not matter.  Left out are negative numbers and    *)
(* exponents, which both sides refuse, bounds with one end, which no model *)
(* of the playground has, inputs that are hidden or have no name, with     *)
(* which nothing is ever wrong, the summary, and what a text says: a list  *)
(* of nothing but separators counts as a blank one.                        *)
(***************************************************************************)
EXTENDS Integers, FiniteSets

CONSTANTS
    Fields,     \* the inputs of the form
    Decls,      \* what a model, its page and its controller may say of an input
    MaxLength,  \* bound on lengths
    MaxNumber   \* bound on numbers

Empty == -1     \* nothing in the field
Blank == -2     \* a text of one space
Garbage == -3   \* no number, in a number field
NoLimit == -1   \* the controller has no check of its own

ValuesOf(d) ==
    CASE d.kind = "text" -> {Empty, Blank} \cup 1..MaxLength
      [] d.kind = "number" -> {Empty, Garbage} \cup 0..MaxNumber
      [] d.kind = "checkbox" -> {0, 1}

(* Of an input, the model has annotations: checks, that it is required and *)
(* the bounds min and max of its length or number.  The controller may have*)
(* a limit, and the page an element for its message (span).  It is plain if*)
(* the page has it without the tag helper that renders data-val attributes.*)
ASSUME ConstantsAssumption ==
    /\ IsFiniteSet(Fields)
    /\ MaxLength \in Nat \ {0} /\ MaxNumber \in Nat \ {0}
    /\ \A d \in Decls :
        /\ d.kind \in {"text", "number", "checkbox"}
        /\ {d.span, d.plain} \subseteq BOOLEAN
        /\ d.checks \subseteq {"required", "bounds"}
        /\ {d.min, d.max} \subseteq Nat /\ d.limit \in Nat \cup {NoLimit}
        /\ d.initial \in ValuesOf(d)

(* What the playground has: every number has bounds and no checkbox, and a *)
(* limit; a text with bounds is required; a plain input is a text without. *)
ASSUME DeclsAssumption ==
    \A d \in Decls :
        /\ d.kind = "number" => "bounds" \in d.checks
        /\ d.kind # "number" => d.limit = NoLimit
        /\ d.kind = "checkbox" => "bounds" \notin d.checks
        /\ d.kind = "text" /\ "bounds" \in d.checks => "required" \in d.checks
        /\ d.plain => d.kind = "text" /\ "bounds" \notin d.checks /\ ~d.span

VARIABLES
    decl,       \* the declaration of each input
    form,       \* what its POST answers: a "redirect" unless refused, always
                \* the "view", or, for the plain "bulk" ones, always a redirect
    page,       \* "loading", "ready" or "posted"
    value,      \* what is in an input
    default,    \* what a reset puts there
    validator,  \* the rules of the form's jQuery validator, if it has one
    submitted,  \* names in validator.submitted
    invalid,    \* names in validator.invalid
    box,        \* the element data-valmsg-for an input: its class and text
    marked,     \* the inputs with class input-validation-error
    verdict     \* history: what the last check of an input found wrong

vars == <<decl, form, page, value, default, validator, submitted, invalid, box, marked,
          verdict>>
pageVars == <<decl, form, page, default, validator>>

-----------------------------------------------------------------------------
(* Rules, pairs of a name and a parameter. *)

NoRules == {}

(* The annotations that are data-val attributes of the input. *)
DataVal(d) == IF d.plain THEN {} ELSE d.checks

(* The adapters: what a data-val attribute adds. *)
Adapt(d, name) ==
    CASE name = "bounds" ->
            {<<IF d.kind = "text" THEN "rangelength" ELSE "range", <<d.min, d.max>>>>}
      [] name = "required" -> IF d.kind = "checkbox" THEN NoRules ELSE {<<"required", TRUE>>}

(* parseElement.  The rule __dummy__ is always there. *)
RulesOf(d) == {<<"__dummy__", TRUE>>} \cup UNION {Adapt(d, name) : name \in DataVal(d)}

(* Mutant: the pages' max is one that may not be reached. *)
HtmlBelow(d) ==
    CASE d.kind = "number" ->
            [min |-> d.min, max |-> (IF d.limit = NoLimit THEN d.max ELSE d.limit) - 1]
      [] d.kind = "text" /\ "bounds" \in DataVal(d) -> [maxlength |-> d.max]
      [] OTHER -> [a \in {} |-> 0]

(* HTML attributes of the input: the pages tell the bounds again, but for  *)
(* a number with a limit, which is its max.                                *)
Html(d) ==
    CASE d.kind = "number" ->
            [min |-> d.min, max |-> IF d.limit = NoLimit THEN d.max ELSE d.limit]
      [] d.kind = "text" /\ "bounds" \in DataVal(d) -> [maxlength |-> d.max]
      [] OTHER -> [a \in {} |-> 0]

AttributeRules(d) ==
    {<<a, Html(d)[a]>> : a \in DOMAIN Html(d)}
    \cup IF d.kind = "number" THEN {<<"number", TRUE>>} ELSE NoRules

StaticRules(f) == IF f \in DOMAIN validator.rules THEN validator.rules[f] ELSE NoRules

(* $(element).rules(): static rules override attribute rules. *)
Rules(f) ==
    IF validator.made
    THEN StaticRules(f) \cup {r \in AttributeRules(decl[f]) :
                                 \A s \in StaticRules(f) : s[1] # r[1]}
    ELSE NoRules

-----------------------------------------------------------------------------
(* jQuery Validate. *)

Optional(d, v) == v = IF d.kind = "checkbox" THEN 0 ELSE Empty

(* The number, or the length, that a rule looks at. *)
Measure(v) == IF v = Blank THEN 1 ELSE v

AtLeast(v, low) == v # Garbage /\ low <= Measure(v)
AtMost(v, high) == v # Garbage /\ Measure(v) <= high

Method(rule, param, v) ==
    CASE rule = "__dummy__" -> TRUE
      [] rule = "required" -> v # Empty
      [] rule = "number" -> v # Garbage
      [] rule = "min" -> AtLeast(v, param)
      [] rule \in {"max", "maxlength"} -> AtMost(v, param)
      [] rule \in {"range", "rangelength"} -> AtLeast(v, param[1]) /\ AtMost(v, param[2])

(* An empty field satisfies every rule but "required". *)
Failing(rules, d, v) ==
    {r \in rules : ~Method(r[1], r[2], v) /\ (Optional(d, v) => r[1] = "required")}

(* check(): the rule that fails; or "valid"; or "unknown" when there is no *)
(* rule, or the only rule of an empty field does not mind.                 *)
Check(f, v) ==
    LET rules == Rules(f)
        failing == {r[1] : r \in Failing(rules, decl[f], v)}
    IN  CASE "required" \in failing -> "required"
          [] failing # {} /\ "required" \notin failing -> CHOOSE r \in failing : TRUE
          [] failing = {} ->
                IF \/ rules = NoRules
                   \/ Cardinality(rules) = 1 /\ Optional(decl[f], v)
                      /\ rules # {<<"__dummy__", TRUE>>}
                THEN "unknown" ELSE "valid"

Fine == {"valid", "unknown"}

-----------------------------------------------------------------------------
(* What is shown. *)

OnError(d, b, message) == IF d.span THEN [class |-> "error", text |-> message] ELSE b

(* Mutant: the class stays. *)
OnSuccessText(d, b) == IF d.span THEN [b EXCEPT !.text = ""] ELSE b

OnSuccess(d, b) == IF d.span THEN [class |-> "valid", text |-> ""] ELSE b

(* showLabel finds no label of before, since onError has taken its class   *)
(* off, and places a new one, for a success too.                           *)
ShowLabel(d, b, found) ==
    CASE found = "unknown" -> b
      [] found = "valid" -> OnSuccess(d, OnError(d, b, ""))
      [] found \notin Fine -> OnError(d, b, found)

(* check() and showErrors() of the inputs F, whose values are v. *)
CheckAll(F, v) ==
    LET found == [f \in F |-> Check(f, v[f])]
        bad == {f \in F : found[f] \notin Fine}
    IN  /\ box' = [f \in Fields |->
                      IF f \in F THEN ShowLabel(decl[f], box[f], found[f]) ELSE box[f]]
        /\ marked' = (marked \ F) \cup bad
        /\ submitted' = submitted \cup bad
        /\ verdict' = [f \in Fields |->
                          IF f \in F /\ Rules(f) # NoRules
                          THEN IF f \in bad THEN found[f] ELSE "" ELSE verdict[f]]

CheckElement(f, v) == CheckAll({f}, v) /\ invalid' = invalid \cup {f}

CheckNothing == UNCHANGED <<submitted, invalid, box, marked, verdict>>

-----------------------------------------------------------------------------
(* The script's own operations. *)

Declared == {f \in Fields : DataVal(decl[f]) # {}}

(* parse(document), when the document is ready. *)
Parse ==
    /\ page = "loading" /\ page' = "ready"
    /\ validator' = IF Declared = {} THEN validator
                    ELSE [made |-> TRUE, rules |-> [f \in Declared |-> RulesOf(decl[f])]]
    /\ UNCHANGED <<decl, form, value, default>> /\ CheckNothing

(* Mutant: the input's own class is forgotten about. *)
OnResetBoxes ==
    /\ page = "ready"
    /\ value' = default
    /\ IF validator.made
       THEN /\ submitted' = {} /\ invalid' = {}
            /\ box' = [f \in Fields |-> [box[f] EXCEPT !.class = "valid"]]
            /\ verdict' = [f \in Fields |-> ""]
            /\ UNCHANGED marked
       ELSE CheckNothing
    /\ UNCHANGED pageVars

(* The reset event: onReset, then the browser puts the defaults back.  The *)
(* text of a message stays: only its class changes.                        *)
OnReset ==
    /\ page = "ready"
    /\ value' = default
    /\ IF validator.made
       THEN /\ submitted' = {} /\ invalid' = {}
            /\ box' = [f \in Fields |-> [box[f] EXCEPT !.class = "valid"]]
            /\ marked' = {f \in marked : Rules(f) = NoRules}
            /\ verdict' = [f \in Fields |-> ""]
       ELSE CheckNothing
    /\ UNCHANGED pageVars

-----------------------------------------------------------------------------
(* The user, the page's scripts and the server. *)

(* A number that is no integer. *)
Decimal(d, v) == d.kind = "number" /\ v % 2 = 1 /\ v # Garbage /\ v # Empty

(* A value put in by a script raises no event jQuery Validate listens to.  *)
(* The scripts fill texts; the slider that some numbers have fills in an   *)
(* integer between the number's own HTML bounds.                           *)
Fill(f, v) ==
    /\ page = "ready" /\ decl[f].kind # "checkbox"
    /\ decl[f].kind = "number" =>
          v \in Html(decl[f]).min .. Html(decl[f]).max /\ ~Decimal(decl[f], v)
    /\ value' = [value EXCEPT ![f] = v]
    /\ CheckNothing
    /\ UNCHANGED pageVars

(* A key: a field is looked at once it was found wrong or left.  No key    *)
(* makes a text longer than its maxlength.                                 *)
Type(f, v) ==
    /\ page = "ready" /\ decl[f].kind # "checkbox"
    /\ "maxlength" \in DOMAIN Html(decl[f]) => v <= Html(decl[f]).maxlength \/ v <= value[f]
    /\ value' = [value EXCEPT ![f] = v]
    /\ IF validator.made /\ f \in submitted \cup invalid
       THEN CheckElement(f, value') ELSE CheckNothing
    /\ UNCHANGED pageVars

Tick(f) ==
    /\ page = "ready" /\ decl[f].kind = "checkbox"
    /\ value' = [value EXCEPT ![f] = 1 - @]
    /\ IF validator.made /\ f \in submitted
       THEN CheckElement(f, value') ELSE CheckNothing
    /\ UNCHANGED pageVars

FocusOut(f) ==
    /\ page = "ready" /\ decl[f].kind # "checkbox"
    /\ validator.made
    /\ f \in submitted \/ ~Optional(decl[f], value[f])
    /\ CheckElement(f, value)
    /\ UNCHANGED value
    /\ UNCHANGED pageVars

(* The submit event: form(), and the request if it is valid. *)
Submit ==
    /\ page = "ready"
    /\ LET F == {f \in Fields : Rules(f) # NoRules}
           bad == {f \in F : Check(f, value[f]) \notin Fine}
       IN  /\ page' = IF bad = {} THEN "posted" ELSE "ready"
           /\ IF validator.made
              THEN CheckAll(F, value) /\ invalid' = bad
              ELSE CheckNothing
    /\ UNCHANGED <<decl, form, value, default, validator>>

(* What the browser posts: nothing for what is no number. *)
Posted(v) == IF v = Garbage THEN Empty ELSE v

(* Model binding, to int for a number and to null for a blank text, the    *)
(* annotations, and the controller's own check.                            *)
ServerAccepts(d, v) ==
    LET bound == IF v = Blank THEN Empty ELSE Posted(v)
    IN  \/ d.kind = "checkbox"
        \/ /\ ~Decimal(d, v)
           /\ "required" \in d.checks => bound # Empty
           /\ "bounds" \in d.checks /\ bound # Empty => d.min <= bound /\ bound <= d.max
           /\ d.limit # NoLimit /\ bound # Empty => bound <= d.limit

Refused == {f \in Fields : ~ServerAccepts(decl[f], value[f])}

(* Mutant: the scripts' state outlives the page. *)
RenderOverState(bad) ==
    /\ marked' = bad
    /\ verdict' = [f \in Fields |-> IF f \in bad THEN "server" ELSE ""]
    /\ box' = [f \in Fields |-> IF f \in bad /\ decl[f].span
                                THEN [class |-> "error", text |-> "server"]
                                ELSE [class |-> "valid", text |-> ""]]
    /\ UNCHANGED <<validator, submitted, invalid>>

(* What the server renders, with the errors it has found. *)
Render(bad) ==
    /\ validator' = [made |-> FALSE, rules |-> [f \in {} |-> NoRules]]
    /\ submitted' = {} /\ invalid' = {}
    /\ marked' = bad
    /\ verdict' = [f \in Fields |-> IF f \in bad THEN "server" ELSE ""]
    /\ box' = [f \in Fields |-> IF f \in bad /\ decl[f].span
                                THEN [class |-> "error", text |-> "server"]
                                ELSE [class |-> "valid", text |-> ""]]

(* A view shows what was posted; a redirect leads to a new form. *)
Answer ==
    /\ page = "posted"
    /\ page' = "loading"
    /\ LET bad == IF form = "bulk" THEN {} ELSE Refused
       IN  /\ Render(bad)
           /\ value' = [f \in Fields |-> IF form = "view" \/ bad # {} THEN Posted(value[f])
                                         ELSE decl[f].initial]
    /\ default' = value'
    /\ UNCHANGED <<decl, form>>

Init ==
    /\ decl \in [Fields -> Decls]
    /\ form \in {"redirect", "view", "bulk"}
    /\ \A f \in Fields : decl[f].plain <=> form = "bulk"
    /\ page = "loading"
    /\ value = [f \in Fields |-> decl[f].initial]
    /\ default = value
    /\ validator = [made |-> FALSE, rules |-> [f \in {} |-> NoRules]]
    /\ submitted = {} /\ invalid = {}
    /\ box = [f \in Fields |-> [class |-> "valid", text |-> ""]]
    /\ marked = {}
    /\ verdict = [f \in Fields |-> ""]

Next ==
    \/ Parse \/ OnReset \/ Submit \/ Answer
    \/ \E f \in Fields :
        \/ Tick(f) \/ FocusOut(f)
        \/ \E v \in ValuesOf(decl[f]) : Fill(f, v) \/ Type(f, v)

Spec == Init /\ [][Next]_vars

-----------------------------------------------------------------------------
(* Properties. *)

Message == {"", "server", "required", "number", "min", "max", "range", "maxlength",
            "rangelength"}

TypeOK ==
    /\ form \in {"redirect", "view", "bulk"}
    /\ page \in {"loading", "ready", "posted"}
    /\ \A f \in Fields : {value[f], default[f]} \subseteq ValuesOf(decl[f])
    /\ validator.made \in BOOLEAN /\ DOMAIN validator.rules \subseteq Fields
    /\ page = "loading" => ~validator.made
    /\ submitted \subseteq Fields /\ invalid \subseteq Fields /\ marked \subseteq Fields
    /\ box \in [Fields -> [class : {"valid", "error"}, text : Message]]
    /\ verdict \in [Fields -> Message]

(* The element beside an input shows an error as long as the input's last  *)
(* check, by the script or by the server, has failed, and shows that check's*)
(* message: across keys, fills, submits, resets and answers, and for the   *)
(* fields that may be left empty, for which __dummy__ is there.            *)
ShownIsFound ==
    \A f \in Fields : decl[f].span =>
        /\ box[f].class = "error" <=> verdict[f] # ""
        /\ box[f].class = "error" => box[f].text = verdict[f]

(* The element beside the input and the input itself, which different      *)
(* scripts bring up to date, agree.                                        *)
BoxAgreesWithInput ==
    \A f \in Fields : decl[f].span => (box[f].class = "error" <=> f \in marked)

(* A form the script lets through is refused by the server only for a      *)
(* blank text, which jQuery Validate takes for a value, for a decimal      *)
(* number, which its number rule takes and an int does not, or for a plain *)
(* input, of which the script knows nothing: the bounds told to the script *)
(* in two ways leave nothing out of what the annotations and the controller*)
(* check.                                                                  *)
LetThroughIsAccepted ==
    page = "posted" => \A f \in Refused :
        value[f] = Blank \/ Decimal(decl[f], value[f]) \/ decl[f].plain

(* The script finds fault with nothing the server would accept, but for a  *)
(* number field that holds no number, of which the server never hears: no  *)
(* bound that the page tells the script is narrower than the server's.     *)
NoStricterThanServer ==
    [][\A f \in Fields : verdict'[f] \notin {"", "server", verdict[f]} =>
           value'[f] = Garbage \/ ~ServerAccepts(decl[f], value'[f])]_vars

=============================================================================
