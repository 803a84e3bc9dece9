------------------------- MODULE FormValidationProofs -------------------------
(***************************************************************************)
(* Proofs about the validation of the playground's forms, for any number   *)
(* of inputs, any declarations that the assumptions allow and any bounds.  *)
(***************************************************************************)
EXTENDS FormValidation, FiniteSetTheorems, TLAPS

-----------------------------------------------------------------------------
(* Rules. *)

RuleNames == {"required", "number", "min", "max", "range", "maxlength", "rangelength"}

(* What rules() returns for an input that has data-val attributes. *)
AllRules(d) == RulesOf(d) \cup AttributeRules(d)

LEMMA Pairs == \A x, y : <<x, y>>[1] = x /\ <<x, y>>[2] = y
OBVIOUS

LEMMA KnownDecl ==
    ASSUME NEW d \in Decls
    PROVE  /\ d.kind \in {"text", "number", "checkbox"}
           /\ d.span \in BOOLEAN /\ d.plain \in BOOLEAN
           /\ d.checks \subseteq {"required", "bounds"}
           /\ d.min \in Nat /\ d.max \in Nat /\ d.limit \in Nat \cup {NoLimit}
           /\ d.initial \in ValuesOf(d)
BY ConstantsAssumption

(* The pages' min and max. *)
HtmlMax(d) == IF d.limit = NoLimit THEN d.max ELSE d.limit

(* The attributes' rules, kind by kind. *)
LEMMA AttributeRulesAre ==
    ASSUME NEW d \in Decls
    PROVE  AttributeRules(d) =
              CASE d.kind = "number" ->
                     {<<"min", d.min>>, <<"max", HtmlMax(d)>>} \cup {<<"number", TRUE>>}
                [] d.kind = "text" /\ "bounds" \in DataVal(d) -> {<<"maxlength", d.max>>}
                [] OTHER -> {}
<1>1. CASE d.kind = "number"
  <2>1. Html(d) = [min |-> d.min, max |-> HtmlMax(d)]
    BY <1>1 DEF Html, HtmlMax
  <2>2. DOMAIN Html(d) = {"min", "max"} /\ Html(d)["min"] = d.min /\ Html(d)["max"] = HtmlMax(d)
    BY <2>1
  <2>3. {<<a, Html(d)[a]>> : a \in DOMAIN Html(d)} = {<<"min", d.min>>, <<"max", HtmlMax(d)>>}
    BY <2>2
  <2> QED
    BY <1>1, <2>3 DEF AttributeRules
<1>2. CASE d.kind = "text" /\ "bounds" \in DataVal(d)
  <2>1. Html(d) = [maxlength |-> d.max]
    BY <1>2 DEF Html
  <2>2. DOMAIN Html(d) = {"maxlength"} /\ Html(d)["maxlength"] = d.max
    BY <2>1
  <2>3. {<<a, Html(d)[a]>> : a \in DOMAIN Html(d)} = {<<"maxlength", d.max>>}
    BY <2>2
  <2> QED
    BY <1>2, <2>3 DEF AttributeRules, NoRules
<1>3. CASE d.kind # "number" /\ ~(d.kind = "text" /\ "bounds" \in DataVal(d))
  <2>1. DOMAIN Html(d) = {}
    BY <1>3 DEF Html
  <2> QED
    BY <1>3, <2>1 DEF AttributeRules, NoRules
<1> QED
  BY <1>1, <1>2, <1>3

(* The static rules. *)
LEMMA StaticRulesAre ==
    ASSUME NEW d \in Decls
    PROVE  \A r : r \in RulesOf(d) <=>
              \/ r = <<"__dummy__", TRUE>>
              \/ r = <<"required", TRUE>> /\ "required" \in DataVal(d) /\ d.kind # "checkbox"
              \/ r = <<"rangelength", <<d.min, d.max>>>> /\ "bounds" \in DataVal(d)
                 /\ d.kind = "text"
              \/ r = <<"range", <<d.min, d.max>>>> /\ "bounds" \in DataVal(d)
                 /\ d.kind # "text"
<1> SUFFICES ASSUME NEW r
             PROVE  r \in RulesOf(d) <=>
              \/ r = <<"__dummy__", TRUE>>
              \/ r = <<"required", TRUE>> /\ "required" \in DataVal(d) /\ d.kind # "checkbox"
              \/ r = <<"rangelength", <<d.min, d.max>>>> /\ "bounds" \in DataVal(d)
                 /\ d.kind = "text"
              \/ r = <<"range", <<d.min, d.max>>>> /\ "bounds" \in DataVal(d)
                 /\ d.kind # "text"
  OBVIOUS
<1>1. DataVal(d) \subseteq {"required", "bounds"}
  BY KnownDecl DEF DataVal
<1>2. r \in RulesOf(d) <=> r = <<"__dummy__", TRUE>> \/ \E a \in DataVal(d) : r \in Adapt(d, a)
  BY DEF RulesOf
<1>3. r \in Adapt(d, "required") <=> r = <<"required", TRUE>> /\ d.kind # "checkbox"
  BY DEF Adapt, NoRules
<1>4. r \in Adapt(d, "bounds") <=>
         r = <<IF d.kind = "text" THEN "rangelength" ELSE "range", <<d.min, d.max>>>>
  BY DEF Adapt
<1> QED
  BY <1>1, <1>2, <1>3, <1>4

(* Every rule of an input, static or not. *)
LEMMA RulesAre ==
    ASSUME NEW d \in Decls, NEW r \in AllRules(d)
    PROVE  \/ r = <<"__dummy__", TRUE>>
           \/ r = <<"required", TRUE>> /\ "required" \in DataVal(d) /\ d.kind # "checkbox"
           \/ r = <<"rangelength", <<d.min, d.max>>>> /\ "bounds" \in DataVal(d)
           \/ r = <<"maxlength", d.max>> /\ "bounds" \in DataVal(d)
           \/ r = <<"range", <<d.min, d.max>>>> /\ "bounds" \in DataVal(d)
           \/ r = <<"number", TRUE>> /\ d.kind = "number"
           \/ r = <<"min", d.min>> /\ d.kind = "number"
           \/ r = <<"max", HtmlMax(d)>> /\ d.kind = "number"
<1>1. CASE r \in RulesOf(d)
  BY <1>1, StaticRulesAre
<1>2. CASE r \in AttributeRules(d)
  BY <1>2, AttributeRulesAre
<1> QED
  BY <1>1, <1>2 DEF AllRules

(* The name and the parameter of a rule. *)
LEMMA RulesHaveParts ==
    ASSUME NEW d \in Decls, NEW r \in AllRules(d)
    PROVE  \/ r[1] = "__dummy__" /\ r[2] = TRUE
           \/ r[1] = "required" /\ r[2] = TRUE /\ "required" \in DataVal(d)
              /\ d.kind # "checkbox"
           \/ r[1] = "rangelength" /\ r[2] = <<d.min, d.max>> /\ "bounds" \in DataVal(d)
           \/ r[1] = "maxlength" /\ r[2] = d.max /\ "bounds" \in DataVal(d)
           \/ r[1] = "range" /\ r[2] = <<d.min, d.max>> /\ "bounds" \in DataVal(d)
           \/ r[1] = "number" /\ r[2] = TRUE /\ d.kind = "number"
           \/ r[1] = "min" /\ r[2] = d.min /\ d.kind = "number"
           \/ r[1] = "max" /\ r[2] = HtmlMax(d) /\ d.kind = "number"
<1>1. CASE r = <<"__dummy__", TRUE>>
  BY <1>1
<1>2. CASE r = <<"required", TRUE>> /\ "required" \in DataVal(d) /\ d.kind # "checkbox"
  BY <1>2
<1>3. CASE r = <<"rangelength", <<d.min, d.max>>>> /\ "bounds" \in DataVal(d)
  BY <1>3
<1>4. CASE r = <<"maxlength", d.max>> /\ "bounds" \in DataVal(d)
  BY <1>4
<1>5. CASE r = <<"range", <<d.min, d.max>>>> /\ "bounds" \in DataVal(d)
  BY <1>5
<1>6. CASE r = <<"number", TRUE>> /\ d.kind = "number"
  BY <1>6
<1>7. CASE r = <<"min", d.min>> /\ d.kind = "number"
  BY <1>7
<1>8. CASE r = <<"max", HtmlMax(d)>> /\ d.kind = "number"
  BY <1>8
<1> QED
  BY <1>1, <1>2, <1>3, <1>4, <1>5, <1>6, <1>7, <1>8, RulesAre

(* No static rule has the name of an attribute rule. *)
LEMMA NamesDiffer ==
    ASSUME NEW d \in Decls, NEW s \in RulesOf(d), NEW r \in AttributeRules(d)
    PROVE  s[1] # r[1]
<1> DEFINE static == {"__dummy__", "required", "rangelength", "range"}
           other == {"min", "max", "number", "maxlength"}
<1>1. s[1] \in static
  <2>1. CASE s = <<"__dummy__", TRUE>>
    BY <2>1
  <2>2. CASE s = <<"required", TRUE>>
    BY <2>2
  <2>3. CASE s = <<"rangelength", <<d.min, d.max>>>>
    BY <2>3
  <2>4. CASE s = <<"range", <<d.min, d.max>>>>
    BY <2>4
  <2> HIDE DEF static
  <2> QED
    BY <2>1, <2>2, <2>3, <2>4, StaticRulesAre
<1>2. r[1] \in other
  <2>1. CASE r = <<"min", d.min>>
    BY <2>1
  <2>2. CASE r = <<"max", HtmlMax(d)>>
    BY <2>2
  <2>3. CASE r = <<"number", TRUE>>
    BY <2>3
  <2>4. CASE r = <<"maxlength", d.max>>
    BY <2>4
  <2> HIDE DEF other
  <2> QED
    BY <2>1, <2>2, <2>3, <2>4, AttributeRulesAre
<1> QED
  BY <1>1, <1>2

LEMMA RulesFinite ==
    ASSUME NEW d \in Decls
    PROVE  IsFiniteSet(AllRules(d))
<1> DEFINE S == {<<"__dummy__", TRUE>>} \cup {<<"required", TRUE>>}
           B == {<<"rangelength", <<d.min, d.max>>>>} \cup {<<"range", <<d.min, d.max>>>>}
           A == {<<"min", d.min>>} \cup {<<"max", HtmlMax(d)>>}
           C == {<<"number", TRUE>>} \cup {<<"maxlength", d.max>>}
<1>1. \A x, y : IsFiniteSet({x} \cup {y})
  BY FS_Singleton, FS_Union
<1>2. IsFiniteSet(S) /\ IsFiniteSet(B) /\ IsFiniteSet(A) /\ IsFiniteSet(C)
  BY <1>1
<1>3. AllRules(d) \subseteq (S \cup B) \cup (A \cup C)
  BY RulesAre
<1> HIDE DEF S, B, A, C
<1>4. IsFiniteSet((S \cup B) \cup (A \cup C))
  BY <1>2, FS_Union
<1> QED
  BY <1>3, <1>4, FS_Subset

(* The names that a failing rule may have.                                 *)
LEMMA FailingAreNamed ==
    ASSUME NEW d \in Decls, NEW v, NEW r \in Failing(AllRules(d), d, v)
    PROVE  r[1] \in RuleNames
<1>1. r \in AllRules(d) /\ ~Method(r[1], r[2], v)
  BY DEF Failing
<1>2. r[1] # "__dummy__"
  BY <1>1 DEF Method
<1> QED
  BY <1>1, <1>2, RulesHaveParts DEF RuleNames

-----------------------------------------------------------------------------
(* The script and the server. *)

LEMMA ValuesAreNumbers ==
    ASSUME NEW d \in Decls, NEW v \in ValuesOf(d)
    PROVE  /\ v \in {Empty, Blank, Garbage} \cup Nat
           /\ v = Blank => d.kind = "text"
           /\ v = Garbage => d.kind = "number"
           /\ v = Empty => d.kind # "checkbox"
<1>1. MaxLength \in Nat \ {0} /\ MaxNumber \in Nat \ {0}
  BY ConstantsAssumption
<1> QED
  BY <1>1, KnownDecl DEF ValuesOf, Empty, Blank, Garbage

(* What a rule asks of a value that is not one of the special ones. *)
LEMMA MethodsMean ==
    ASSUME NEW v \in Nat, NEW low \in Nat, NEW high \in Nat
    PROVE  /\ Method("required", TRUE, v) /\ Method("number", TRUE, v)
           /\ Method("min", low, v) <=> low <= v
           /\ Method("max", high, v) <=> v <= high
           /\ Method("maxlength", high, v) <=> v <= high
           /\ Method("range", <<low, high>>, v) <=> low <= v /\ v <= high
           /\ Method("rangelength", <<low, high>>, v) <=> low <= v /\ v <= high
<1>1. v # Empty /\ v # Garbage /\ v # Blank
  BY DEF Empty, Garbage, Blank
<1>2. Measure(v) = v
  BY <1>1 DEF Measure
<1> QED
  BY <1>1, <1>2, Pairs DEF Method, AtLeast, AtMost

(* What the script finds wrong in a value is wrong for the server, too.    *)
LEMMA FailingIsRefused ==
    ASSUME NEW d \in Decls, NEW v \in ValuesOf(d), Failing(AllRules(d), d, v) # {}
    PROVE  v = Garbage \/ ~ServerAccepts(d, v)
<1>1. PICK r \in AllRules(d) : ~Method(r[1], r[2], v) /\ (Optional(d, v) => r[1] = "required")
  BY DEF Failing
<1> SUFFICES ASSUME v # Garbage PROVE ~ServerAccepts(d, v)
  OBVIOUS
<1>2. DataVal(d) \subseteq d.checks
  BY DEF DataVal
<1>3. CASE r[1] = "__dummy__" \/ r[1] = "number"
  <2>1. Method(r[1], r[2], v)
    BY <1>3 DEF Method
  <2> QED
    BY <1>1, <2>1
<1>4. CASE r[1] = "required"
  <2>1. v = Empty
    BY <1>1, <1>4 DEF Method
  <2>2. Posted(v) = Empty /\ v # Blank
    BY <2>1 DEF Posted, Empty, Garbage, Blank
  <2>3. "required" \in DataVal(d) /\ d.kind # "checkbox"
    BY <1>4, RulesHaveParts
  <2> QED
    BY <1>2, <2>2, <2>3 DEF ServerAccepts
<1>5. CASE r[1] \notin {"__dummy__", "number", "required"}
  <2>1. "bounds" \in d.checks
    BY <1>2, <1>5, RulesHaveParts, DeclsAssumption
  <2>2. d.kind # "checkbox"
    BY <2>1, DeclsAssumption
  <2>3. v # Empty
    BY <1>1, <1>5, <2>2 DEF Optional
  <2>4. CASE v = Blank
    <3>1. d.kind = "text"
      BY <2>4, ValuesAreNumbers
    <3>2. "required" \in d.checks
      BY <2>1, <3>1, DeclsAssumption
    <3> QED
      BY <2>2, <2>4, <3>2 DEF ServerAccepts
  <2>5. CASE v # Blank
    <3>1. v \in Nat /\ Posted(v) = v
      BY <2>3, <2>5, ValuesAreNumbers DEF Posted
    <3>2. d.min \in Nat /\ d.max \in Nat /\ d.limit \in Nat \cup {NoLimit}
      BY KnownDecl
    <3>3. HtmlMax(d) = d.max \/ (d.limit # NoLimit /\ HtmlMax(d) = d.limit)
      BY DEF HtmlMax
    <3>4. HtmlMax(d) \in Nat
      BY <3>2, <3>3
    <3>5. /\ r[1] \in {"range", "rangelength"} => ~(d.min <= v /\ v <= d.max)
          /\ r[1] = "maxlength" => ~(v <= d.max)
          /\ r[1] = "min" => ~(d.min <= v)
          /\ r[1] = "max" => ~(v <= HtmlMax(d))
      <4>1. r[1] \in {"range", "rangelength"} => r[2] = <<d.min, d.max>>
        BY RulesHaveParts
      <4>2. /\ r[1] = "maxlength" => r[2] = d.max
            /\ r[1] = "min" => r[2] = d.min
            /\ r[1] = "max" => r[2] = HtmlMax(d)
        BY RulesHaveParts
      <4>3. /\ Method("range", <<d.min, d.max>>, v) <=> d.min <= v /\ v <= d.max
            /\ Method("rangelength", <<d.min, d.max>>, v) <=> d.min <= v /\ v <= d.max
            /\ Method("maxlength", d.max, v) <=> v <= d.max
            /\ Method("min", d.min, v) <=> d.min <= v
            /\ Method("max", HtmlMax(d), v) <=> v <= HtmlMax(d)
        BY <3>1, <3>2, <3>4, MethodsMean
      <4> QED
        BY <1>1, <4>1, <4>2, <4>3
    <3>6. r[1] \in {"range", "rangelength", "maxlength", "min", "max"}
      BY <1>5, RulesHaveParts
    <3>7. ~(d.min <= v /\ v <= d.max) \/ (d.limit # NoLimit /\ ~(v <= d.limit))
      BY <3>3, <3>5, <3>6
    <3> QED
      BY <2>1, <2>2, <2>3, <2>5, <3>1, <3>7 DEF ServerAccepts
  <2> QED
    BY <2>4, <2>5
<1> QED
  BY <1>3, <1>4, <1>5

(* What the script lets through is fine for the server, but for a blank, a *)
(* decimal number and a plain input.                                       *)
LEMMA RefusedIsFailing ==
    ASSUME NEW d \in Decls, NEW v \in ValuesOf(d), ~d.plain,
           Failing(AllRules(d), d, v) = {}, ~ServerAccepts(d, v)
    PROVE  v = Blank \/ Decimal(d, v)
<1> SUFFICES ASSUME v # Blank, ~Decimal(d, v) PROVE FALSE
  OBVIOUS
<1>1. \A r \in AllRules(d) : Method(r[1], r[2], v) \/ (Optional(d, v) /\ r[1] # "required")
  BY DEF Failing
<1>2. d.kind # "checkbox" /\ DataVal(d) = d.checks
  BY DEF ServerAccepts, DataVal
<1>3. Optional(d, v) <=> v = Empty
  BY <1>2 DEF Optional
<1>4. "required" \in d.checks => v # Empty
  <2> SUFFICES ASSUME "required" \in d.checks PROVE v # Empty
    OBVIOUS
  <2>1. <<"required", TRUE>> \in AllRules(d)
    BY <1>2, StaticRulesAre DEF AllRules
  <2>2. Method("required", TRUE, v)
    BY <1>1, <2>1, Pairs
  <2> QED
    BY <2>2 DEF Method
<1>5. d.kind = "number" =>
         {<<"number", TRUE>>, <<"max", HtmlMax(d)>>} \subseteq AllRules(d)
  BY AttributeRulesAre DEF AllRules
<1>6. v # Garbage
  <2> SUFFICES ASSUME v = Garbage PROVE FALSE
    OBVIOUS
  <2>1. d.kind = "number" /\ v # Empty
    BY ValuesAreNumbers DEF Garbage, Empty
  <2>2. Method("number", TRUE, v)
    BY <1>1, <1>3, <1>5, <2>1, Pairs
  <2> QED
    BY <2>2 DEF Method
<1>7. v # Empty /\ Posted(v) = v
  BY <1>2, <1>4, <1>6 DEF ServerAccepts, Posted
<1>8. v \in Nat
  BY <1>6, <1>7, ValuesAreNumbers
<1>9. \A r \in AllRules(d) : Method(r[1], r[2], v)
  BY <1>1, <1>3, <1>7
<1>10. d.min \in Nat /\ d.max \in Nat /\ d.limit \in Nat \cup {NoLimit}
  BY KnownDecl
<1>11. CASE "bounds" \in d.checks /\ ~(d.min <= v /\ v <= d.max)
  <2>1. \/ <<"rangelength", <<d.min, d.max>>>> \in AllRules(d)
        \/ <<"range", <<d.min, d.max>>>> \in AllRules(d)
    BY <1>2, <1>11, StaticRulesAre DEF AllRules
  <2>2. \/ Method("rangelength", <<d.min, d.max>>, v)
        \/ Method("range", <<d.min, d.max>>, v)
    BY <1>9, <2>1, Pairs
  <2> QED
    BY <1>8, <1>10, <1>11, <2>2, MethodsMean
<1>12. CASE d.limit # NoLimit /\ ~(v <= d.limit)
  <2>1. d.kind = "number" /\ HtmlMax(d) = d.limit /\ d.limit \in Nat
    BY <1>10, <1>12, DeclsAssumption DEF HtmlMax
  <2>2. Method("max", d.limit, v)
    BY <1>5, <1>9, <2>1, Pairs
  <2> QED
    BY <1>8, <1>12, <2>1, <2>2, MethodsMean
<1> QED
  BY <1>2, <1>7, <1>11, <1>12 DEF ServerAccepts

-----------------------------------------------------------------------------
(* The invariant: what is shown comes from what was checked, with the     *)
(* rules of the declarations.                                              *)

(* The validator exists, from the parse on, if an input has data-val       *)
(* attributes, and has the rules of those that do.                         *)
Parsed ==
    /\ decl \in [Fields -> Decls]
    /\ form \in {"redirect", "view", "bulk"}
    /\ \A f \in Fields : decl[f].plain <=> form = "bulk"
    /\ page \in {"loading", "ready", "posted"}
    /\ validator.made <=> page # "loading" /\ Declared # {}
    /\ validator.made \in BOOLEAN
    /\ DOMAIN validator.rules = IF validator.made THEN Declared ELSE {}
    /\ \A f \in DOMAIN validator.rules : validator.rules[f] = RulesOf(decl[f])

Filled == \A f \in Fields : {value[f], default[f]} \subseteq ValuesOf(decl[f])

(* An input that is shown to be wrong is one with rules, and its box shows *)
(* so.                                                                     *)
Shown ==
    /\ box \in [Fields -> [class : {"valid", "error"}, text : Message]]
    /\ verdict \in [Fields -> Message]
    /\ submitted \subseteq Fields /\ invalid \subseteq Fields
    /\ ShownIsFound
    /\ BoxAgreesWithInput
    /\ marked \subseteq Declared

(* What is on its way to the server has passed all the rules there are.    *)
Passed ==
    page = "posted" => \A f \in Declared :
                          Failing(AllRules(decl[f]), decl[f], value[f]) = {}

FormInv == Parsed /\ Filled /\ Shown /\ Passed

-----------------------------------------------------------------------------
(* A check, and what it shows. *)

Box == [class : {"valid", "error"}, text : Message]

(* The static and the attribute rules of an input, once they are parsed.   *)
LEMMA RulesFound ==
    ASSUME Parsed, page # "loading", NEW f \in Fields
    PROVE  /\ decl[f] \in Decls
           /\ Rules(f) = IF f \in Declared THEN AllRules(decl[f]) ELSE NoRules
<1>1. decl[f] \in Decls /\ Declared \subseteq Fields
  BY DEF Parsed, Declared
<1>2. CASE f \in Declared
  <2>1. validator.made /\ f \in DOMAIN validator.rules
    BY <1>2 DEF Parsed
  <2>2. StaticRules(f) = RulesOf(decl[f])
    BY <2>1 DEF StaticRules, Parsed
  <2>3. Rules(f) = RulesOf(decl[f]) \cup {r \in AttributeRules(decl[f]) :
                                             \A s \in RulesOf(decl[f]) : s[1] # r[1]}
    BY <2>1, <2>2 DEF Rules
  <2>4. {r \in AttributeRules(decl[f]) : \A s \in RulesOf(decl[f]) : s[1] # r[1]} =
           AttributeRules(decl[f])
    BY <1>1, NamesDiffer
  <2> QED
    BY <1>1, <1>2, <2>3, <2>4 DEF AllRules
<1>3. CASE f \notin Declared
  <2>1. DataVal(decl[f]) = {}
    BY <1>3 DEF Declared
  <2>2. decl[f].kind # "number"
    BY <1>1, <2>1, DeclsAssumption DEF DataVal
  <2>3. AttributeRules(decl[f]) = {}
    BY <1>1, <2>1, <2>2, AttributeRulesAre
  <2>4. StaticRules(f) = {}
    BY <1>3 DEF StaticRules, Parsed, NoRules
  <2> QED
    BY <1>1, <1>3, <2>3, <2>4 DEF Rules, NoRules
<1> QED
  BY <1>2, <1>3

LEMMA CheckFinds ==
    ASSUME Parsed, page = "ready", NEW f \in Fields, NEW v
    PROVE  /\ decl[f] \in Decls
           /\ f \notin Declared => Rules(f) = NoRules /\ Check(f, v) = "unknown"
           /\ f \in Declared =>
                 /\ Rules(f) # NoRules
                 /\ IF Failing(AllRules(decl[f]), decl[f], v) = {} THEN Check(f, v) = "valid"
                    ELSE Check(f, v) \in RuleNames
<1>1. decl[f] \in Decls
  BY DEF Parsed
<1>2. CASE f \notin Declared
  <2>1. Rules(f) = NoRules /\ Failing(NoRules, decl[f], v) = {}
    BY <1>2, RulesFound DEF Failing, NoRules
  <2> QED
    BY <1>1, <1>2, <2>1 DEF Check
<1>3. CASE f \in Declared
  <2> DEFINE rules == AllRules(decl[f])
             failing == {r[1] : r \in Failing(rules, decl[f], v)}
  <2>1. Rules(f) = rules
    BY <1>3, RulesFound
  <2>2. <<"__dummy__", TRUE>> \in rules
    BY <1>1, StaticRulesAre DEF AllRules
  <2>3. rules # NoRules
    BY <2>2 DEF NoRules
  <2>4. failing \subseteq RuleNames /\ (failing = {} <=> Failing(rules, decl[f], v) = {})
    BY <1>1, FailingAreNamed
  <2>5. Cardinality(rules) = 1 => rules = {<<"__dummy__", TRUE>>}
    <3> SUFFICES ASSUME Cardinality(rules) = 1 PROVE rules = {<<"__dummy__", TRUE>>}
      OBVIOUS
    <3>1. IsFiniteSet(rules)
      BY <1>1, RulesFinite
    <3>2. PICK x : rules = {x}
      BY <3>1, FS_Singleton
    <3> QED
      BY <2>2, <3>2
  <2>6. CASE failing = {}
    <3>1. "required" \notin failing
      BY <2>6
    <3>2. ~(\/ rules = NoRules
            \/ Cardinality(rules) = 1 /\ Optional(decl[f], v)
               /\ rules # {<<"__dummy__", TRUE>>})
      BY <2>3, <2>5
    <3> HIDE DEF rules, failing
    <3>3. Check(f, v) = "valid"
      <4>1. Check(f, v) = CASE "required" \in failing -> "required"
                            [] failing # {} /\ "required" \notin failing ->
                                  CHOOSE r \in failing : TRUE
                            [] failing = {} ->
                                  IF \/ rules = NoRules
                                     \/ Cardinality(rules) = 1 /\ Optional(decl[f], v)
                                        /\ rules # {<<"__dummy__", TRUE>>}
                                  THEN "unknown" ELSE "valid"
        BY <2>1 DEF Check, failing, rules
      <4> QED
        BY <2>6, <3>1, <3>2, <4>1
    <3> QED
      BY <2>3, <2>4, <2>6, <3>3, <1>1, <1>3, <2>1 DEF rules
  <2>7. CASE failing # {}
    <3>1. Check(f, v) = IF "required" \in failing THEN "required" ELSE CHOOSE r \in failing : TRUE
      BY <2>1, <2>7 DEF Check
    <3>2. Check(f, v) \in failing
      BY <2>7, <3>1
    <3> QED
      BY <1>1, <1>3, <2>1, <2>3, <2>4, <2>7, <3>2
  <2> QED
    BY <1>1, <1>3, <2>1, <2>3, <2>4, <2>6, <2>7
<1> QED
  BY <1>2, <1>3

LEMMA LabelShows ==
    ASSUME NEW d \in Decls, NEW b \in Box, NEW found \in {"unknown", "valid"} \cup RuleNames
    PROVE  /\ ShowLabel(d, b, found) \in Box
           /\ found = "unknown" => ShowLabel(d, b, found) = b
           /\ found = "valid" /\ d.span => ShowLabel(d, b, found).class = "valid"
           /\ found \in RuleNames /\ d.span =>
                 /\ ShowLabel(d, b, found).class = "error"
                 /\ ShowLabel(d, b, found).text = found
<1>1. d.span \in BOOLEAN /\ RuleNames \cap Fine = {}
  BY KnownDecl DEF RuleNames, Fine
<1>2. RuleNames \cup {""} \subseteq Message
  BY DEF RuleNames, Message
<1>3. ASSUME NEW c \in Box, NEW m \in RuleNames \cup {""}
      PROVE  /\ OnError(d, c, m) \in Box
             /\ d.span => OnError(d, c, m).class = "error" /\ OnError(d, c, m).text = m
  BY <1>1, <1>2, <1>3 DEF OnError, Box
<1>4. ASSUME NEW c \in Box
      PROVE  /\ OnSuccess(d, c) \in Box
             /\ d.span => OnSuccess(d, c).class = "valid"
  BY <1>1, <1>2, <1>4 DEF OnSuccess, Box
<1>5. CASE found = "unknown"
  BY <1>1, <1>5 DEF ShowLabel, Fine
<1>6. CASE found = "valid"
  BY <1>1, <1>3, <1>4, <1>6 DEF ShowLabel, Fine, RuleNames
<1>7. CASE found \in RuleNames
  BY <1>1, <1>3, <1>7 DEF ShowLabel, Fine, RuleNames
<1> QED
  BY <1>5, <1>6, <1>7


(* What a check of the inputs F leaves: what is shown of each of them is   *)
(* what its rules say of its value.                                        *)
LEMMA CheckAllFinds ==
    ASSUME Parsed, Shown, page = "ready", NEW F \in SUBSET Fields, NEW v, CheckAll(F, v),
           NEW f \in Fields
    PROVE  /\ box'[f] \in Box /\ verdict'[f] \in Message
           /\ f \notin F \/ f \notin Declared =>
                 /\ box'[f] = box[f] /\ verdict'[f] = verdict[f]
                 /\ f \in marked' => f \in marked
                 /\ f \notin F => (f \in marked' <=> f \in marked)
           /\ f \in F /\ f \in Declared =>
                 IF Failing(AllRules(decl[f]), decl[f], v[f]) = {}
                 THEN /\ f \notin marked' /\ verdict'[f] = ""
                      /\ decl[f].span => box'[f].class = "valid"
                 ELSE /\ f \in marked' /\ verdict'[f] \in RuleNames
                      /\ decl[f].span => box'[f].class = "error" /\ box'[f].text = verdict'[f]
<1> DEFINE found == [e \in F |-> Check(e, v[e])]
           bad == {e \in F : found[e] \notin Fine}
<1>1. /\ box' = [e \in Fields |->
                    IF e \in F THEN ShowLabel(decl[e], box[e], found[e]) ELSE box[e]]
      /\ marked' = (marked \ F) \cup bad
      /\ verdict' = [e \in Fields |->
                        IF e \in F /\ Rules(e) # NoRules
                        THEN IF e \in bad THEN found[e] ELSE "" ELSE verdict[e]]
  BY DEF CheckAll
<1>2. /\ box'[f] = IF f \in F THEN ShowLabel(decl[f], box[f], found[f]) ELSE box[f]
      /\ verdict'[f] = IF f \in F /\ Rules(f) # NoRules
                       THEN IF f \in bad THEN found[f] ELSE "" ELSE verdict[f]
  BY <1>1
<1>3. box[f] \in Box /\ verdict[f] \in Message
  BY DEF Shown, Box
<1>4. f \in F => found[f] = Check(f, v[f])
  OBVIOUS
<1>5. f \in F => (f \in bad <=> found[f] \notin Fine)
  OBVIOUS
<1>6. f \in marked' <=> IF f \in F THEN f \in bad ELSE f \in marked
  BY <1>1
<1> HIDE DEF found, bad
<1>7. RuleNames \cap Fine = {} /\ {"valid", "unknown"} \subseteq Fine
      /\ RuleNames \cup {""} \subseteq Message
  BY DEF RuleNames, Fine, Message
<1>8. CASE f \notin F
  BY <1>2, <1>3, <1>6, <1>8
<1>9. CASE f \in F /\ f \notin Declared
  <2>1. Rules(f) = NoRules /\ found[f] = "unknown" /\ decl[f] \in Decls
    BY <1>4, <1>9, CheckFinds
  <2>2. ShowLabel(decl[f], box[f], found[f]) = box[f]
    BY <1>3, <2>1, LabelShows
  <2> QED
    BY <1>2, <1>3, <1>5, <1>6, <1>7, <1>9, <2>1, <2>2
<1>10. CASE f \in F /\ f \in Declared
  <2>1. /\ Rules(f) # NoRules /\ decl[f] \in Decls
        /\ IF Failing(AllRules(decl[f]), decl[f], v[f]) = {} THEN found[f] = "valid"
           ELSE found[f] \in RuleNames
    BY <1>4, <1>10, CheckFinds
  <2>2. box'[f] = ShowLabel(decl[f], box[f], found[f])
    BY <1>2, <1>10
  <2>3. CASE Failing(AllRules(decl[f]), decl[f], v[f]) = {}
    <3>1. found[f] = "valid" /\ f \notin bad
      BY <1>5, <1>7, <1>10, <2>1, <2>3
    <3>2. box'[f] \in Box /\ (decl[f].span => box'[f].class = "valid")
      BY <1>3, <2>1, <2>2, <3>1, LabelShows
    <3>3. verdict'[f] = "" /\ f \notin marked'
      BY <1>2, <1>6, <1>10, <2>1, <3>1
    <3> QED
      BY <1>7, <1>10, <2>3, <3>2, <3>3
  <2>4. CASE Failing(AllRules(decl[f]), decl[f], v[f]) # {}
    <3>1. found[f] \in RuleNames /\ f \in bad
      BY <1>5, <1>7, <1>10, <2>1, <2>4
    <3>2. verdict'[f] = found[f] /\ f \in marked'
      BY <1>2, <1>6, <1>10, <2>1, <3>1
    <3>3. /\ box'[f] \in Box
          /\ decl[f].span => box'[f].class = "error" /\ box'[f].text = found[f]
      <4> DEFINE shown == ShowLabel(decl[f], box[f], found[f])
      <4>1. /\ shown \in Box
            /\ decl[f].span => shown.class = "error" /\ shown.text = found[f]
        BY <1>3, <2>1, <3>1, LabelShows
      <4> HIDE DEF shown
      <4>2. box'[f] = shown
        BY <2>2 DEF shown
      <4> QED
        BY <4>1, <4>2
    <3> QED
      BY <1>7, <1>10, <2>4, <3>1, <3>2, <3>3
  <2> QED
    BY <2>3, <2>4
<1> QED
  BY <1>8, <1>9, <1>10

(* A check keeps what is shown in order.                                   *)
LEMMA CheckAllShows ==
    ASSUME Parsed, Shown, page = "ready", NEW F \in SUBSET Fields, NEW v, CheckAll(F, v),
           invalid' \subseteq Fields, UNCHANGED decl
    PROVE  Shown'
<1>1. /\ box' = [f \in Fields |-> box'[f]]
      /\ verdict' = [f \in Fields |-> verdict'[f]]
  BY DEF CheckAll
<1>2. box' \in [Fields -> Box] /\ verdict' \in [Fields -> Message]
  BY <1>1, CheckAllFinds
<1>3. marked' \subseteq Fields /\ submitted' \subseteq Fields
  <2>1. marked' \subseteq marked \cup F /\ submitted' \subseteq submitted \cup F
    BY DEF CheckAll
  <2> QED
    BY <2>1 DEF Shown, Declared
<1>4. marked' \subseteq Declared
  <2> SUFFICES ASSUME NEW f \in marked' PROVE f \in Declared
    OBVIOUS
  <2> QED
    BY <1>3, CheckAllFinds DEF Shown
<1>5. ASSUME NEW f \in Fields, decl[f].span
      PROVE  /\ box'[f].class = "error" <=> f \in marked'
             /\ box'[f].class = "error" <=> verdict'[f] # ""
             /\ box'[f].class = "error" => box'[f].text = verdict'[f]
  <2>1. /\ box[f].class = "error" <=> f \in marked
        /\ box[f].class = "error" <=> verdict[f] # ""
        /\ box[f].class = "error" => box[f].text = verdict[f]
    BY <1>5 DEF Shown, ShownIsFound, BoxAgreesWithInput
  <2>2. f \in marked => f \in Declared
    BY DEF Shown
  <2>3. "" \notin RuleNames
    BY DEF RuleNames
  <2> QED
    BY <1>5, <2>1, <2>2, <2>3, CheckAllFinds
<1> QED
  BY <1>2, <1>3, <1>4, <1>5 DEF Shown, ShownIsFound, BoxAgreesWithInput, Box, Declared


-----------------------------------------------------------------------------
(* The steps.  Every event but a parse, a submit and an answer leaves the  *)
(* page and its rules alone.                                               *)

LEMMA FormInit == Init => FormInv
<1> SUFFICES ASSUME Init PROVE FormInv
  OBVIOUS
<1> USE DEF Init
<1>1. Parsed
  BY DEF Parsed
<1>2. Filled
  <2> SUFFICES ASSUME NEW f \in Fields
               PROVE  value[f] \in ValuesOf(decl[f]) /\ default[f] \in ValuesOf(decl[f])
    BY DEF Filled
  <2>1. decl[f] \in Decls /\ value[f] = decl[f].initial /\ default[f] = decl[f].initial
    OBVIOUS
  <2> QED
    BY <2>1, KnownDecl
<1>3. Shown
  BY DEF Shown, ShownIsFound, BoxAgreesWithInput, Message
<1>4. Passed
  BY DEF Passed
<1> QED
  BY <1>1, <1>2, <1>3, <1>4 DEF FormInv

LEMMA DeclKept ==
    ASSUME [Next]_vars
    PROVE  UNCHANGED <<decl, form>>
BY DEF Next, vars, pageVars, Parse, OnReset, Submit, Answer, Tick, FocusOut, Fill, Type

LEMMA ParseParses ==
    ASSUME Parsed, Parse
    PROVE  Parsed'
<1>1. /\ page = "loading" /\ page' = "ready" /\ UNCHANGED <<decl, form>>
      /\ ~validator.made /\ Declared' = Declared
  BY DEF Parse, Parsed, Declared
<1>2. CASE Declared = {}
  <2>1. validator' = validator
    BY <1>2 DEF Parse
  <2> QED
    BY <1>1, <1>2, <2>1 DEF Parsed
<1>3. CASE Declared # {}
  <2>1. validator' = [made |-> TRUE, rules |-> [f \in Declared |-> RulesOf(decl[f])]]
    BY <1>3 DEF Parse
  <2>2. /\ validator'.made = TRUE
        /\ validator'.rules = [f \in Declared |-> RulesOf(decl[f])]
    BY <2>1
  <2>3. /\ DOMAIN validator'.rules = Declared
        /\ \A f \in Declared : validator'.rules[f] = RulesOf(decl[f])
    BY <2>2
  <2> QED
    BY <1>1, <1>3, <2>2, <2>3 DEF Parsed
<1> QED
  BY <1>2, <1>3

LEMMA ParsedStep ==
    ASSUME Parsed, [Next]_vars
    PROVE  Parsed'
<1>1. UNCHANGED <<decl, form>> /\ Declared' = Declared
  BY DeclKept DEF Declared
<1>2. CASE UNCHANGED pageVars
  BY <1>1, <1>2 DEF Parsed, pageVars
<1>3. CASE Submit
  <2>1. page = "ready" /\ page' \in {"ready", "posted"} /\ UNCHANGED validator
    BY <1>3 DEF Submit
  <2> QED
    BY <1>1, <2>1 DEF Parsed
<1>4. CASE Answer
  <2>1. page' = "loading" /\ validator' = [made |-> FALSE, rules |-> [f \in {} |-> NoRules]]
    BY <1>4 DEF Answer, Render
  <2>2. ~validator'.made /\ DOMAIN validator'.rules = {} /\ validator'.made \in BOOLEAN
    BY <2>1
  <2> QED
    BY <1>1, <2>1, <2>2 DEF Parsed
<1> QED
  BY <1>2, <1>3, <1>4, ParseParses
  DEF Next, vars, pageVars, OnReset, Tick, FocusOut, Fill, Type

LEMMA PostedFits ==
    ASSUME NEW d \in Decls, NEW v \in ValuesOf(d)
    PROVE  Posted(v) \in ValuesOf(d)
<1>1. v = Garbage => Empty \in ValuesOf(d)
  BY ValuesAreNumbers DEF ValuesOf
<1> QED
  BY <1>1 DEF Posted

LEMMA FilledStep ==
    ASSUME Parsed, Filled, [Next]_vars
    PROVE  Filled'
<1>1. \A f \in Fields : value[f] \in ValuesOf(decl[f]) /\ default[f] \in ValuesOf(decl[f])
  BY DEF Filled
<1>2. SUFFICES ASSUME NEW f \in Fields
               PROVE  value'[f] \in ValuesOf(decl[f]) /\ default'[f] \in ValuesOf(decl[f])
  BY DeclKept DEF Filled
<1>3. CASE UNCHANGED <<value, default>>
  BY <1>1, <1>3
<1>4. CASE OnReset
  BY <1>1, <1>4 DEF OnReset, pageVars
<1>5. ASSUME NEW e \in Fields, NEW v \in ValuesOf(decl[e]), Fill(e, v) \/ Type(e, v)
      PROVE  value'[f] \in ValuesOf(decl[f]) /\ default'[f] \in ValuesOf(decl[f])
  <2>1. value' = [value EXCEPT ![e] = v] /\ default' = default
    BY <1>5 DEF Fill, Type, pageVars
  <2> QED
    BY <1>1, <2>1
<1>6. ASSUME NEW e \in Fields, Tick(e)
      PROVE  value'[f] \in ValuesOf(decl[f]) /\ default'[f] \in ValuesOf(decl[f])
  <2>1. value' = [value EXCEPT ![e] = 1 - @] /\ default' = default /\ decl[e].kind = "checkbox"
    BY <1>6 DEF Tick, pageVars
  <2>2. value[e] \in {0, 1} /\ ValuesOf(decl[e]) = {0, 1}
    BY <1>1, <2>1 DEF ValuesOf
  <2> QED
    BY <1>1, <2>1, <2>2
<1>7. CASE Answer
  <2>1. /\ value'[f] = Posted(value[f]) \/ value'[f] = decl[f].initial
        /\ default' = value'
    BY <1>7 DEF Answer
  <2>2. decl[f].initial \in ValuesOf(decl[f]) /\ Posted(value[f]) \in ValuesOf(decl[f])
    BY <1>1, KnownDecl, PostedFits DEF Parsed
  <2> QED
    BY <2>1, <2>2
<1> QED
  BY <1>3, <1>4, <1>5, <1>6, <1>7 DEF Next, vars, pageVars, Parse, Submit, FocusOut


(* An input that the server refuses, and that is not plain, has data-val   *)
(* attributes.                                                             *)
LEMMA RefusedIsDeclared ==
    ASSUME NEW d \in Decls, NEW v \in ValuesOf(d), ~ServerAccepts(d, v), ~d.plain
    PROVE  DataVal(d) # {}
BY DeclsAssumption DEF ServerAccepts, DataVal, Decimal

LEMMA AnswerShows ==
    ASSUME Parsed, Filled, Answer
    PROVE  Shown'
<1>1. PICK bad : /\ bad = IF form = "bulk" THEN {} ELSE Refused
                 /\ Render(bad)
  BY DEF Answer
<1>2. /\ decl' = decl
      /\ submitted' = {} /\ invalid' = {} /\ marked' = bad
      /\ verdict' = [f \in Fields |-> IF f \in bad THEN "server" ELSE ""]
      /\ box' = [f \in Fields |-> IF f \in bad /\ decl[f].span
                                  THEN [class |-> "error", text |-> "server"]
                                  ELSE [class |-> "valid", text |-> ""]]
  BY <1>1 DEF Answer, Render
<1>3. bad \subseteq Declared
  <2> SUFFICES ASSUME NEW f \in bad PROVE f \in Declared
    OBVIOUS
  <2>1. f \in Fields /\ ~ServerAccepts(decl[f], value[f]) /\ form # "bulk"
    BY <1>1 DEF Refused
  <2>2. decl[f] \in Decls /\ value[f] \in ValuesOf(decl[f]) /\ ~decl[f].plain
    BY <2>1 DEF Parsed, Filled
  <2> QED
    BY <2>1, <2>2, RefusedIsDeclared DEF Declared
<1>4. {"", "server"} \subseteq Message
  BY DEF Message
<1>5. ASSUME NEW f \in Fields
      PROVE  /\ verdict'[f] = IF f \in bad THEN "server" ELSE ""
             /\ box'[f] = IF f \in bad /\ decl[f].span
                          THEN [class |-> "error", text |-> "server"]
                          ELSE [class |-> "valid", text |-> ""]
  BY <1>2
<1>6. ASSUME NEW f \in Fields, decl[f].span
      PROVE  /\ box'[f].class = "error" <=> f \in bad
             /\ box'[f].class = "error" <=> verdict'[f] # ""
             /\ box'[f].text = verdict'[f]
  <2>1. CASE f \in bad
    <3>1. box'[f] = [class |-> "error", text |-> "server"] /\ verdict'[f] = "server"
      BY <1>5, <1>6, <2>1
    <3> QED
      BY <2>1, <3>1
  <2>2. CASE f \notin bad
    <3>1. verdict'[f] = ""
      BY <1>5, <2>2
    <3>2. box'[f] = [class |-> "valid", text |-> verdict'[f]]
      BY <1>5, <2>2, <3>1
    <3>3. box'[f].class = "valid" /\ box'[f].text = verdict'[f]
      BY <3>2
    <3> QED
      BY <2>2, <3>1, <3>3
  <2> QED
    BY <2>1, <2>2
<1>7. verdict' \in [Fields -> Message] /\ box' \in [Fields -> Box]
  BY <1>2, <1>4 DEF Box
<1>8. ShownIsFound' /\ BoxAgreesWithInput'
  BY <1>2, <1>6 DEF ShownIsFound, BoxAgreesWithInput
<1>9. marked' \subseteq Declared'
  BY <1>2, <1>3 DEF Declared
<1> QED
  BY <1>2, <1>7, <1>8, <1>9 DEF Shown, Box

(* A reset takes the class of an input with its box's.                     *)
LEMMA ResetShows ==
    ASSUME Parsed, Shown, OnReset
    PROVE  Shown'
<1>1. page = "ready" /\ UNCHANGED decl /\ Declared' = Declared
  BY DEF OnReset, pageVars, Declared
<1>2. CASE ~validator.made
  <2>1. UNCHANGED <<submitted, invalid, box, marked, verdict>>
    BY <1>2 DEF OnReset, CheckNothing
  <2> QED
    BY <1>1, <2>1 DEF Shown, ShownIsFound, BoxAgreesWithInput
<1>3. CASE validator.made
  <2>1. /\ submitted' = {} /\ invalid' = {}
        /\ box' = [f \in Fields |-> [box[f] EXCEPT !.class = "valid"]]
        /\ marked' = {f \in marked : Rules(f) = NoRules}
        /\ verdict' = [f \in Fields |-> ""]
    BY <1>3 DEF OnReset
  <2>2. marked' = {}
    BY <1>1, <2>1, CheckFinds DEF Shown, Declared
  <2>3. ASSUME NEW f \in Fields PROVE box'[f] \in Box /\ box'[f].class = "valid"
    <3>1. box[f] \in Box /\ box'[f] = [box[f] EXCEPT !.class = "valid"]
      BY <2>1 DEF Shown, Box
    <3> QED
      BY <3>1 DEF Box
  <2>4. box' \in [Fields -> Box] /\ verdict' \in [Fields -> Message]
    BY <2>1, <2>3 DEF Message
  <2> QED
    BY <2>1, <2>2, <2>3, <2>4 DEF Shown, ShownIsFound, BoxAgreesWithInput, Box
<1> QED
  BY <1>2, <1>3

LEMMA ShownStep ==
    ASSUME Parsed, Filled, Shown, [Next]_vars
    PROVE  Shown'
<1>1. UNCHANGED decl /\ Declared' = Declared
  BY DeclKept DEF Declared
<1>2. CASE CheckNothing
  BY <1>1, <1>2 DEF CheckNothing, Shown, ShownIsFound, BoxAgreesWithInput
<1>3. ASSUME NEW f \in Fields, NEW v, CheckElement(f, v), page = "ready"
      PROVE  Shown'
  <2>1. CheckAll({f}, v) /\ invalid' = invalid \cup {f}
    BY <1>3 DEF CheckElement
  <2>2. invalid' \subseteq Fields /\ {f} \in SUBSET Fields
    BY <2>1 DEF Shown
  <2> QED
    BY <1>1, <1>3, <2>1, <2>2, CheckAllShows
<1>4. CASE UNCHANGED vars \/ Parse
  BY <1>2, <1>4 DEF vars, CheckNothing, Parse
<1>5. ASSUME NEW f \in Fields, NEW v \in ValuesOf(decl[f]), Fill(f, v) PROVE Shown'
  BY <1>2, <1>5 DEF Fill
<1>6. ASSUME NEW f \in Fields, NEW v \in ValuesOf(decl[f]), Type(f, v) PROVE Shown'
  <2>1. page = "ready" /\ (CheckElement(f, value') \/ CheckNothing)
    BY <1>6 DEF Type
  <2> QED
    BY <1>2, <1>3, <2>1
<1>7. ASSUME NEW f \in Fields, Tick(f) PROVE Shown'
  <2>1. page = "ready" /\ (CheckElement(f, value') \/ CheckNothing)
    BY <1>7 DEF Tick
  <2> QED
    BY <1>2, <1>3, <2>1
<1>8. ASSUME NEW f \in Fields, FocusOut(f) PROVE Shown'
  BY <1>3, <1>8 DEF FocusOut
<1>9. CASE Submit
  <2> DEFINE F == {f \in Fields : Rules(f) # NoRules}
             bad == {f \in F : Check(f, value[f]) \notin Fine}
  <2>1. page = "ready" /\ ((CheckAll(F, value) /\ invalid' = bad) \/ CheckNothing)
    BY <1>9 DEF Submit
  <2>2. CASE CheckAll(F, value) /\ invalid' = bad
    <3>1. F \in SUBSET Fields /\ bad \subseteq Fields
      OBVIOUS
    <3> HIDE DEF F, bad
    <3> QED
      BY <1>1, <2>1, <2>2, <3>1, CheckAllShows
  <2> QED
    BY <1>2, <2>1, <2>2
<1> QED
  BY <1>4, <1>5, <1>6, <1>7, <1>8, <1>9, ResetShows, AnswerShows DEF Next

(* A submit lets through what passes every rule.                           *)
LEMMA SubmitPasses ==
    ASSUME Parsed, Submit, page' = "posted", NEW f \in Declared
    PROVE  Failing(AllRules(decl[f]), decl[f], value[f]) = {}
<1> DEFINE F == {e \in Fields : Rules(e) # NoRules}
           bad == {e \in F : Check(e, value[e]) \notin Fine}
<1>1. bad = {} /\ page = "ready" /\ f \in Fields
  BY DEF Submit, Declared
<1>2. /\ Rules(f) # NoRules
      /\ IF Failing(AllRules(decl[f]), decl[f], value[f]) = {} THEN TRUE
         ELSE Check(f, value[f]) \in RuleNames
  BY <1>1, CheckFinds
<1>3. RuleNames \cap Fine = {}
  BY DEF RuleNames, Fine
<1> QED
  BY <1>1, <1>2, <1>3

LEMMA PassedStep ==
    ASSUME Parsed, Passed, [Next]_vars
    PROVE  Passed'
<1> SUFFICES ASSUME page' = "posted" PROVE Passed'
  BY DEF Passed
<1>1. decl' = decl /\ Declared' = Declared
  BY DeclKept DEF Declared
<1>2. CASE UNCHANGED vars
  BY <1>1, <1>2 DEF vars, Passed
<1>3. CASE Submit
  <2>1. UNCHANGED value
    BY <1>3 DEF Submit
  <2> QED
    BY <1>1, <1>3, <2>1, SubmitPasses DEF Passed
<1> QED
  BY <1>2, <1>3 DEF Next, Parse, OnReset, Answer, Tick, FocusOut, Fill, Type, pageVars

THEOREM FormInvariant == Spec => []FormInv
<1>1. Init => FormInv
  BY FormInit
<1>2. FormInv /\ [Next]_vars => FormInv'
  BY ParsedStep, FilledStep, ShownStep, PassedStep DEF FormInv
<1> QED
  BY <1>1, <1>2, PTL DEF Spec

-----------------------------------------------------------------------------
(* The properties. *)

(* Every variable of the form has its type; what an input holds is what    *)
(* inputs of its kind can hold, and a page that loads has no validator.    *)
THEOREM TypeCorrect == Spec => []TypeOK
<1>1. FormInv => TypeOK
  BY DEF FormInv, Parsed, Filled, Shown, TypeOK, Declared
<1> QED
  BY <1>1, FormInvariant, PTL

(* The message beside an input is that of its last check, whatever showed  *)
(* it (showErrors, onReset or the server).                                 *)
THEOREM MessagesAreFindings == Spec => []ShownIsFound
<1>1. FormInv => ShownIsFound
  BY DEF FormInv, Shown
<1> QED
  BY <1>1, FormInvariant, PTL

(* jQuery Validate's class on an input and the unobtrusive script's class  *)
(* on the element beside it agree.                                         *)
THEOREM BoxesFollowInputs == Spec => []BoxAgreesWithInput
<1>1. FormInv => BoxAgreesWithInput
  BY DEF FormInv, Shown
<1> QED
  BY <1>1, FormInvariant, PTL

(* A form that the script has let through (the submit handler of validate) *)
(* is refused only for a blank text, a decimal number or a plain input:    *)
(* data-val and HTML attributes together leave out nothing that the        *)
(* annotations and the controller check.                                   *)
THEOREM FewAreBounced == Spec => []LetThroughIsAccepted
<1>1. FormInv => LetThroughIsAccepted
  <2> SUFFICES ASSUME FormInv, page = "posted", NEW f \in Refused, ~decl[f].plain
               PROVE  value[f] = Blank \/ Decimal(decl[f], value[f])
    BY DEF LetThroughIsAccepted
  <2>1. f \in Fields /\ ~ServerAccepts(decl[f], value[f])
    BY DEF Refused
  <2>2. decl[f] \in Decls /\ value[f] \in ValuesOf(decl[f])
    BY <2>1 DEF FormInv, Parsed, Filled
  <2>3. f \in Declared
    BY <2>1, <2>2, RefusedIsDeclared DEF Declared
  <2>4. Failing(AllRules(decl[f]), decl[f], value[f]) = {}
    BY <2>3 DEF FormInv, Passed
  <2> QED
    BY <2>1, <2>2, <2>4, RefusedIsFailing
<1> QED
  BY <1>1, FormInvariant, PTL

(* Whatever check() newly finds wrong, by a rule of a data-val or of an    *)
(* HTML attribute, is a number field without a number, or a value that the *)
(* server refuses as well.                                                 *)
THEOREM ScriptIsNotStricter == Spec => NoStricterThanServer
<1> DEFINE Strict == \A f \in Fields : verdict'[f] \notin {"", "server", verdict[f]} =>
                        value'[f] = Garbage \/ ~ServerAccepts(decl[f], value'[f])
<1>1. FormInv /\ FormInv' /\ [Next]_vars => [Strict]_vars
  <2> SUFFICES ASSUME FormInv, FormInv', [Next]_vars, NEW f \in Fields,
                      verdict'[f] \notin {"", "server", verdict[f]}
               PROVE  value'[f] = Garbage \/ ~ServerAccepts(decl[f], value'[f])
    OBVIOUS
  <2>1. verdict' # verdict /\ ~CheckNothing
    BY DEF CheckNothing
  <2>2. ASSUME NEW F \in SUBSET Fields, CheckAll(F, value'), page = "ready"
        PROVE  value'[f] = Garbage \/ ~ServerAccepts(decl[f], value'[f])
    <3>1. f \in Declared /\ Failing(AllRules(decl[f]), decl[f], value'[f]) # {}
      BY <2>2, CheckAllFinds DEF FormInv
    <3>2. decl[f] \in Decls /\ decl' = decl
      BY DeclKept DEF FormInv, Parsed
    <3>3. value'[f] \in ValuesOf(decl[f])
      BY <3>2 DEF FormInv, Filled
    <3> QED
      BY <3>1, <3>2, <3>3, FailingIsRefused
  <2>3. ASSUME NEW e \in Fields, CheckElement(e, value'), page = "ready"
        PROVE  value'[f] = Garbage \/ ~ServerAccepts(decl[f], value'[f])
    <3>1. CheckAll({e}, value') /\ {e} \in SUBSET Fields
      BY <2>3 DEF CheckElement
    <3> QED
      BY <2>2, <2>3, <3>1
  <2>4. ASSUME NEW e \in Fields, NEW v \in ValuesOf(decl[e]), Type(e, v)
        PROVE  CheckElement(e, value') /\ page = "ready"
    BY <2>1, <2>4 DEF Type
  <2>5. ASSUME NEW e \in Fields, Tick(e) PROVE CheckElement(e, value') /\ page = "ready"
    BY <2>1, <2>5 DEF Tick
  <2>6. ASSUME NEW e \in Fields, FocusOut(e) PROVE CheckElement(e, value') /\ page = "ready"
    <3>1. CheckElement(e, value) /\ value' = value /\ page = "ready"
      BY <2>6 DEF FocusOut
    <3> QED
      BY <3>1
  <2>7. CASE Submit
    <3> DEFINE F == {e \in Fields : Rules(e) # NoRules}
    <3>1. CheckAll(F, value) /\ value' = value /\ page = "ready"
      BY <2>1, <2>7 DEF Submit
    <3>2. F \in SUBSET Fields
      OBVIOUS
    <3> HIDE DEF F
    <3>3. CheckAll(F, value')
      BY <3>1
    <3> QED
      BY <2>2, <3>1, <3>2, <3>3
  <2>8. ~Answer /\ ~OnReset
    <3>1. CASE Answer
      <4>1. verdict'[f] \in {"", "server"}
        BY <3>1 DEF Answer, Render
      <4> QED
        BY <4>1
    <3>2. CASE OnReset
      <4>1. verdict' = verdict \/ verdict'[f] = ""
        BY <3>2 DEF OnReset, CheckNothing
      <4> QED
        BY <4>1
    <3> QED
      BY <3>1, <3>2
  <2> QED
    BY <2>1, <2>3, <2>4, <2>5, <2>6, <2>7, <2>8 DEF Next, vars, Parse, Fill, CheckNothing
<1> QED
  BY <1>1, FormInvariant, PTL DEF Spec, NoStricterThanServer

=============================================================================
