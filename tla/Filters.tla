------------------------------ MODULE Filters ------------------------------
(***************************************************************************)
(* The named filters of library/filters.c: texts that may use each other's  *)
(* names, the marks of those that are to be used, and the expression they   *)
(* are compiled to, which restricts the library. filters_toggle_filter and  *)
(* filters_delete_filter are called from nowhere and left out.              *)
(***************************************************************************)
EXTENDS Expr, TLC

CONSTANTS
    Names,      \* what filters can be called, in the list's order
    Texts       \* what the user writes

VARIABLES
    entries,    \* of every filter [text, sel, act], sel_stat and act_stat
    compiled,   \* the library's filter, Nil if there is none
    since       \* for the properties: the texts when it was compiled

vars == <<entries, compiled, since>>

Filters == DOMAIN entries
Marks == {"ignore", "yes", "no"}

Init == entries = << >> /\ compiled = Nil /\ since = << >>

-----------------------------------------------------------------------------
(* Compiling: expr_check_leaves with get_filter. A result is                *)
(* [ok, v: the tree, at: the filters whose visited is set].                 *)

RECURSIVE CheckLeaves(_, _), Replacement(_, _)

\* faulty: what takes the place of a name is not looked at
ReplacementUnseen(key, seen) ==
    IF key \notin Filters \/ key \in seen THEN Fail
    ELSE Done(ExprParse(entries[key].text).v, seen \cup {key})

\* get_filter takes a filter that was seen before for a recursion
Replacement(key, seen) ==
    IF key \notin Filters \/ key \in seen THEN Fail
    ELSE CheckLeaves(ExprParse(entries[key].text).v, seen \cup {key})

CheckLeaves(t, seen) ==
    LET l == CheckLeaves(t[2], seen)
        r == CheckLeaves(t[3], l.at)
        isKnown == t[2] \in DOMAIN Builtin
        isOfItsKind == t[1] = IF isKnown THEN Builtin[t[2]] ELSE "bool"
    IN  CASE t[1] = "not" -> IF l.ok THEN Done(<<"not", l.v>>, l.at) ELSE Fail
          [] IsBinary(t) -> IF l.ok /\ r.ok THEN Done(<<t[1], l.v, r.v>>, r.at) ELSE Fail
          [] OTHER -> IF ~isOfItsKind THEN Fail
                      ELSE IF isKnown THEN Done(t, seen) ELSE Replacement(t[2], seen)

\* lib_set_filter
Compile(e) == compiled' = e /\ since' = [n \in Filters |-> entries[n].text]

-----------------------------------------------------------------------------
(* Operations. *)

\* filters_activate, once the marks are sel: nothing happens if they are those that are
\* active. Expression is what the library is given.
Changed(sel) == \E n \in Filters : entries[n].act # sel[n]
Expression(sel) ==
    LET selected == SelectSeq(Names, LAMBDA n : n \in Filters /\ sel[n] # "ignore")
        Term(n) == LET e == ExprParse(entries[n].text).v
                   IN  IF sel[n] = "no" THEN <<"not", e>> ELSE e
        And(e, n) == IF e = Nil THEN Term(n) ELSE <<"and", e, Term(n)>>
        expr == FoldLeft(And, Nil, selected)
    IN  IF expr = Nil THEN Done(Nil, {}) ELSE CheckLeaves(expr, ToSet(selected))
Activate(sel) ==
    LET checked == Expression(sel)
        done == Changed(sel) /\ checked.ok
        Marked(n) == [entries[n] EXCEPT !.sel = sel[n], !.act = IF done THEN sel[n] ELSE @]
    IN  /\ entries' = [n \in Filters |-> Marked(n)]
        /\ IF done THEN Compile(checked.v) ELSE UNCHANGED <<compiled, since>>

\* filters_activate_names: nothing happens if a name is unknown
ActivateNames ==
    \E yes, no \in SUBSET Filters :
        yes \cap no = {} /\ Activate([n \in Filters |-> CASE n \in yes -> "yes" [] n \in no -> "no"
                                                          [] OTHER -> "ignore"])

\* faulty: the new text keeps the mark of the one it replaces
SetFilterKeepsActive ==
    \E n \in ToSet(Names), text \in Texts :
        /\ ExprParse(text).ok
        /\ LET was == IF n \in Filters THEN entries[n] ELSE [sel |-> "ignore", act |-> "ignore"]
           IN  entries' = n :> [text |-> text, sel |-> was.sel, act |-> was.act] @@ entries
        /\ UNCHANGED <<compiled, since>>

\* do_filters_set_filter: what replaces a filter is selected like it, but not active
SetFilter ==
    \E n \in ToSet(Names), text \in Texts :
        /\ ExprParse(text).ok
        /\ LET sel == IF n \in Filters THEN entries[n].sel ELSE "ignore"
           IN  entries' = n :> [text |-> text, sel |-> sel, act |-> "ignore"] @@ entries
        /\ UNCHANGED <<compiled, since>>

\* filters_set_anonymous, without an argument if text is Nil
SetAnonymous ==
    \E text \in Texts \cup {Nil} :
        LET parsed == ExprParse(text)
            checked == IF text = Nil THEN Done(Nil, {})
                       ELSE IF parsed.ok THEN CheckLeaves(parsed.v, {}) ELSE Fail
        IN  /\ checked.ok
            /\ entries' = [n \in Filters |-> [entries[n] EXCEPT !.act = "ignore"]]
            /\ compiled' = checked.v /\ since' = << >>

Next == ActivateNames \/ SetFilter \/ SetAnonymous

-----------------------------------------------------------------------------
(* What a filter says of a track, for the properties. A track is the set of *)
(* the program's own keys that hold of it.                                 *)

RECURSIVE Says(_, _, _)
Says(t, texts, track) ==
    CASE t[1] = "and" -> Says(t[2], texts, track) /\ Says(t[3], texts, track)
      [] t[1] = "or" -> Says(t[2], texts, track) \/ Says(t[3], texts, track)
      [] t[1] = "not" -> ~Says(t[2], texts, track)
      [] OTHER -> IF t[2] \in DOMAIN Builtin THEN t[2] \in track
                  ELSE Says(Meaning(Tokens(texts[t[2]], <<>>).v), texts, track)

RECURSIVE Keys(_)
Keys(t) ==
    CASE IsBinary(t) -> Keys(t[2]) \cup Keys(t[3])
      [] t[1] = "not" -> Keys(t[2])
      [] OTHER -> {t[2]}

\* filters_activate: whatever was activated or replaced since, the library only shows what
\* every filter that is marked as active says it should. It may show less: the expression
\* of a filter that was replaced stays in force without a mark, as does one without a name,
\* and filters_activate, which does nothing when no mark differs, does not end it, against
\* man/termus.txt:417-418, "If no arguments are provided, all filters are deactivated".
ActiveIsInForce ==
    \A n \in Filters, track \in SUBSET DOMAIN Builtin :
        LET e == Meaning(Tokens(entries[n].text, <<>>).v)
        IN  entries[n].act # "ignore" =>
                /\ compiled # Nil
                /\ Says(compiled, << >>, track) =>
                       (Says(e, since, track) <=> entries[n].act = "yes")

\* expr_check_leaves: no name of a filter is left in what the library is given, so that
\* a later change of a filter cannot reach it; and no filter came to contain itself.
CompiledStandsAlone == compiled # Nil => Keys(compiled) \subseteq DOMAIN Builtin
=============================================================================
