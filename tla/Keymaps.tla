------------------------------ MODULE Keymaps -------------------------------
(* The key bindings of the line editor: the three tables of single keys, the  *)
(* two hash tables of longer strings with their counts of prefixes, bindkey,   *)
(* and how getkeycmd() reads a command from them (zle_main.c, zle_bindings.c). *)
EXTENDS Integers, Sequences, FiniteSets, Lib
LOCAL INSTANCE SequencesExt
LOCAL INSTANCE FiniteSetsExt

CONSTANTS
  Keys, MetaKeys,   \* MetaKeys are those from 128 on
  emacsbind, viinsbind, vicmdbind,  \* key -> command, or "prefix"
  emacskeys, vikeys,                \* longer string (and ESC) -> command, at the start
  Hands     \* what a behaviour may do: binds, sends and alts are the arguments of
            \* bindkey, bindkey -s and bindkey -a; removes those of bindkey -r; options;
            \* careful: nothing is bound behind a key that is no prefix yet, and
            \* no key that is one is removed

VARIABLES
  hand,
  tab,          \* emacs_cur_bindtab, viins_cur_bindtab and altbindtab
  keys,         \* emkeybindtab and vikeybindtab: string -> [func, prefixct]
  main,         \* "emacs" or "viins": mainbindtab and keybindtab
  crashed,      \* a NULL pointer was followed
  wanted        \* history: for each main keymap, string -> what it was bound to

vars == <<hand, tab, keys, main, crashed, wanted>>

undefined == "undefined-key"

Key(s) == <<s[1]>>
\* The strings that are longer than nothing and shorter than s.
Before(s) == {SubSeq(s, 1, i) : i \in 1 .. Len(s) - 1}

makefunckey(f) == [func |-> f, prefixct |-> 0]

-----------------------------------------------------------------------------
(* initkeybindings() *)

\* The nodes for strings bound as in f, and for what stands before them.
Nodes(f) ==
  [s \in DOMAIN f \union UNION {Before(t) : t \in DOMAIN f} |->
     [func |-> IF s \in DOMAIN f THEN f[s] ELSE undefined,
      prefixct |-> Cardinality({t \in DOMAIN f : s \in Before(t)})]]

InitialTab ==
  LET Meta(f, table) == [k \in Keys |-> IF k \in MetaKeys THEN f[k] ELSE table[k]]
  IN  [emacs |-> Meta([k \in Keys |-> "self-insert"], emacsbind), viins |-> viinsbind,
       alt |-> Meta(emacsbind, vicmdbind)]
InitialKeys == [emacs |-> Nodes(emacskeys), viins |-> Nodes(vikeys)]
InitialWanted ==
  LET All(singles, longer) ==
        [s \in DOMAIN longer \union {<<k>> : k \in {j \in Keys : singles[j] \notin {"prefix", undefined}}} |->
           IF s \in DOMAIN longer THEN longer[s] ELSE singles[s[1]]]
  IN  [emacs |-> All(InitialTab.emacs, emacskeys), viins |-> All(InitialTab.viins, vikeys)]

-----------------------------------------------------------------------------
(* bin_bindkey(), for one in-string: K is [tab, other, keys, crashed], of the    *)
(* keymap that is changed, the other one of main and alternative, the strings.  *)

Func(K, s) ==
  IF Len(s) = 1 THEN K.tab[s[1]]
  ELSE IF s \in DOMAIN K.keys THEN K.keys[s].func ELSE undefined

Single(K, s) == Len(s) = 1 /\ K.tab[s[1]] # "prefix"

\* A slip: what is bound again counts again.
Counted_Twice(nodes, s) ==
  [n \in DOMAIN nodes \union Before(s) |->
     IF n \notin Before(s) THEN nodes[n]
     ELSE IF n \in DOMAIN nodes THEN [nodes[n] EXCEPT !.prefixct = @ + 1]
     ELSE [makefunckey(undefined) EXCEPT !.prefixct = 1]]

\* The prefixes of s count it, unless it is bound already.
Counted(nodes, s) ==
  IF s \in DOMAIN nodes /\ nodes[s].func # undefined THEN nodes
  ELSE [n \in DOMAIN nodes \union Before(s) |->
          IF n \notin Before(s) THEN nodes[n]
          ELSE IF n \in DOMAIN nodes THEN [nodes[n] EXCEPT !.prefixct = @ + 1]
          ELSE [makefunckey(undefined) EXCEPT !.prefixct = 1]]

\* A single key: only a string to send has a node.
BindSingle(K, s, f) ==
  [K EXCEPT !.tab[s[1]] = f,
            !.keys = IF f = "send-string" THEN With(@, s, makefunckey(f))
                     ELSE IF K.tab[s[1]] = "send-string" THEN But(@, {s}) ELSE @]

\* A longer string, or a key that is a prefix.  A key that becomes one should keep
\* its command in its own node; it is put into the node of the whole string.
BindString(K, s, f) ==
  LET counted == Counted(K.keys, s)
      fresh   == K.tab[s[1]] # "prefix"
      cur     == IF s \in DOMAIN counted THEN counted[s] ELSE makefunckey(f)
  IN  [K EXCEPT !.keys = With(counted, s, [cur EXCEPT !.func = IF fresh THEN K.tab[s[1]] ELSE f]),
                !.tab[s[1]] = "prefix"]

Bind(K, s, f) == IF Single(K, s) THEN BindSingle(K, s, f) ELSE BindString(K, s, f)

\* The prefixes of s, which has been taken out, count one less; those that are left
\* with nothing go.
Uncounted(K, s) ==
  LET nodes == [n \in DOMAIN K.keys |->
                  IF n \in Before(s) THEN [K.keys[n] EXCEPT !.prefixct = @ - 1] ELSE K.keys[n]]
      k     == Key(s)
      idle  == {n \in Before(s) : nodes[n].prefixct = 0}
      gone  == {n \in idle : nodes[n].func = undefined \/ (n = k /\ nodes[n].func # "send-string")}
  IN  IF Len(s) = 1 THEN K
      ELSE IF ~(Before(s) \subseteq DOMAIN K.keys) THEN [K EXCEPT !.crashed = TRUE]
      ELSE [K EXCEPT !.keys = But(nodes, gone),
                     !.tab[s[1]] = IF k \in idle THEN nodes[k].func ELSE @,
                     !.other[s[1]] = IF k \in idle /\ @ = "prefix" THEN nodes[k].func ELSE @]

\* bindkey -r: a key that is a prefix is taken for a string without a node.
Unbind(K, s) ==
  LET ky   == IF Len(s) > 1 THEN K.keys[s] ELSE makefunckey(undefined)
      left == [K EXCEPT !.keys = IF ky.prefixct > 0 THEN [@ EXCEPT ![s].func = undefined]
                                 ELSE But(@, {s})]
  IN  IF Func(K, s) = undefined THEN K
      ELSE IF Single(K, s)
      THEN [K EXCEPT !.tab[s[1]] = undefined,
                     !.keys = IF Func(K, s) = "send-string" THEN But(@, {s}) ELSE @]
      ELSE Uncounted(left, s)

-----------------------------------------------------------------------------
(* getkeycmd(), of the keys s and then nothing for longer than KEYTIMEOUT:      *)
(* [func, used], "wait" if no command is found and none is excluded.           *)

getkeycmd(table, nodes, s) ==
  LET At(i)    == SubSeq(s, 1, i)
      Is(i)    == At(i) \in DOMAIN nodes /\ nodes[At(i)].func # undefined
      stops    == {i \in 2 .. Len(s) : At(i) \notin DOMAIN nodes \/ (Is(i) /\ nodes[At(i)].prefixct = 0)}
      t        == IF stops = {} THEN Len(s) ELSE Min(stops)
      cky      == {i \in 1 .. t : Is(i)}
  IN  IF table[s[1]] # "prefix" THEN [func |-> table[s[1]], used |-> 1]
      ELSE IF At(1) \notin DOMAIN nodes THEN [func |-> "crash", used |-> 1]
      ELSE IF cky # {} THEN [func |-> nodes[At(Max(cky))].func, used |-> Max(cky)]
      ELSE [func |-> IF stops = {} THEN "wait" ELSE undefined, used |-> t]

-----------------------------------------------------------------------------
Init ==
  /\ hand \in Hands
  /\ tab = InitialTab /\ keys = InitialKeys /\ wanted = InitialWanted
  /\ main \in {"emacs", "viins"}
  /\ crashed = FALSE

Of(t) == [tab |-> tab[t], other |-> tab[IF t = "alt" THEN main ELSE "alt"],
          keys |-> keys[main], crashed |-> crashed]

Becomes(t, K) ==
  /\ tab' = [tab EXCEPT ![t] = K.tab, ![IF t = "alt" THEN main ELSE "alt"] = K.other]
  /\ keys' = [keys EXCEPT ![main] = K.keys]
  /\ crashed' = K.crashed
  /\ UNCHANGED <<hand, main>>

Careful(s) == hand.careful => Len(s) = 1 \/ tab[main][s[1]] = "prefix"

bindkey(s, f) ==
  /\ Careful(s)
  /\ Becomes(main, Bind(Of(main), s, f))
  /\ wanted' = [wanted EXCEPT ![main] = With(@, s, f)]

bindkey_a(k, f) ==
  /\ tab.alt[k] # "prefix"
  /\ Becomes("alt", Bind(Of("alt"), <<k>>, f))
  /\ UNCHANGED wanted

bindkey_r(s) ==
  /\ hand.careful => Len(s) > 1 \/ tab[main][s[1]] # "prefix"
  /\ Becomes(main, Unbind(Of(main), s))
  /\ wanted' = [wanted EXCEPT ![main] = But(@, {s})]

\* bindkey -d, with -e or -v.
bindkey_d(m) ==
  /\ tab' = InitialTab /\ keys' = InitialKeys /\ wanted' = InitialWanted
  /\ main' = m
  /\ UNCHANGED <<hand, crashed>>

\* bindkey -e and bindkey -v.
bindkey_ev(m) == main' = m /\ m # main /\ UNCHANGED <<hand, tab, keys, crashed, wanted>>

bindkey_m ==
  LET new == {k \in MetaKeys : tab[main][k] = "self-insert"}
      bound == {k \in new : emacsbind[k] # undefined}
  IN  /\ tab' = [tab EXCEPT ![main] = [k \in Keys |-> IF k \in new THEN emacsbind[k] ELSE @[k]]]
      /\ wanted' = [wanted EXCEPT ![main] =
                      [s \in (DOMAIN @ \ {<<k>> : k \in new}) \union {<<k>> : k \in bound} |->
                         IF s \in {<<k>> : k \in bound} THEN emacsbind[s[1]] ELSE @[s]]]
      /\ UNCHANGED <<hand, keys, main, crashed>>

Next ==
  \/ \E s \in hand.binds : bindkey(s, "f")
  \/ \E s \in hand.sends : bindkey(s, "send-string")
  \/ \E k \in hand.alts : bindkey_a(k, "f")
  \/ \E s \in hand.removes : bindkey_r(s)
  \/ \E m \in hand.options : bindkey_d(m) \/ bindkey_ev(m)
  \/ hand.options # {} /\ bindkey_m

Spec == Init /\ [][Next]_vars

-----------------------------------------------------------------------------
MaxTyped == 3

\* What the manual makes of keys s: the shell reads on while they begin something
\* longer, and runs the longest string that is bound.
Wanted(w, s) ==
  LET At(i)   == SubSeq(s, 1, i)
      over    == {i \in 1 .. Len(s) : \A b \in DOMAIN w : At(i) \notin Before(b)}
      t       == IF over = {} THEN Len(s) ELSE Min(over)
      bound   == {i \in 1 .. t : At(i) \in DOMAIN w}
  IN  IF bound # {} THEN [func |-> w[At(Max(bound))], used |-> Max(bound)]
      ELSE [func |-> IF over = {} THEN "wait" ELSE undefined, used |-> t]

\* zshbuiltins(1), bindkey: "bind each in-string to a specified command", "remove
\* any binding", and "an in-string to be bound to something and also be the beginning
\* of a longer bound string": after any sequence of bindings, removals and resets,
\* what is typed runs what was bound, and no key follows a node that is gone.
KeysRunWhatWasBound ==
  /\ ~crashed
  /\ \A s \in UNION {[1 .. n -> Keys] : n \in 1 .. MaxTyped} :
       getkeycmd(tab[main], keys[main], s) = Wanted(wanted[main], s)
  /\ \A k \in Keys : tab.alt[k] = "prefix" => <<k>> \in DOMAIN keys[main]
=============================================================================
