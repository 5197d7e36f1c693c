----------------------------- MODULE KeyDispatch -----------------------------
(***************************************************************************)
(* Which bindings some keystrokes find (keymap.rs) and what becomes of     *)
(* keystrokes that may be the start of a longer one (key_dispatch.rs).     *)
(*                                                                         *)
(* A keymap is a sequence of bindings, in the order they were added.  A    *)
(* context stack is the sequence of the contexts from the root of the      *)
(* window to the focused element; a context predicate is the name of one   *)
(* of them, or "any".                                                      *)
(***************************************************************************)
EXTENDS Integers, SequencesExt

\* A binding of keystrokes to an action; `NoAction' and `Unbind' are actions.
Binding(keys, context, action) ==
  [keys |-> keys, context |-> context, action |-> action, unbinds |-> "none", user |-> TRUE]

Unbind(keys, context, action) ==
  [Binding(keys, context, "Unbind") EXCEPT !.unbinds = action]

\* The metadata of a keymap file that is not the user's.
OfBase(binding) == [binding EXCEPT !.user = FALSE]

Disabling == {"NoAction", "Unbind"}

\* binding_enabled, and the depth in the tree at which it matches.
Enabled(binding, stack) == binding.context = "any" \/ binding.context \in Range(stack)

Depth(binding, stack) ==
  IF binding.context = "any" THEN Len(stack)
  ELSE Max({d \in DOMAIN stack : stack[d] = binding.context})

\* match_keystrokes: the bindings that the input is the whole of, and those
\* it is the beginning of.
Matched(keymap, input, stack) ==
  {i \in DOMAIN keymap : Enabled(keymap[i], stack) /\ keymap[i].keys = input}

Longer(keymap, input, stack) ==
  {i \in DOMAIN keymap :
     Enabled(keymap[i], stack) /\ IsStrictPrefix(input, keymap[i].keys)}

\* The precedence: the deeper first, of the same depth the one added later.
Precedes(keymap, stack, i, j) ==
  LET di == Depth(keymap[i], stack)
      dj == Depth(keymap[j], stack)
  IN di > dj \/ (di = dj /\ i > j)

\* Whether the binding j keeps the weaker binding i from being returned.
Disables(keymap, j, i) ==
  \/ keymap[j].action = "NoAction" /\ keymap[j].user
  \/ keymap[j].action = "Unbind" /\ keymap[j].unbinds = keymap[i].action

\* bindings_for_input: the bindings returned.
Found(keymap, input, stack) ==
  LET matched == Matched(keymap, input, stack)
  IN {i \in matched :
        /\ keymap[i].action \notin Disabling
        /\ \A j \in matched : Precedes(keymap, stack, j, i) => ~Disables(keymap, j, i)}

\* bindings_for_input: whether more bindings might match a longer input.
\* Here only the order in which bindings were added counts, not their depth.
MayGrow(keymap, input, stack) ==
  LET longer == Longer(keymap, input, stack)
      found == Found(keymap, input, stack)
      First(i) == i \in found /\ \A f \in found \ {i} : Precedes(keymap, stack, i, f)
  IN \E i \in longer :
       /\ keymap[i].action \notin Disabling
       /\ \A f \in found : First(f) => f <= i
       /\ ~\E j \in longer :
            j > i /\ keymap[j].keys = keymap[i].keys /\ keymap[j].action \in Disabling

-----------------------------------------------------------------------------
\* replay_prefix: how many of the first keys are replayed as one.
PrefixLength(keymap, keys, stack) ==
  Max({1} \cup {m \in DOMAIN keys : Found(keymap, SubSeq(keys, 1, m), stack) # {}})

From(keys, n) == SubSeq(keys, n + 1, Len(keys))

\* As if a keystroke at the end that finds nothing was not replayed.
FlushFound(keymap, keys, stack) ==
  LET Replay[n \in 0 .. Len(keys)] ==
        LET rest == From(keys, n)
            length == PrefixLength(keymap, rest, stack)
        IN IF rest = <<>> \/ Found(keymap, SubSeq(rest, 1, length), stack) = {} THEN <<>>
           ELSE <<SubSeq(rest, 1, length)>> \o Replay[n + length]
  IN Replay[0]

\* flush_dispatch: the keys cut into the runs that are replayed one by one.
Flush(keymap, keys, stack) ==
  LET Replay[n \in 0 .. Len(keys)] ==
        LET rest == From(keys, n)
            length == PrefixLength(keymap, rest, stack)
        IN IF rest = <<>> THEN <<>>
           ELSE <<SubSeq(rest, 1, length)>> \o Replay[n + length]
  IN Replay[0]

\* dispatch_key: the runs replayed first, the keystrokes that stay pending
\* with whether they find a binding already, and the run dispatched last.
DispatchKey(keymap, pending, key, stack) ==
  LET Dispatch[n \in 0 .. Len(pending)] ==
        LET rest == From(pending, n)
            input == Append(rest, key)
            length == PrefixLength(keymap, rest, stack)
            bound == Found(keymap, input, stack) # {}
        IN IF MayGrow(keymap, input, stack)
             THEN [replay |-> <<>>, pending |-> input, bound |-> bound, last |-> <<>>]
           ELSE IF bound \/ rest = <<>>
             THEN [replay |-> <<>>, pending |-> <<>>, bound |-> FALSE, last |-> input]
           ELSE [Dispatch[n + length] EXCEPT !.replay = <<SubSeq(rest, 1, length)>> \o @]
  IN Dispatch[0]
=============================================================================
