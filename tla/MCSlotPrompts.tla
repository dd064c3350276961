--------------------------- MODULE MCSlotPrompts ----------------------------
(* Two slots, prompts of up to six tokens that begin alike (with BOS).        *)
EXTENDS SlotPrompts

T(prompt, answer) ==
    [prompt |-> prompt, answer |-> answer, slot |-> 0, cache_prompt |-> TRUE,
     users |-> {}, children |-> {}, parent |-> 0]
A == <<1, 2, 2, 2, 2>>
B == <<1, 2, 2, 3>>
C == <<1, 3>>
D == A \o <<3>>

Base == [hybrid |-> TRUE, unified |-> FALSE, ram |-> TRUE, tasks |-> <<T(A, <<4>>)>>,
         cancels |-> {}, calls |-> {}, faults |-> {}]

(* Hybrid memory, one KV cache for the slots, with room or without.           *)
Unified == [Base EXCEPT !.unified = TRUE, !.faults = {"shortage", "load"}, !.cancels = {2},
                        !.tasks = <<T(A, <<4, 4>>), T(B, <<4, 4>>), T(D, <<4>>), T(C, <<4>>)>>]
(* A completion with two choices among others.                                *)
TwoChoices == [Base EXCEPT !.cancels = {2}, !.faults = {"compute"},
                        !.tasks = <<[T(A, <<4, 3>>) EXCEPT !.children = {2}],
                                    [T(A, <<3, 4>>) EXCEPT !.parent = 1],
                                    T(B, <<4, 4>>), T(D, <<3>>)>>]
(* Attention only, with pinned tasks and slot operations; no prompt cache.    *)
Attention == [Base EXCEPT !.hybrid = FALSE, !.ram = FALSE, !.calls = {"save", "restore", "erase"},
                          !.tasks = <<[T(A, <<4, 4>>) EXCEPT !.slot = 1], [T(B, <<4>>) EXCEPT !.slot = 1],
                                      T(D, <<4>>)>>]
(* Chat messages, a request that must not reuse anything, slot operations.    *)
Chat == [Base EXCEPT !.ram = FALSE, !.calls = {"save", "erase"},
                     !.tasks = <<[T(A, <<4, 4>>) EXCEPT !.users = {1}],
                                 [T(D \o <<2>>, <<4>>) EXCEPT !.users = {1, 5}],
                                 [T(B, <<4>>) EXCEPT !.cache_prompt = FALSE], T(A, <<4>>)>>]
AllScenarios == {Unified, TwoChoices, Attention, Chat}

(* A task for slot 1 comes while slot 1 works.                                *)
Pinned == {[Base EXCEPT !.tasks = <<T(A, <<4, 4>>), T(C, <<4, 4>>), [T(D, <<4>>) EXCEPT !.slot = 1]>>]}
=============================================================================
