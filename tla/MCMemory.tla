------------------------------ MODULE MCMemory ------------------------------
(* Two processes, pages of two bytes, programs that load and programs that do not. *)
EXTENDS Memory

Load(vaddr, memsz, filesz, complete) ==
  [load |-> TRUE, vaddr |-> vaddr, memsz |-> memsz, filesz |-> filesz, complete |-> complete]
Note == [load |-> FALSE, vaddr |-> 0, memsz |-> 0, filesz |-> 0, complete |-> TRUE]

MCPrograms == {
  <<Note>>,                                            \* nothing to load
  <<Note, Load(0, 3, 1, TRUE)>>,                       \* text and bss
  <<Load(0, 1, 1, TRUE), Load(4, 1, 1, TRUE)>>,        \* a gap between two segments
  <<Load(0, 2, 2, TRUE), Load(3, 1, 1, TRUE)>>,        \* a segment that is not aligned
  <<Load(0, 2, 2, FALSE)>>,                            \* a file that is too short
  <<Load(0, 1, 2, TRUE)>>,                             \* memsz < filesz
  <<Load(8, 10, 1, TRUE)>>,                            \* vaddr + memsz is above KERNBASE
  <<Load(8, 60, 1, TRUE)>> }                           \* vaddr + memsz wraps around
MCExecs == [prog : MCPrograms, args : {1}] \cup [prog : {<<Note>>}, args : {3, 7}]
MCSbrk == {-2, -1, 1, 5, 14}
=============================================================================
