------------------------------- MODULE MCEmod -------------------------------
EXTENDS Emod

\* Names of one and of two words; bytes of a library's names are above 32.
A == <<300>>
B == <<301, 302>>

AMember(name, type) == [name |-> name, val |-> 4, offset |-> 8, type |-> type]
AMethod(name, defaults) == [name |-> name, slot |-> 4, args |-> 2, defaults |-> defaults]
AnObject(name, members, methods, oacc) ==
  [name |-> name, members |-> members, size |-> 12, methods |-> methods, oacc |-> oacc,
   delcode |-> IF methods = << >> THEN 0 ELSE 600, odeloff |-> IF methods = << >> THEN 0 ELSE 4]

Plain == AnObject(A, <<AMember(A, << >>), AMember(B, << >>)>>, << >>, << >>)
Typed == AnObject(B, <<AMember(A, B), AMember(B, << >>), [AMember(A, << >>) EXCEPT !.offset = 10]>>, << >>, << >>)
Classy == AnObject(B, <<AMember(B, A)>>, <<AMethod(A, << >>), AMethod(B, <<7, 1000>>)>>, <<6, 700>>)
\* Another object of the first one's name.
Again == [Classy EXCEPT !.name = A]

AConst(name, value) == [name |-> name, value |-> value]
SomeConsts == {<< >>, <<AConst(A, 3), AConst(B, 1000)>>, <<AConst(A, 3), AConst(B, 7), AConst(A, 1000)>>}
SomeObjects == {<< >>, <<Plain>>, <<Typed, Plain>>, <<Plain, Classy>>, <<Plain, Typed, Again>>}

\* The word at the place of an intrinsic's call holds its number.
SomeCode == <<1, 2, 300, 4, 15, 6>>
AProc(name, kind, defaults, extra) ==
  [name |-> name, offset |-> 2, kind |-> kind, args |-> IF kind = "proc" THEN 2 ELSE 0,
   defaults |-> defaults, extra |-> extra]
SomeProcs == {<< >>, <<AProc(A, "proc", <<900, 1>>, << >>), AProc(B, "label", << >>, << >>)>>,
              <<AProc(B, "proc", << >>, B), AProc(A, "proc", <<5>>, A)>>}
AReloc(offset, ifunc) == [offset |-> offset, ifunc |-> ifunc]
SomeRelocs == {<< >>, <<AReloc(2, TRUE), AReloc(4, FALSE), AReloc(6, TRUE)>>}
AXref(name, refs) == [name |-> name, refs |-> refs]
SomeXrefs == <<AXref(A, <<4, 600>>), AXref(B, << >>)>>
SomeDrels == <<<<2, 6>>, <<8>>>>
AnUse(submodule, symbol, kind, refs) ==
  [submodule |-> submodule, symbol |-> symbol, kind |-> kind, refs |-> refs]
APlace(coff, type) == [coff |-> coff, type |-> type]
SomeModinfo == {<< >>, <<AnUse(A, B, 2, <<APlace(4, 0), APlace(8, 0)>>),
                         AnUse(B, A, 1, <<APlace(600, 3), APlace(2, 4)>>)>>}

AVector(name, regs) == [name |-> name, regs |-> regs]
SomeLibrary == [name |-> <<97, 98>>, base |-> <<99>>,
            funcs |-> <<AVector(<<65, 66>>, <<0, 9>>), AVector(<< >>, << >>),
                        AVector(<<67>>, << >>), AVector(<<68>>, <<15>>)>>]
\* A library without a function.
Bare == [SomeLibrary EXCEPT !.funcs = << >>]

\* What comes before the code, and whether debug information ends the file.
Around == {<<c, b, b # << >> /\ c # << >> >> : c \in SomeConsts, b \in {<< >>, <<Plain, Classy>>}}
\* What refers to it: all, nothing, one without the other.
References ==
  {<<r, IF i = << >> /\ r # << >> THEN << >> ELSE SomeXrefs, IF i = << >> THEN << >> ELSE SomeDrels, i>> :
     r \in SomeRelocs, i \in SomeModinfo}

SomeModules ==
  {[Empty EXCEPT !.consts = c, !.objects = b, !.lib = l] :
     c \in SomeConsts, b \in SomeObjects, l \in {<< >>, <<SomeLibrary>>, <<Bare>>}}
  \cup
  {[Empty EXCEPT !.consts = a[1], !.objects = a[2], !.code = SomeCode, !.procs = p, !.relocs = r[1],
                 !.xrefs = r[2], !.drels = r[3], !.modinfo = r[4], !.debug = a[3]] :
     a \in Around, p \in SomeProcs, r \in References}

SomeVersions == {5, 6, 7, 10, 11}
=============================================================================
