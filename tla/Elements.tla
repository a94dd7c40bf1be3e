------------------------------- MODULE Elements -------------------------------
(***************************************************************************)
(* The circuit elements of src/componant/ as the rest of the library sees  *)
(* them.  Each class writes its number of parameters down several times:   *)
(*   ranges  in its constructors, its defaults and paramCount;             *)
(*   code    in getCode, as the names it appends to the parameters;        *)
(*   script  in getTorchScript, likewise.                                  *)
(* Formulas, the values of the defaults and names are left out.            *)
(***************************************************************************)
EXTENDS Integers

Element(ranges, code, script) ==
    [ranges |-> ranges, code |-> code, script |-> script]

Resistor == Element(1, 1, 1)
Cap == Element(1, 1, 1)
Inductor == Element(1, 1, 1)

\* Variant: the exponent is not made a parameter of the compiled code.
Cpe_OneInCode == Element(2, 1, 2)

Cpe == Element(2, 2, 2)
Warburg == Element(1, 1, 1)

\* The script of the closed line is that of a constant phase element; the open
\* line has none, and inherits the empty one of Componant.
TransmissionLineClosed == Element(4, 4, 2)
TransmissionLineOpen == Element(4, 4, 0)

Elements ==
    [r |-> Resistor, c |-> Cap, l |-> Inductor, p |-> Cpe, w |-> Warburg,
     t |-> TransmissionLineClosed, o |-> TransmissionLineOpen]
===============================================================================
