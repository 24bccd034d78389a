------------------------------- MODULE Params -------------------------------
(***************************************************************************)
(* The parameter of common/params.h that several models share.  Those that *)
(* fix all the values of ML-DSA-44 have them in module Rounding.           *)
(***************************************************************************)
EXTENDS Naturals

CONSTANT N   \* coefficients of a polynomial, 256
=============================================================================
