------------------------------ MODULE MCContainer ------------------------------
EXTENDS Container

CONSTANT p
================================================================================
