------------------------------ MODULE MCCodingApp ------------------------------
EXTENDS CodingApp
================================================================================
