------------------------------- MODULE MCScaler -------------------------------
EXTENDS Scaler, TLC

ObserverSymmetry == Permutations(Observers)
=============================================================================
