----------------------------- MODULE MCPhotonLink -----------------------------
EXTENDS PhotonLink, TLC
===============================================================================
