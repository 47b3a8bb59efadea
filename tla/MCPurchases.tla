----------------------------- MODULE MCPurchases -----------------------------
EXTENDS MCPremium, PremiumHistory
=============================================================================
